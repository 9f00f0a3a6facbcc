--------------------------- MODULE ServiceManager ---------------------------
(***************************************************************************)
(* The service lifecycle coordinator, core/service_manager.py.             *)
(*                                                                         *)
(* An operation holds the manager's lock from beginning to end, through    *)
(* every start and stop callback and every event it publishes, so two      *)
(* operations never interleave; what is visible in between are the states  *)
(* a callback or an event listener sees.  op is the operation in progress. *)
(* Module Lifecycle adds what goes on in other threads meanwhile.          *)
(*                                                                         *)
(* A definition X_y is a mutant of X that no action uses: it is there to   *)
(* show that a property notices the mistake.                               *)
(***************************************************************************)
EXTENDS Integers, Sequences, SequencesExt, FiniteSets

CONSTANT Service        \* the names services are registered under

ASSUME ManagerAssumption == IsFiniteSet(Service)

VARIABLES
    deps,       \* registered service -> the services it depends on
    status,     \* registered service -> its state
    op,         \* the operation that holds the lock
    bare        \* whether a service that was down was ever restarted

managerVars == <<deps, status, op, bare>>

ServiceState == {"registered", "starting", "running", "stopping", "stopped", "failed"}
Call == {"start", "start_all", "stop", "stop_all", "restart"}

Registered == DOMAIN deps
InState(S) == {s \in Registered : status[s] \in S}
Running == InState({"running"})

(* kind: what the operation is doing now; todo: the services it has still  *)
(* to visit; started: started_now; failed: whether a stop callback raised; *)
(* restore: restore_names; before: what was running when it began.         *)
Operation == [kind : {"start", "rollback", "stop"}, call : Call,
              todo : Seq(Service), started : Seq(Service), failed : BOOLEAN,
              restore : SUBSET Service, before : SUBSET Service]
NoOp == [kind |-> "none"]

-----------------------------------------------------------------------------
(* _resolve_order_locked: the depth-first search yields one of the orders  *)
(* in which every service follows its dependencies, or raises when there   *)
(* is none (module DependencySearch has the search itself).                 *)
Orders_Unordered(S) == SetToSeqs(S)
Orders(S) ==
    IF S \subseteq Registered
    THEN {o \in SetToSeqs(S) :
            \A j \in DOMAIN o : \A d \in deps[o[j]] : \E i \in 1..(j - 1) : o[i] = d}
    ELSE {}

(* names and what they depend on, directly or not, registered or not: the  *)
(* least set that holds them and the dependencies of its members.          *)
Needed(names) ==
    LET closed(C) == /\ names \subseteq C
                     /\ \A s \in C \intersect Registered : deps[s] \subseteq C
    IN  {d \in Service : \A C \in SUBSET Service : closed(C) => d \in C}

(* _dependent_closure_locked, without the order: the least set that holds  *)
(* what depends on n or on one of its members.                             *)
Dependents(n) ==
    LET closed(C) == \A s \in Registered : deps[s] \intersect ({n} \union C) # {} => s \in C
    IN  {s \in Registered : \A C \in SUBSET Registered : closed(C) => s \in C}

(* The members of S in the order they have in o, the only one of a set.    *)
Precedes(o, s, t) == \E i, j \in DOMAIN o : i < j /\ o[i] = s /\ o[j] = t
Only(o, S) ==
    {q \in SetToSeqs(S) : \A i, j \in DOMAIN q : i < j => Precedes(o, q[i], q[j])}

Perform(kind, call, todo, restore) ==
    op' = [kind |-> kind, call |-> call, todo |-> todo, started |-> <<>>,
           failed |-> FALSE, restore |-> restore, before |-> Running]

-----------------------------------------------------------------------------
ManagerInit ==
    /\ deps = [s \in {} |-> {}]
    /\ status = [s \in {} |-> "registered"]
    /\ op = NoOp
    /\ bare = FALSE

Register(n, D) ==
    /\ op = NoOp
    /\ n \notin Registered
    /\ n \notin D
    /\ deps' = [s \in Registered \union {n} |-> IF s = n THEN D ELSE deps[s]]
    /\ status' = [s \in Registered \union {n} |->
                     IF s = n THEN "registered" ELSE status[s]]
    /\ UNCHANGED <<op, bare>>

Unregister(n) ==
    /\ op = NoOp
    /\ n \in InState({"registered", "stopped", "failed"})
    /\ \A s \in Registered : n \notin deps[s]
    /\ deps' = [s \in Registered \ {n} |-> deps[s]]
    /\ status' = [s \in Registered \ {n} |-> status[s]]
    /\ UNCHANGED <<op, bare>>

(* start and start_all; an operation for which there is no order raises    *)
(* before it changes anything.                                             *)
BeginStart(call, names) ==
    /\ op = NoOp
    /\ names \subseteq Registered
    /\ \E o \in Orders(Needed(names)) : Perform("start", call, o, {})
    /\ UNCHANGED <<deps, status, bare>>

(* stop: every service must be in order even to stop a single one. *)
BeginStop(n, cascade) ==
    /\ op = NoOp
    /\ n \in Registered
    /\ cascade \/ Dependents(n) \intersect Running = {}
    /\ \E o \in Orders(Registered) :
          \E todo \in Only(Reverse(o), Dependents(n) \union {n}) :
              Perform("stop", "stop", todo, {})
    /\ UNCHANGED <<deps, status, bare>>

BeginStopAll ==
    /\ op = NoOp
    /\ \E o \in Orders(Registered) : Perform("stop", "stop_all", Reverse(o), {})
    /\ UNCHANGED <<deps, status, bare>>

(* restart: stop n and its dependents, then start n and those of them that *)
(* were running; what n itself depends on is not among them.               *)
BeginRestart(n) ==
    /\ op = NoOp
    /\ n \in Registered
    /\ LET impacted == Dependents(n) \union {n}
       IN  \E o \in Orders(Registered) : \E todo \in Only(Reverse(o), impacted) :
              Perform("stop", "restart", todo, (impacted \intersect Running) \union {n})
    /\ bare' = (bare \/ n \notin Running)
    /\ UNCHANGED <<deps, status>>

-----------------------------------------------------------------------------
(* _start_order_locked *)

Doing(kind) == op.kind = kind /\ op.todo # <<>>
Current == Head(op.todo)
Advance(kind) == [op EXCEPT !.kind = kind, !.todo = Tail(@)]

SkipRunning_Counted ==
    /\ Doing("start")
    /\ status[Current] = "running"
    /\ op' = [Advance("start") EXCEPT !.started = Append(@, Current)]
    /\ UNCHANGED <<deps, status, bare>>
SkipRunning ==
    /\ Doing("start")
    /\ status[Current] = "running"
    /\ op' = Advance("start")
    /\ UNCHANGED <<deps, status, bare>>

CallStart ==
    /\ Doing("start")
    /\ status[Current] \in {"registered", "stopped", "failed"}
    /\ status' = [status EXCEPT ![Current] = "starting"]
    /\ UNCHANGED <<deps, op, bare>>

StartReturns ==
    /\ Doing("start")
    /\ status[Current] = "starting"
    /\ status' = [status EXCEPT ![Current] = "running"]
    /\ op' = [Advance("start") EXCEPT !.started = Append(@, Current)]
    /\ UNCHANGED <<deps, bare>>

(* A start callback raised: what this operation started is stopped again,  *)
(* last started first.                                                     *)
Undo_Forward == op.started
Undo == Reverse(op.started)

StartRaises ==
    /\ Doing("start")
    /\ status[Current] = "starting"
    /\ status' = [status EXCEPT ![Current] = "failed"]
    /\ op' = [op EXCEPT !.kind = "rollback", !.todo = Undo]
    /\ UNCHANGED <<deps, bare>>

(* _stop_record_locked, for a rollback or for a stop.  A stop callback     *)
(* that raises is remembered and the others are stopped all the same.      *)
SkipStopped ==
    /\ op.kind \in {"stop", "rollback"} /\ op.todo # <<>>
    /\ status[Current] \in {"registered", "stopped", "failed"}
    /\ op' = Advance(op.kind)
    /\ UNCHANGED <<deps, status, bare>>

CallStop ==
    /\ op.kind \in {"stop", "rollback"} /\ op.todo # <<>>
    /\ status[Current] = "running"
    /\ status' = [status EXCEPT ![Current] = "stopping"]
    /\ UNCHANGED <<deps, op, bare>>

StopReturns ==
    /\ op.kind \in {"stop", "rollback"} /\ op.todo # <<>>
    /\ status[Current] = "stopping"
    /\ status' = [status EXCEPT ![Current] = "stopped"]
    /\ op' = Advance(op.kind)
    /\ UNCHANGED <<deps, bare>>

StopRaises_Last ==
    /\ op.kind \in {"stop", "rollback"} /\ op.todo # <<>>
    /\ status[Current] = "stopping"
    /\ status' = [status EXCEPT ![Current] = "failed"]
    /\ op' = [op EXCEPT !.todo = <<>>, !.failed = TRUE]
    /\ UNCHANGED <<deps, bare>>
StopRaises ==
    /\ op.kind \in {"stop", "rollback"} /\ op.todo # <<>>
    /\ status[Current] = "stopping"
    /\ status' = [status EXCEPT ![Current] = "failed"]
    /\ op' = [Advance(op.kind) EXCEPT !.failed = TRUE]
    /\ UNCHANGED <<deps, bare>>

-----------------------------------------------------------------------------
(* The ends of the loops. *)

EndStart ==
    /\ op.kind \in {"start", "rollback"} /\ op.todo = <<>>
    /\ op' = NoOp
    /\ UNCHANGED <<deps, status, bare>>

EndStop ==
    /\ op.kind = "stop" /\ op.todo = <<>>
    /\ op.failed \/ op.call # "restart"
    /\ op' = NoOp
    /\ UNCHANGED <<deps, status, bare>>

ToRestore_First(o) == {<<Head(q)>> : q \in Only(o, op.restore)}
ToRestore(o) == Only(o, op.restore)

Restore ==
    /\ op.kind = "stop" /\ op.todo = <<>>
    /\ ~op.failed /\ op.call = "restart"
    /\ \E o \in Orders(Registered) : \E todo \in ToRestore(o) :
          op' = [op EXCEPT !.kind = "start", !.todo = todo]
    /\ UNCHANGED <<deps, status, bare>>

-----------------------------------------------------------------------------
Begin ==
    \/ \E n \in Service :
        \/ \E D \in SUBSET Service : Register(n, D)
        \/ Unregister(n)
        \/ BeginStart("start", {n})
        \/ \E cascade \in BOOLEAN : BeginStop(n, cascade)
        \/ BeginRestart(n)
    \/ BeginStart("start_all", Registered)
    \/ BeginStopAll

(* What an operation does between the callbacks.                           *)
Proceed ==
    SkipRunning \/ CallStart \/ SkipStopped \/ CallStop \/ EndStart \/ EndStop \/ Restore

-----------------------------------------------------------------------------
ManagerTypeOK ==
    /\ Registered \subseteq Service
    /\ deps \in [Registered -> SUBSET Service]
    /\ status \in [Registered -> ServiceState]
    /\ op = NoOp \/ op \in Operation
    /\ bare \in BOOLEAN

(* A service is being started, runs or is being stopped only while every   *)
(* service it depends on is running; callbacks and listeners see no other  *)
(* state, not even inside a rollback (service_manager.py:108), as long as  *)
(* only services that are up are restarted.                                *)
UpOnlyWithDependencies ==
    bare \/ \A s \in InState({"starting", "running", "stopping"}) :
               \A d \in deps[s] : d \in Running

(* A failed start rolls back exactly what it started: every service that   *)
(* was running before it still runs, and no other (service_manager.py:109).*)
RollbackExact ==
    /\ op # NoOp /\ op.kind \in {"start", "rollback"} /\ op.call # "restart" =>
          op.before \subseteq Running
    /\ op # NoOp /\ op.kind = "rollback" /\ op.todo = <<>> /\ op.call # "restart" =>
          Running = op.before

(* A restart that succeeds leaves running whatever was running before it   *)
(* (service_manager.py:310).                                               *)
RestartRestores ==
    op # NoOp /\ op.call = "restart" /\ op.kind = "start" /\ op.todo = <<>> =>
        op.before \subseteq Running

(* stop_all leaves nothing up, whichever stop callbacks raise              *)
(* (service_manager.py:533).                                               *)
StopAllEmpties ==
    op # NoOp /\ op.call = "stop_all" /\ op.todo = <<>> =>
        InState({"starting", "running", "stopping"}) = {}
=============================================================================
