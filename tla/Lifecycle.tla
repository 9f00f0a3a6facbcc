------------------------------ MODULE Lifecycle ------------------------------
(***************************************************************************)
(* The runtime's services under the service manager, as main.py puts them  *)
(* together, with one of them in full: the REST API (api/rest.py), whose   *)
(* requests look at all the others through the manager.                    *)
(*                                                                         *)
(* The manager calls the server's start and stop with its lock held.  stop *)
(* waits for the thread that accepts connections, while the threads of     *)
(* requests wait for the manager's lock.  The dashboard's capture and the  *)
(* status of the WebSocket channel read the manager in the same sections.  *)
(*                                                                         *)
(* The server's own lock is held for a few assignments and never while     *)
(* another lock is waited for, so it is not shown.                         *)
(***************************************************************************)
EXTENDS ServiceManager, DependencySearch

CONSTANTS
    Rest,           \* the service that is the REST API
    Handler         \* bound: threads that handle requests at the same time

ASSUME LifecycleAssumption == Rest \in Service

VARIABLES
    server,         \* _server is known
    bound,          \* its socket is bound to the port
    accepting,      \* its serve_forever loop runs
    request         \* the request each thread handles

restVars == <<server, bound, accepting, request>>
vars == <<managerVars, restVars>>

NoRequest == [at |-> "none", rows |-> {}]
Serving == {h \in Handler : request[h] # NoRequest}
LockFree == op = NoOp

Init ==
    /\ ManagerInit
    /\ server = FALSE /\ bound = FALSE /\ accepting = FALSE
    /\ request = [h \in Handler |-> NoRequest]

-----------------------------------------------------------------------------
(* RestApiServer.start and stop, the callbacks of Rest                     *)

Calling(kinds, s) ==
    /\ op.kind \in kinds /\ op.todo # <<>> /\ Current = Rest
    /\ Rest \in Registered /\ status[Rest] = s
Starting == Calling({"start"}, "starting")
Stopping == Calling({"stop", "rollback"}, "stopping")

IsRunning == server /\ accepting

Bind ==
    /\ Starting
    /\ ~IsRunning /\ ~bound
    /\ server' = TRUE /\ bound' = TRUE /\ accepting' = TRUE
    /\ UNCHANGED <<managerVars, request>>

Shutdown ==
    /\ Stopping
    /\ server /\ accepting
    /\ accepting' = FALSE
    /\ UNCHANGED <<managerVars, server, bound, request>>

(* server_close releases the port and would join the threads of requests   *)
(* were they not daemons (daemon_threads).                                 *)
Joined_All == Serving
Joined == {}
AfterClose_Bound == bound
AfterClose == FALSE

ServerClose ==
    /\ Stopping
    /\ server /\ ~accepting /\ bound
    /\ Joined = {}
    /\ bound' = AfterClose
    /\ server' = FALSE
    /\ UNCHANGED <<managerVars, accepting, request>>

(* The port may be in use by another program; stop never raises.           *)
RestReturns ==
    \/ StartReturns /\ (Current = Rest => IsRunning)
    \/ StartRaises /\ (Current = Rest => ~IsRunning)
    \/ StopReturns /\ (Current = Rest => ~server)
    \/ StopRaises /\ Current # Rest

-----------------------------------------------------------------------------
(* One request: it is counted and authorised, then answered at once or by  *)
(* what the manager says, each question under the manager's lock.          *)

Goto(h, l) == request' = [request EXCEPT ![h].at = l]
Answered(h) == request' = [request EXCEPT ![h] = NoRequest]

Accept(h) ==
    /\ accepting
    /\ request[h] = NoRequest
    /\ Goto(h, "received")
    /\ UNCHANGED <<managerVars, server, bound, accepting>>

(* Refused, or a path that needs nothing of the manager.                   *)
AnswerAtOnce(h) ==
    /\ request[h].at = "received"
    /\ Answered(h)
    /\ UNCHANGED <<managerVars, server, bound, accepting>>

(* list_statuses: all there is to /v1/status, the first step of the others.*)
ListStatuses(h, full) ==
    /\ request[h].at = "received"
    /\ LockFree
    /\ IF full THEN request' = [request EXCEPT ![h] = [at |-> "page", rows |-> Registered]]
               ELSE Answered(h)
    /\ UNCHANGED <<managerVars, server, bound, accepting>>

(* check_health, then status, of one service after the other.              *)
CheckHealth(h) ==
    /\ request[h].at = "page"
    /\ LockFree
    /\ request[h].rows \intersect Registered # {}
    /\ Goto(h, "checked")
    /\ UNCHANGED <<managerVars, server, bound, accepting>>

ReadStatus(h, s) ==
    /\ request[h].at = "checked"
    /\ LockFree
    /\ s \in request[h].rows \intersect Registered
    /\ request' = [request EXCEPT ![h] = [at |-> "page", rows |-> @.rows \ {s}]]
    /\ UNCHANGED <<managerVars, server, bound, accepting>>

(* Every service has its row, or one of them is not registered any more,   *)
(* which is answered with an internal error.                               *)
AnswerPage(h) ==
    /\ \/ request[h].at = "page" /\ request[h].rows = {}
       \/ request[h].rows \ Registered # {} /\ LockFree
    /\ Answered(h)
    /\ UNCHANGED <<managerVars, server, bound, accepting>>

-----------------------------------------------------------------------------
Operating ==
    \/ Proceed /\ UNCHANGED restVars
    \/ RestReturns /\ UNCHANGED restVars
    \/ Bind \/ Shutdown \/ ServerClose

Next ==
    \/ Begin /\ UNCHANGED restVars
    \/ Operating
    \/ \E h \in Handler :
        \/ Accept(h) \/ AnswerAtOnce(h) \/ CheckHealth(h) \/ AnswerPage(h)
        \/ \E full \in BOOLEAN : ListStatuses(h, full)
        \/ \E s \in Service : ReadStatus(h, s)

Spec == Init /\ [][Next]_vars

-----------------------------------------------------------------------------
TypeOK ==
    /\ ManagerTypeOK
    /\ server \in BOOLEAN /\ bound \in BOOLEAN /\ accepting \in BOOLEAN
    /\ request \in [Handler -> [at : {"none", "received", "page", "checked"},
                                rows : SUBSET Service]]

(* What an operation needs to go on: at the end of its loop, when a restart*)
(* is to start services again, an order of them; before it, a service in a *)
(* state it can deal with and, when that is the server on its way down,    *)
(* what the next step of stop needs.                                       *)
CanGoOn ==
    \/ /\ op.kind \in {"start", "rollback", "stop"} /\ op.todo = <<>>
       /\ op.kind = "stop" /\ ~op.failed /\ op.call = "restart" =>
             \E o \in Orders(Registered) : ToRestore(o) # {}
    \/ /\ op.kind = "start" /\ op.todo # <<>>
       /\ status[Current] \in ServiceState \ {"stopping"}
    \/ /\ op.kind \in {"stop", "rollback"} /\ op.todo # <<>>
       /\ status[Current] \in ServiceState \ {"starting"}
       /\ status[Current] = "stopping" /\ Current = Rest =>
             ~server \/ accepting \/ (bound /\ Joined = {})

(* An operation of the manager always comes on: nothing it waits for, with *)
(* the lock in its hands, waits for that lock (rest.py:257).               *)
NeverStuck == op # NoOp => CanGoOn /\ ENABLED Operating

(* Whatever was started, rolled back, stopped and restarted, the port is   *)
(* held exactly as long as the service is up, so that a start can always   *)
(* bind it again (rest.py:258).                                            *)
PortReleased == op = NoOp => (bound <=> Rest \in Running)

-----------------------------------------------------------------------------
(* Every graph of dependencies the manager can hold, with names nobody has *)
(* registered and with cycles, given to the searches themselves; it is     *)
(* looked at as long as nothing has been started.                          *)
Fresh == InState({"registered"}) = Registered /\ LockFree /\ Serving = {}

(* The ways to write the graph down, dependencies in any order, and what   *)
(* may be asked for: one service, or all of them.                          *)
Written ==
    {g \in [Registered -> UNION {SetToSeqs(deps[n]) : n \in Registered}] :
        \A n \in Registered : g[n] \in SetToSeqs(deps[n])}
Roots == {<<n>> : n \in Registered} \union SetToSeqs(Registered)

(* _resolve_order_locked (service_manager.py:563) returns an order of      *)
(* exactly what was asked for and what that depends on, and raises exactly *)
(* when there is none, because something that is needed is missing or      *)
(* depends on itself.                                                      *)
OrderExact ==
    Fresh => \A g \in Written, names \in Roots :
        LET found == ResolveOrder(g, names)
            orders == Orders(Needed(Range(names)))
        IN  IF found.raised = "none" THEN found.ordered \in orders ELSE orders = {}

(* A plan is accepted exactly when its tasks can be ranked above their     *)
(* dependencies (orchestrator.py:880), in whichever order they are visited.*)
AcyclicIsRanked ==
    Fresh => \A g \in Written, names \in SetToSeqs(Registered) :
        ValidateAcyclic(g, names) <=> Ranked(g, Service)
=============================================================================
