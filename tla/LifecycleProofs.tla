-------------------------- MODULE LifecycleProofs --------------------------
(***************************************************************************)
(* Proofs about Lifecycle, for any services, dependencies and number of    *)
(* requests.  Between the steps of the manager's callbacks the server goes *)
(* through states of its own; what relates them to the state of its        *)
(* service is inductive once one knows that a service is being started or  *)
(* stopped only as the current one of the operation that holds the lock    *)
(* (IInv).  What a rollback and stop_all leave behind follows from what    *)
(* an operation still has to do and what it has brought up (OInv).  That   *)
(* nothing is up without its dependencies and that a restart brings back   *)
(* all it took down follow from the order of what is still to be done      *)
(* (DInv).  The two searches for an order are proved for every graph, any  *)
(* way of writing it down and any names: what their call stack says of the *)
(* graph is inductive over their steps (SearchInv), and as each step spends*)
(* one of finitely many ticks they end.  With what an operation may be in  *)
(* the middle of (Kinds), it always has what it needs to go on.            *)
(***************************************************************************)
EXTENDS Lifecycle, FiniteSetTheorems, WellFoundedInduction, TLAPS

State == IF Rest \in Registered THEN status[Rest] ELSE "registered"
Down == {"registered", "stopped", "failed"}

Whole(b) == server = b /\ bound = b /\ accepting = b

IInv ==
    /\ server \in BOOLEAN /\ bound \in BOOLEAN /\ accepting \in BOOLEAN
    /\ status = [s \in Registered |-> status[s]]
    /\ op = NoOp \/ /\ DOMAIN op = {"kind", "call", "todo", "started", "failed",
                                    "restore", "before"}
                    /\ op.kind \in {"start", "rollback", "stop"}
    /\ State \in ServiceState
    /\ State \in Down => Whole(FALSE)
    /\ State = "running" => Whole(TRUE)
    /\ State = "starting" =>
         /\ op # NoOp /\ op.kind = "start" /\ op.todo # <<>> /\ Current = Rest
         /\ Whole(FALSE) \/ Whole(TRUE)
    /\ State = "stopping" =>
         /\ op # NoOp /\ op.kind \in {"stop", "rollback"} /\ op.todo # <<>> /\ Current = Rest
         /\ Whole(FALSE) \/ (server /\ bound)

-----------------------------------------------------------------------------
(* Steps of requests, and what else leaves the services alone.             *)
LEMMA ElsewhereKeeps ==
    ASSUME IInv, UNCHANGED <<deps, status, op, server, bound, accepting>>
    PROVE  IInv'
  BY DEF IInv, State, Whole, Down, Registered, Current

(* An operation begins, goes on to the next service or ends, when the API  *)
(* is neither being started nor being stopped.                             *)
LEMMA OperationMoves ==
    ASSUME IInv, State \notin {"starting", "stopping"},
           op' = NoOp \/ /\ DOMAIN op' = {"kind", "call", "todo", "started", "failed",
                                          "restore", "before"}
                         /\ op'.kind \in {"start", "rollback", "stop"},
           UNCHANGED <<deps, status, server, bound, accepting>>
    PROVE  IInv'
  BY DEF IInv, State, Whole, Down, Registered

LEMMA BeginKeeps ==
    ASSUME IInv, Begin, UNCHANGED restVars
    PROVE  IInv'
<1>0. op = NoOp
  BY DEF Begin, Register, Unregister, BeginStart, BeginStop, BeginStopAll, BeginRestart
<1>1. State \notin {"starting", "stopping"} /\ UNCHANGED <<server, bound, accepting>>
  BY <1>0 DEF IInv, restVars
<1>2. ASSUME NEW kind \in {"start", "stop"}, NEW call, NEW todo, NEW restore,
             Perform(kind, call, todo, restore), UNCHANGED <<deps, status>>
      PROVE  IInv'
  <2>1. /\ DOMAIN op' = {"kind", "call", "todo", "started", "failed", "restore", "before"}
        /\ op'.kind \in {"start", "rollback", "stop"}
    BY <1>2 DEF Perform
  <2> QED
    BY <1>1, <1>2, <2>1, OperationMoves
<1>3. ASSUME NEW n \in Service, NEW D \in SUBSET Service, Register(n, D) PROVE IInv'
  <2>1. Registered' = Registered \union {n} /\ n \notin Registered /\ op' = op
    BY <1>3 DEF Register, Registered
  <2>2. status' = [s \in Registered' |-> IF s = n THEN "registered" ELSE status[s]]
    BY <1>3, <2>1 DEF Register
  <2>3. State' = State
    BY <2>1, <2>2 DEF State
  <2>4. status' = [s \in Registered' |-> status'[s]]
    BY <2>2
  <2> QED
    BY <1>0, <1>1, <2>1, <2>3, <2>4 DEF IInv, Whole, Down
<1>4. ASSUME NEW n \in Service, Unregister(n) PROVE IInv'
  <2>1. Registered' = Registered \ {n} /\ n \in Registered /\ op' = op /\ status[n] \in Down
    BY <1>4 DEF Unregister, Registered, InState, Down
  <2>2. status' = [s \in Registered' |-> status[s]]
    BY <1>4, <2>1 DEF Unregister
  <2>3. State' = State \/ (State \in Down /\ State' = "registered")
    BY <2>1, <2>2 DEF State
  <2>4. status' = [s \in Registered' |-> status'[s]]
    BY <2>2
  <2> QED
    BY <1>0, <1>1, <2>1, <2>3, <2>4 DEF IInv, Whole, Down, ServiceState
<1>5. ASSUME NEW call, NEW names, BeginStart(call, names) PROVE IInv'
  BY <1>2, <1>5 DEF BeginStart
<1>6. ASSUME NEW n \in Service, NEW cascade, BeginStop(n, cascade) PROVE IInv'
  BY <1>2, <1>6 DEF BeginStop
<1>7. ASSUME NEW n \in Service, BeginRestart(n) PROVE IInv'
  <2>1. UNCHANGED <<deps, status>>
        /\ \E todo, restore : Perform("stop", "restart", todo, restore)
    BY <1>7 DEF BeginRestart
  <2> QED
    BY <1>2, <2>1
<1>8. CASE BeginStopAll
  BY <1>2, <1>8 DEF BeginStopAll
<1> QED
  BY <1>3, <1>4, <1>5, <1>6, <1>7, <1>8 DEF Begin

(* The manager passes over a service, calls back, or ends its loop.        *)
LEMMA ProceedKeeps ==
    ASSUME IInv, Proceed, UNCHANGED restVars
    PROVE  IInv'
<1>0. op.kind \in {"start", "rollback", "stop"}
  BY DEF Proceed, SkipRunning, CallStart, SkipStopped, CallStop, EndStart, EndStop,
         Restore, Doing
<1>1. UNCHANGED <<deps, server, bound, accepting>> /\ op # NoOp
  <2>1. op # NoOp
    BY <1>0 DEF NoOp
  <2> QED
    BY <2>1 DEF Proceed, SkipRunning, CallStart, SkipStopped, CallStop, EndStart, EndStop,
                Restore, restVars
<1>2. /\ DOMAIN op = {"kind", "call", "todo", "started", "failed", "restore", "before"}
      /\ op.kind \in {"start", "rollback", "stop"}
  BY <1>1 DEF IInv
<1>3. CASE SkipRunning \/ SkipStopped \/ EndStart \/ EndStop \/ Restore
  <2>1. UNCHANGED status
    BY <1>3 DEF SkipRunning, SkipStopped, EndStart, EndStop, Restore
  <2>2. State \notin {"starting", "stopping"}
    BY <1>3 DEF IInv, State, SkipRunning, SkipStopped, EndStart, EndStop, Restore, Doing
  <2>3. op' = NoOp \/ /\ DOMAIN op' = {"kind", "call", "todo", "started", "failed",
                                       "restore", "before"}
                      /\ op'.kind \in {"start", "rollback", "stop"}
    BY <1>2, <1>3 DEF SkipRunning, SkipStopped, EndStart, EndStop, Restore, Advance, Doing
  <2> QED
    BY <1>1, <2>1, <2>2, <2>3, OperationMoves
<1>4. CASE CallStart
  <2>1. /\ op' = op /\ op.kind = "start" /\ op.todo # <<>>
        /\ status[Current] \in Down
        /\ status' = [status EXCEPT ![Current] = "starting"]
    BY <1>4 DEF CallStart, Doing, Down
  <2>2. Registered' = Registered /\ Current' = Current
    BY <1>1, <2>1 DEF Registered, Current
  <2>3. status' = [s \in Registered |-> IF s = Current THEN "starting" ELSE status[s]]
    BY <2>1 DEF IInv
  <2>4. \/ State' = State /\ State \notin {"starting", "stopping"}
        \/ Current = Rest /\ State \in Down /\ State' = "starting"
    BY <2>1, <2>2, <2>3 DEF State, IInv, Down
  <2>5. status' = [s \in Registered' |-> status'[s]]
    BY <2>2, <2>3
  <2> QED
    BY <1>1, <1>2, <2>1, <2>2, <2>4, <2>5 DEF IInv, Whole, Down, ServiceState
<1>5. CASE CallStop
  <2>1. /\ op' = op /\ op.kind \in {"stop", "rollback"} /\ op.todo # <<>>
        /\ status[Current] = "running"
        /\ status' = [status EXCEPT ![Current] = "stopping"]
    BY <1>5 DEF CallStop
  <2>2. Registered' = Registered /\ Current' = Current
    BY <1>1, <2>1 DEF Registered, Current
  <2>3. status' = [s \in Registered |-> IF s = Current THEN "stopping" ELSE status[s]]
    BY <2>1 DEF IInv
  <2>4. \/ State' = State /\ State \notin {"starting", "stopping"}
        \/ Current = Rest /\ State = "running" /\ State' = "stopping"
    BY <2>1, <2>2, <2>3 DEF State, IInv, Down
  <2>5. status' = [s \in Registered' |-> status'[s]]
    BY <2>2, <2>3
  <2> QED
    BY <1>1, <1>2, <2>1, <2>2, <2>4, <2>5 DEF IInv, Whole, Down, ServiceState
<1> QED
  BY <1>3, <1>4, <1>5 DEF Proceed

(* A callback returns or raises.  The server's start raises only when it   *)
(* has bound nothing, and its stop returns only when it has let go.        *)
LEMMA CallbackKeeps ==
    ASSUME IInv, RestReturns, UNCHANGED restVars
    PROVE  IInv'
<1>1. UNCHANGED <<deps, server, bound, accepting>> /\ Registered' = Registered
  BY DEF RestReturns, StartReturns, StartRaises, StopReturns, StopRaises, restVars, Registered
<1>2. /\ op # NoOp /\ op.todo # <<>> /\ op.kind \in {"start", "rollback", "stop"}
      /\ DOMAIN op = {"kind", "call", "todo", "started", "failed", "restore", "before"}
  BY DEF IInv, RestReturns, StartReturns, StartRaises, StopReturns, StopRaises, Doing, NoOp
<1>3. PICK s \in {"running", "stopped", "failed"} :
        /\ status' = [status EXCEPT ![Current] = s]
        /\ \/ status[Current] = "starting" /\ s = "running" /\ (Current = Rest => IsRunning)
           \/ status[Current] = "starting" /\ s = "failed" /\ (Current = Rest => ~IsRunning)
           \/ status[Current] = "stopping" /\ s = "stopped" /\ (Current = Rest => ~server)
           \/ status[Current] = "stopping" /\ s = "failed" /\ Current # Rest
  BY DEF RestReturns, StartReturns, StartRaises, StopReturns, StopRaises
<1>4. /\ DOMAIN op' = {"kind", "call", "todo", "started", "failed", "restore", "before"}
      /\ op'.kind \in {"start", "rollback", "stop"}
  BY <1>2 DEF RestReturns, StartReturns, StartRaises, StopReturns, StopRaises, Advance
<1>5. status' = [t \in Registered |-> IF t = Current THEN s ELSE status[t]]
  BY <1>3 DEF IInv
<1>6. status' = [t \in Registered' |-> status'[t]]
  BY <1>1, <1>5
<1>7. CASE Rest \in Registered /\ Current = Rest
  <2>1. State = status[Current] /\ State' = s
    BY <1>1, <1>5, <1>7 DEF State
  <2>2. s = "running" => Whole(TRUE)
    BY <1>3, <1>7, <2>1 DEF IInv, Whole, IsRunning
  <2>3. s # "running" => Whole(FALSE)
    BY <1>3, <1>7, <2>1 DEF IInv, Whole, IsRunning
  <2> QED
    BY <1>1, <1>4, <1>6, <2>1, <2>2, <2>3 DEF IInv, Whole, Down, ServiceState
<1>8. CASE ~(Rest \in Registered /\ Current = Rest)
  <2>1. State' = State
    BY <1>1, <1>5, <1>8 DEF State
  <2>2. State \notin {"starting", "stopping"}
    BY <1>8 DEF IInv, State
  <2> QED
    BY <1>1, <1>4, <1>6, <2>1, <2>2 DEF IInv, Whole, Down
<1> QED
  BY <1>7, <1>8

(* The server's own steps, inside its callbacks.                           *)
LEMMA ServerKeeps ==
    ASSUME IInv, Bind \/ Shutdown \/ ServerClose
    PROVE  IInv'
<1>1. UNCHANGED <<deps, status, op>>
  BY DEF Bind, Shutdown, ServerClose, managerVars
<1>2. State' = State /\ Current' = Current /\ Registered' = Registered
  BY <1>1 DEF State, Current, Registered
<1> QED
  BY <1>1, <1>2 DEF IInv, Bind, Shutdown, ServerClose, Starting, Stopping, Calling,
     IsRunning, Whole, AfterClose, State, Down

(* Every step keeps the invariant.                                         *)
LEMMA StepKeeps == IInv /\ [Next]_vars => IInv'
<1> SUFFICES ASSUME IInv, [Next]_vars PROVE IInv'
  OBVIOUS
<1>1. CASE Operating
  BY <1>1, ProceedKeeps, CallbackKeeps, ServerKeeps DEF Operating
<1>2. ASSUME NEW h \in Handler,
             \/ Accept(h) \/ AnswerAtOnce(h) \/ CheckHealth(h) \/ AnswerPage(h)
             \/ \E full \in BOOLEAN : ListStatuses(h, full)
             \/ \E s \in Service : ReadStatus(h, s)
      PROVE  IInv'
  BY <1>2, ElsewhereKeeps DEF Accept, AnswerAtOnce, CheckHealth, AnswerPage, ListStatuses,
     ReadStatus, managerVars
<1>3. CASE UNCHANGED vars
  BY <1>3, ElsewhereKeeps DEF vars, managerVars, restVars
<1> QED
  BY <1>1, <1>2, <1>3, BeginKeeps DEF Next

(* The port is held exactly as long as the API is up whenever no operation *)
(* is under way, for any services and dependencies, whichever callbacks    *)
(* raise, and whatever is rolled back, restarted or registered anew.       *)
THEOREM PortAlwaysReleased == Spec => []PortReleased
<1>1. Init => IInv
  BY DEF Init, ManagerInit, IInv, State, Whole, Down, Registered, ServiceState
<1>2. IInv /\ [Next]_vars => IInv'
  BY StepKeeps
<1>3. IInv => PortReleased
  BY DEF IInv, PortReleased, State, Whole, Down, Running, InState, ServiceState
<1> QED
  BY <1>1, <1>2, <1>3, PTL DEF Spec

-----------------------------------------------------------------------------
(* What the manager's own loops preserve, whatever callbacks do: a start   *)
(* knows exactly what it has brought up, a rollback what it has to take    *)
(* down again, and stop_all what may still be up.                          *)

Brought ==
    /\ op.todo \in Seq(Registered) /\ op.started \in Seq(Registered)
    /\ op.before \subseteq Running
    /\ Running \subseteq op.before \union Range(op.started)
    /\ op.before \intersect Range(op.started) = {}

Undoing ==
    /\ op.todo \in Seq(Registered)
    /\ op.before \subseteq Running
    /\ Running \subseteq op.before \union Range(op.todo)
    /\ op.before \intersect Range(op.todo) = {}

Up == {"starting", "running", "stopping"}
Moving == {"starting", "stopping"}
Emptying == op.todo \in Seq(Registered) /\ InState(Up) \subseteq Range(op.todo)

OInv ==
    /\ Registered \subseteq Service
    /\ status \in [Registered -> ServiceState]
    /\ op # NoOp =>
         /\ DOMAIN op = {"kind", "call", "todo", "started", "failed", "restore", "before"}
         /\ op.call \in Call
         /\ op.call \in {"stop", "stop_all"} => op.kind = "stop"
         /\ op.call \in {"start", "start_all"} =>
              \/ op.kind = "start" /\ Brought
              \/ op.kind = "rollback" /\ Undoing
         /\ op.call = "stop_all" => Emptying

(* What the operators on sequences do to the set of a sequence's members.  *)
LEMMA HeadAndTail ==
    ASSUME NEW S, NEW s \in Seq(S), s # <<>>
    PROVE  /\ Head(s) \in S /\ Tail(s) \in Seq(S)
           /\ Range(s) = {Head(s)} \union Range(Tail(s))
<1>1. Len(s) \in Nat \ {0} /\ Head(s) = s[1] /\ Head(s) \in S /\ Tail(s) \in Seq(S)
  OBVIOUS
<1>2. /\ DOMAIN s = 1..Len(s) /\ DOMAIN Tail(s) = 1..(Len(s) - 1)
      /\ \A i \in 1..(Len(s) - 1) : Tail(s)[i] = s[i + 1]
  OBVIOUS
<1>3. ASSUME NEW x \in Range(s) PROVE x \in {Head(s)} \union Range(Tail(s))
  <2>1. PICK i \in 1..Len(s) : x = s[i]
    BY <1>2 DEF Range
  <2>2. CASE i = 1
    BY <1>1, <2>1, <2>2
  <2>3. CASE i # 1
    <3>1. i - 1 \in 1..(Len(s) - 1) /\ (i - 1) + 1 = i
      BY <1>1, <2>3
    <3> QED
      BY <1>2, <2>1, <3>1 DEF Range
  <2> QED
    BY <2>2, <2>3
<1>4. ASSUME NEW x \in {Head(s)} \union Range(Tail(s)) PROVE x \in Range(s)
  BY <1>1, <1>2 DEF Range
<1> QED
  BY <1>1, <1>3, <1>4

LEMMA AppendAdds ==
    ASSUME NEW S, NEW s \in Seq(S), NEW e \in S
    PROVE  Append(s, e) \in Seq(S) /\ Range(Append(s, e)) = Range(s) \union {e}
<1>1. /\ Append(s, e) \in Seq(S) /\ DOMAIN Append(s, e) = 1..(Len(s) + 1)
      /\ DOMAIN s = 1..Len(s) /\ Len(s) \in Nat
      /\ Append(s, e)[Len(s) + 1] = e
      /\ \A i \in 1..Len(s) : Append(s, e)[i] = s[i]
  OBVIOUS
<1>2. ASSUME NEW x \in Range(Append(s, e)) PROVE x \in Range(s) \union {e}
  <2>1. PICK i \in 1..(Len(s) + 1) : x = Append(s, e)[i]
    BY <1>1 DEF Range
  <2>2. i \in 1..Len(s) \/ i = Len(s) + 1
    BY <1>1
  <2> QED
    BY <1>1, <2>1, <2>2 DEF Range
<1>3. ASSUME NEW x \in Range(s) \union {e} PROVE x \in Range(Append(s, e))
  <2>1. \E i \in 1..(Len(s) + 1) : x = Append(s, e)[i]
    BY <1>1 DEF Range
  <2> QED
    BY <1>1, <2>1 DEF Range
<1> QED
  BY <1>1, <1>2, <1>3

LEMMA ReverseKeeps ==
    ASSUME NEW S, NEW s \in Seq(S)
    PROVE  Reverse(s) \in Seq(S) /\ Range(Reverse(s)) = Range(s)
<1>1. /\ Len(s) \in Nat /\ DOMAIN s = 1..Len(s) /\ \A i \in 1..Len(s) : s[i] \in S
      /\ \A i \in 1..Len(s) : (Len(s) - i) + 1 \in 1..Len(s)
  OBVIOUS
<1>2. Reverse(s) \in Seq(S) /\ DOMAIN Reverse(s) = 1..Len(s)
  BY <1>1 DEF Reverse
<1>3. \A i \in 1..Len(s) : Reverse(s)[i] = s[(Len(s) - i) + 1]
  BY <1>1 DEF Reverse
<1>4. \A i \in 1..Len(s) : s[i] = Reverse(s)[(Len(s) - i) + 1]
  <2> TAKE i \in 1..Len(s)
  <2>1. (Len(s) - ((Len(s) - i) + 1)) + 1 = i
    BY <1>1
  <2> QED
    BY <1>1, <1>3, <2>1
<1>5. Range(Reverse(s)) \subseteq Range(s)
  BY <1>1, <1>2, <1>3 DEF Range
<1>6. Range(s) \subseteq Range(Reverse(s))
  BY <1>1, <1>2, <1>4 DEF Range
<1> QED
  BY <1>2, <1>5, <1>6

(* A sequence of the members of a set has them all, each once.             *)
LEMMA SequenceHasAll ==
    ASSUME NEW S, IsFiniteSet(S), NEW q \in SetToSeqs(S)
    PROVE  q \in Seq(S) /\ Range(q) = S /\ IsInjective(q)
<1>1. /\ q \in [1..Cardinality(S) -> S]
      /\ \A i, j \in 1..Cardinality(S) : i # j => q[i] # q[j]
  BY DEF SetToSeqs
<1>2. Cardinality(S) \in Nat
  BY FS_CardinalityType
<1>3. q \in Seq(S)
  BY <1>1, <1>2
<1>4. q \in Injection(1..Cardinality(S), S)
  BY <1>1 DEF Injection, IsInjective
<1>5. IsFiniteSet(1..Cardinality(S)) /\ Cardinality(1..Cardinality(S)) = Cardinality(S)
  BY <1>2, FS_Interval
<1>6. q \in Surjection(1..Cardinality(S), S)
  BY <1>4, <1>5, FS_Injection
<1>7. Range(q) = S
  BY <1>1, <1>6 DEF Range, Surjection
<1> QED
  BY <1>1, <1>3, <1>7 DEF IsInjective

(* An order of a set of services has all of them, and no other.            *)
LEMMA OrderHasAll ==
    ASSUME NEW S, IsFiniteSet(S), NEW o \in Orders(S)
    PROVE  /\ S \subseteq Registered /\ o \in Seq(S) /\ Range(o) = S /\ IsInjective(o)
           /\ \A j \in DOMAIN o : \A d \in deps[o[j]] : \E i \in DOMAIN o : i < j /\ o[i] = d
<1>1. /\ S \subseteq Registered /\ o \in SetToSeqs(S)
      /\ \A j \in DOMAIN o : \A d \in deps[o[j]] : \E i \in 1..(j - 1) : o[i] = d
  BY DEF Orders
<1>2. o \in Seq(S) /\ Range(o) = S /\ IsInjective(o)
  BY <1>1, SequenceHasAll
<1>3. ASSUME NEW j \in DOMAIN o, NEW d \in deps[o[j]]
      PROVE  \E i \in DOMAIN o : i < j /\ o[i] = d
  <2>1. PICK i \in 1..(j - 1) : o[i] = d
    BY <1>1
  <2>2. DOMAIN o = 1..Len(o) /\ Len(o) \in Nat
    BY <1>2
  <2> QED
    BY <2>1, <2>2
<1> QED
  BY <1>1, <1>2, <1>3

(* Steps that no operation takes.                                          *)
LEMMA OthersKeep ==
    ASSUME OInv, UNCHANGED <<deps, status, op>>
    PROVE  OInv'
  BY DEF OInv, Brought, Undoing, Emptying, Running, InState, Registered

(* Nothing is known of what is registered but its state.                   *)
LEMMA RegistrationKeeps ==
    ASSUME OInv, NEW n \in Service,
           Unregister(n) \/ \E D \in SUBSET Service : Register(n, D)
    PROVE  OInv'
<1>1. CASE Unregister(n)
  <2>1. Registered' = Registered \ {n} /\ op' = NoOp
        /\ status' = [s \in Registered \ {n} |-> status[s]]
    BY <1>1 DEF Unregister, Registered
  <2> QED
    BY <2>1 DEF OInv
<1>2. ASSUME NEW D \in SUBSET Service, Register(n, D) PROVE OInv'
  <2>1. Registered' = Registered \union {n} /\ op' = NoOp
        /\ status' = [s \in Registered \union {n} |->
                         IF s = n THEN "registered" ELSE status[s]]
    BY <1>2 DEF Register, Registered
  <2> QED
    BY <2>1 DEF OInv, ServiceState
<1> QED
  BY <1>1, <1>2

(* When an operation begins, nothing is started yet, and stop_all has      *)
(* every service before it.                                                *)
LEMMA OperationBegins ==
    ASSUME OInv, Begin
    PROVE  OInv'
<1>1. op = NoOp
  BY DEF Begin, Register, Unregister, BeginStart, BeginStop, BeginStopAll, BeginRestart
<1>2. IsFiniteSet(Registered)
  BY ManagerAssumption, FS_Subset DEF OInv
<1>3. ASSUME NEW call \in {"stop", "restart"}, NEW todo, NEW restore,
             Perform("stop", call, todo, restore), UNCHANGED <<deps, status>>
      PROVE  OInv'
  <2>1. /\ op' # NoOp /\ op'.kind = "stop" /\ op'.call = call
        /\ DOMAIN op' = {"kind", "call", "todo", "started", "failed", "restore", "before"}
    BY <1>3 DEF Perform, NoOp
  <2> QED
    BY <1>3, <2>1 DEF OInv, Call, Registered
<1>4. ASSUME NEW call \in {"start", "start_all"}, NEW names, BeginStart(call, names)
      PROVE  OInv'
  <2>1. PICK o \in Orders(Needed(names)) : Perform("start", call, o, {})
    BY <1>4 DEF BeginStart
  <2>2. Needed(names) \subseteq Registered
    BY <2>1 DEF Orders
  <2>3. IsFiniteSet(Needed(names))
    BY <1>2, <2>2, FS_Subset
  <2>4. o \in Seq(Registered)
    BY <2>2, <2>3, OrderHasAll
  <2>5. /\ op' # NoOp /\ op'.kind = "start" /\ op'.call = call /\ op'.todo = o
        /\ op'.started = <<>> /\ op'.before = Running
        /\ DOMAIN op' = {"kind", "call", "todo", "started", "failed", "restore", "before"}
    BY <2>1 DEF Perform, NoOp
  <2>6. UNCHANGED <<deps, status>> /\ Registered' = Registered /\ Running' = Running
    BY <1>4 DEF BeginStart, Registered, Running, InState
  <2>7. Brought'
    BY <2>4, <2>5, <2>6 DEF Brought, Range
  <2> QED
    BY <2>5, <2>6, <2>7 DEF OInv, Call
<1>5. CASE BeginStopAll
  <2>1. PICK o \in Orders(Registered) : Perform("stop", "stop_all", Reverse(o), {})
    BY <1>5 DEF BeginStopAll
  <2>2. o \in Seq(Registered) /\ Range(o) = Registered
    BY <1>2, OrderHasAll
  <2>3. Reverse(o) \in Seq(Registered) /\ Range(Reverse(o)) = Registered
    BY <2>2, ReverseKeeps
  <2>4. /\ op' # NoOp /\ op'.kind = "stop" /\ op'.call = "stop_all"
        /\ op'.todo = Reverse(o)
        /\ DOMAIN op' = {"kind", "call", "todo", "started", "failed", "restore", "before"}
    BY <2>1 DEF Perform, NoOp
  <2>5. UNCHANGED <<deps, status>> /\ Registered' = Registered
    BY <1>5 DEF BeginStopAll, Registered
  <2>6. Emptying'
    BY <2>3, <2>4, <2>5 DEF Emptying, InState
  <2> QED
    BY <2>4, <2>5, <2>6 DEF OInv, Call
<1>6. ASSUME NEW n \in Service, NEW cascade, BeginStop(n, cascade) PROVE OInv'
  BY <1>3, <1>6 DEF BeginStop
<1>7. ASSUME NEW n \in Service, BeginRestart(n) PROVE OInv'
  <2>1. UNCHANGED <<deps, status>>
        /\ \E todo, restore : Perform("stop", "restart", todo, restore)
    BY <1>7 DEF BeginRestart
  <2> QED
    BY <1>3, <2>1
<1> QED
  BY <1>4, <1>5, <1>6, <1>7, RegistrationKeeps DEF Begin

(* What a change of the current service's state does to the sets of        *)
(* services in given states.                                               *)
LEMMA StateChanges ==
    ASSUME status \in [Registered -> ServiceState], NEW n \in Registered, NEW x \in ServiceState,
           status' = [status EXCEPT ![n] = x], UNCHANGED deps
    PROVE  /\ Registered' = Registered
           /\ status' \in [Registered -> ServiceState]
           /\ Running' = IF x = "running" THEN Running \union {n} ELSE Running \ {n}
           /\ InState(Up)' = IF x \in Up THEN InState(Up) \union {n} ELSE InState(Up) \ {n}
           /\ InState(Moving)' = IF x \in Moving THEN InState(Moving) \union {n}
                                                  ELSE InState(Moving) \ {n}
<1>1. Registered' = Registered
  BY DEF Registered
<1>2. status' = [s \in Registered |-> IF s = n THEN x ELSE status[s]]
  OBVIOUS
<1>3. Up' = Up /\ Moving' = Moving
  BY DEF Up, Moving
<1> QED
  BY <1>1, <1>2, <1>3 DEF Running, InState

Fields == {"kind", "call", "todo", "started", "failed", "restore", "before"}

(* What a step of an operation has to show, for each kind of operation.    *)
LEMMA OperationKeeps ==
    ASSUME OInv, op # NoOp, Registered' = Registered,
           status' \in [Registered -> ServiceState],
           DOMAIN op' = Fields, op'.call = op.call,
           op.kind = "stop" /\ op.call # "restart" => op'.kind = "stop",
           op.call \in {"start", "start_all"} => \/ op'.kind = "start" /\ Brought'
                                                 \/ op'.kind = "rollback" /\ Undoing',
           op.call = "stop_all" => Emptying'
    PROVE  OInv'
  BY DEF OInv, Fields

(* Going on to the next service, when the current one is not running and   *)
(* its state does not change.                                              *)
LEMMA SkipStoppedKeeps == ASSUME OInv, SkipStopped PROVE OInv'
<1>1. /\ op.kind \in {"stop", "rollback"} /\ op.todo # <<>>
      /\ status[Current] \in Down /\ op' = [op EXCEPT !.kind = op.kind, !.todo = Tail(@)]
      /\ UNCHANGED <<deps, status>> /\ op # NoOp
  BY DEF SkipStopped, Advance, Down, NoOp
<1>2. /\ DOMAIN op' = Fields /\ op'.call = op.call /\ op'.kind = op.kind
      /\ op'.todo = Tail(op.todo) /\ op'.before = op.before
  BY <1>1 DEF OInv, Fields
<1>3. Registered' = Registered /\ Running' = Running /\ InState(Up)' = InState(Up)
  BY <1>1 DEF Registered, Running, InState, Up
<1>4. Current \notin Running /\ Current \notin InState(Up)
  BY <1>1 DEF Running, InState, Down, Up
<1>5. ASSUME op.call \in {"start", "start_all"} PROVE Undoing'
  <2>1. Undoing
    BY <1>1, <1>5 DEF OInv
  <2>2. /\ Tail(op.todo) \in Seq(Registered)
        /\ Range(op.todo) = {Current} \union Range(Tail(op.todo))
    BY <1>1, <2>1, HeadAndTail DEF Undoing, Current
  <2> QED
    BY <1>2, <1>3, <1>4, <2>1, <2>2 DEF Undoing
<1>6. ASSUME op.call = "stop_all" PROVE Emptying'
  <2>1. Emptying
    BY <1>1, <1>6 DEF OInv
  <2>2. /\ Tail(op.todo) \in Seq(Registered)
        /\ Range(op.todo) = {Current} \union Range(Tail(op.todo))
    BY <1>1, <2>1, HeadAndTail DEF Emptying, Current
  <2> QED
    BY <1>2, <1>3, <1>4, <2>1, <2>2 DEF Emptying
<1> QED
  BY <1>1, <1>2, <1>3, <1>5, <1>6, OperationKeeps DEF OInv

LEMMA SkipRunningKeeps == ASSUME OInv, SkipRunning PROVE OInv'
<1>1. /\ op.kind = "start" /\ op.todo # <<>>
      /\ op' = [op EXCEPT !.kind = "start", !.todo = Tail(@)]
      /\ UNCHANGED <<deps, status>> /\ op # NoOp
  BY DEF SkipRunning, Advance, Doing, NoOp
<1>2. /\ DOMAIN op' = Fields /\ op'.call = op.call /\ op'.kind = "start"
      /\ op'.todo = Tail(op.todo) /\ op'.before = op.before /\ op'.started = op.started
  BY <1>1 DEF OInv, Fields
<1>3. Registered' = Registered /\ Running' = Running
  BY <1>1 DEF Registered, Running, InState
<1>4. ASSUME op.call \in {"start", "start_all"} PROVE Brought'
  <2>1. Brought
    BY <1>1, <1>4 DEF OInv
  <2>2. Tail(op.todo) \in Seq(Registered)
    BY <1>1, <2>1, HeadAndTail DEF Brought
  <2> QED
    BY <1>2, <1>3, <2>1, <2>2 DEF Brought
<1>5. op.call # "stop_all"
  BY <1>1 DEF OInv
<1> QED
  BY <1>1, <1>2, <1>3, <1>4, <1>5, OperationKeeps DEF OInv

(* A callback is called, returns or raises.                                *)
LEMMA StartKeeps ==
    ASSUME OInv, CallStart \/ StartReturns \/ StartRaises
    PROVE  OInv'
<1>1. /\ op.kind = "start" /\ op.todo # <<>> /\ op # NoOp /\ UNCHANGED deps
      /\ status[Current] \notin {"running", "stopping"}
  BY DEF CallStart, StartReturns, StartRaises, Doing, NoOp
<1>2. PICK x \in {"starting", "running", "failed"} :
        /\ status' = [status EXCEPT ![Current] = x]
        /\ \/ x = "starting" /\ op' = op
           \/ x = "running" /\ op' = [Advance("start") EXCEPT !.started = Append(@, Current)]
           \/ x = "failed" /\ op' = [op EXCEPT !.kind = "rollback", !.todo = Undo]
  BY DEF CallStart, StartReturns, StartRaises
<1>3. /\ DOMAIN op' = Fields /\ op'.call = op.call /\ op'.before = op.before
      /\ x = "starting" => op'.kind = "start" /\ op'.todo = op.todo /\ op'.started = op.started
      /\ x = "running" => /\ op'.kind = "start" /\ op'.todo = Tail(op.todo)
                          /\ op'.started = Append(op.started, Current)
      /\ x = "failed" => op'.kind = "rollback" /\ op'.todo = Reverse(op.started)
  BY <1>1, <1>2 DEF OInv, Fields, Advance, Undo
<1>4. Registered' = Registered /\ status' \in [Registered -> ServiceState]
  BY <1>1, <1>2 DEF OInv, ServiceState, Registered
<1>5. ASSUME op.call \in {"start", "start_all"}
      PROVE  \/ op'.kind = "start" /\ Brought'
             \/ op'.kind = "rollback" /\ Undoing'
  <2>1. Brought
    BY <1>1, <1>5 DEF OInv
  <2>2. Current \in Registered /\ Tail(op.todo) \in Seq(Registered)
    BY <1>1, <2>1, HeadAndTail DEF Brought, Current
  <2>3. Current \notin Running
    BY <1>1 DEF Running, InState
  <2>4. Running' = IF x = "running" THEN Running \union {Current} ELSE Running
    <3>1. x \in ServiceState
      BY DEF ServiceState
    <3>2. Running' = IF x = "running" THEN Running \union {Current} ELSE Running \ {Current}
      BY <1>1, <1>2, <2>2, <3>1, StateChanges DEF OInv
    <3> QED
      BY <2>3, <3>2
  <2>5. CASE x = "starting"
    BY <1>3, <1>4, <2>1, <2>4, <2>5 DEF Brought
  <2>6. CASE x = "running"
    <3>1. /\ op'.started \in Seq(Registered)
          /\ Range(op'.started) = Range(op.started) \union {Current}
      <4>1. op.started \in Seq(Registered) /\ op'.started = Append(op.started, Current)
        BY <1>3, <2>1, <2>6 DEF Brought
      <4> QED
        BY <2>2, <4>1, AppendAdds
    <3> QED
      BY <1>3, <1>4, <2>1, <2>2, <2>3, <2>4, <2>6, <3>1 DEF Brought
  <2>7. CASE x = "failed"
    <3>1. /\ op'.todo \in Seq(Registered)
          /\ Range(op'.todo) = Range(op.started)
      BY <1>3, <2>1, <2>7, ReverseKeeps DEF Brought
    <3> QED
      BY <1>3, <1>4, <2>1, <2>4, <2>7, <3>1 DEF Brought, Undoing
  <2> QED
    BY <2>5, <2>6, <2>7
<1>6. op.call # "stop_all"
  BY <1>1 DEF OInv
<1> QED
  BY <1>1, <1>3, <1>4, <1>5, <1>6, OperationKeeps

LEMMA StopKeeps ==
    ASSUME OInv, CallStop \/ StopReturns \/ StopRaises
    PROVE  OInv'
<1>1. /\ op.kind \in {"stop", "rollback"} /\ op.todo # <<>> /\ op # NoOp /\ UNCHANGED deps
  BY DEF CallStop, StopReturns, StopRaises, NoOp
<1>2. PICK x \in {"stopping", "stopped", "failed"} :
        /\ status' = [status EXCEPT ![Current] = x]
        /\ \/ x = "stopping" /\ op' = op
           \/ x = "stopped" /\ op' = Advance(op.kind)
           \/ x = "failed" /\ op' = [Advance(op.kind) EXCEPT !.failed = TRUE]
  BY DEF CallStop, StopReturns, StopRaises
<1>3. /\ DOMAIN op' = Fields /\ op'.call = op.call /\ op'.kind = op.kind
      /\ op'.before = op.before
      /\ op'.todo = IF x = "stopping" THEN op.todo ELSE Tail(op.todo)
  BY <1>1, <1>2 DEF OInv, Fields, Advance
<1>4. Registered' = Registered /\ status' \in [Registered -> ServiceState]
  BY <1>1, <1>2 DEF OInv, ServiceState, Registered
<1>5. ASSUME op.call \in {"start", "start_all"} PROVE Undoing'
  <2>1. Undoing
    BY <1>1, <1>5 DEF OInv
  <2>2. /\ Current \in Registered /\ Tail(op.todo) \in Seq(Registered)
        /\ Range(op.todo) = {Current} \union Range(Tail(op.todo))
    BY <1>1, <2>1, HeadAndTail DEF Undoing, Current
  <2>3. Running' = Running \ {Current}
    BY <1>1, <1>2, <2>2, StateChanges DEF OInv, ServiceState
  <2> QED
    BY <1>3, <1>4, <2>1, <2>2, <2>3 DEF Undoing
<1>6. ASSUME op.call = "stop_all" PROVE Emptying'
  <2>1. Emptying
    BY <1>1, <1>6 DEF OInv
  <2>2. /\ Current \in Registered /\ Tail(op.todo) \in Seq(Registered)
        /\ Range(op.todo) = {Current} \union Range(Tail(op.todo))
    BY <1>1, <2>1, HeadAndTail DEF Emptying, Current
  <2>3. InState(Up)' = IF x = "stopping" THEN InState(Up) \union {Current}
                                         ELSE InState(Up) \ {Current}
    BY <1>1, <1>2, <2>2, StateChanges DEF OInv, ServiceState, Up
  <2> QED
    BY <1>3, <1>4, <2>1, <2>2, <2>3 DEF Emptying
<1> QED
  BY <1>1, <1>3, <1>4, <1>5, <1>6, OperationKeeps DEF OInv

(* The ends of the loops; a restart goes on to start what it has stopped.  *)
LEMMA EndsKeep ==
    ASSUME OInv, EndStart \/ EndStop \/ Restore
    PROVE  OInv'
<1>1. CASE EndStart \/ EndStop
  BY <1>1 DEF EndStart, EndStop, OInv, Registered
<1>2. CASE Restore
  <2>1. op.call = "restart" /\ op.kind = "stop" /\ UNCHANGED <<deps, status>>
    BY <1>2 DEF Restore
  <2>2. op # NoOp
    BY <2>1 DEF NoOp
  <2>3. PICK t : op' = [op EXCEPT !.kind = "start", !.todo = t]
    BY <1>2 DEF Restore
  <2>4. DOMAIN op' = Fields /\ op'.call = op.call
    BY <2>2, <2>3 DEF OInv, Fields
  <2> QED
    BY <2>1, <2>2, <2>4, OperationKeeps DEF OInv, Registered
<1> QED
  BY <1>1, <1>2

LEMMA OperationsKeep == OInv /\ [Next]_vars => OInv'
<1> SUFFICES ASSUME OInv, [Next]_vars PROVE OInv'
  OBVIOUS
<1>1. CASE Begin
  BY <1>1, OperationBegins
<1>2. CASE Proceed
  BY <1>2, SkipRunningKeeps, StartKeeps, SkipStoppedKeeps, StopKeeps, EndsKeep DEF Proceed
<1>3. CASE RestReturns
  BY <1>3, StartKeeps, StopKeeps DEF RestReturns
<1>4. CASE Bind \/ Shutdown \/ ServerClose
  BY <1>4, OthersKeep DEF Bind, Shutdown, ServerClose, managerVars
<1>5. ASSUME NEW h \in Handler,
             \/ Accept(h) \/ AnswerAtOnce(h) \/ CheckHealth(h) \/ AnswerPage(h)
             \/ \E full \in BOOLEAN : ListStatuses(h, full)
             \/ \E s \in Service : ReadStatus(h, s)
      PROVE  OInv'
  BY <1>5, OthersKeep DEF Accept, AnswerAtOnce, CheckHealth, AnswerPage, ListStatuses,
     ReadStatus, managerVars
<1>6. CASE UNCHANGED vars
  BY <1>6, OthersKeep DEF vars, managerVars
<1> QED
  BY <1>1, <1>2, <1>3, <1>4, <1>5, <1>6 DEF Next, Operating

LEMMA OInvAlways == Spec => []OInv
<1>1. Init => OInv
  BY DEF Init, ManagerInit, OInv, Registered
<1> QED
  BY <1>1, OperationsKeep, PTL DEF Spec

(* A failed start leaves running what was running before it and nothing    *)
(* else, for any services, whichever callbacks raise (_rollback_locked).   *)
THEOREM RollbackAlwaysExact == Spec => []RollbackExact
<1>1. OInv => RollbackExact
  <2> SUFFICES ASSUME OInv PROVE RollbackExact
    OBVIOUS
  <2>1. ASSUME op # NoOp, op.kind \in {"start", "rollback"}, op.call # "restart"
        PROVE  \/ op.kind = "start" /\ Brought
               \/ op.kind = "rollback" /\ Undoing
    BY <2>1 DEF OInv, Call
  <2>2. Range(<<>>) = {}
    BY DEF Range
  <2> QED
    BY <2>1, <2>2 DEF RollbackExact, Brought, Undoing
<1> QED
  BY <1>1, OInvAlways, PTL

(* stop_all leaves nothing up, for any services and dependencies, and      *)
(* whichever stop callbacks raise (ServiceManager.stop_all).               *)
THEOREM StopAllAlwaysEmpties == Spec => []StopAllEmpties
<1>1. OInv => StopAllEmpties
  BY DEF OInv, StopAllEmpties, Emptying, Up, Range
<1> QED
  BY <1>1, OInvAlways, PTL

-----------------------------------------------------------------------------
(* A service is up only above running dependencies: what an operation      *)
(* still has to do comes in an order that agrees with the dependencies     *)
(* (DInv, checked on the states of the run Lifecycle before it was         *)
(* proved).  A service that was down and is restarted is started without   *)
(* what it depends on, and so the order is kept only while bare is FALSE;  *)
(* what a restart brings back does not depend on it.                       *)

(* A start brings up nothing before what it depends on, and knows what it  *)
(* has brought up, each above what it depends on.                          *)
StartsInOrder ==
    \A j \in DOMAIN op.todo : \A d \in deps[op.todo[j]] :
        d \in Running \/ \E i \in DOMAIN op.todo : i < j /\ op.todo[i] = d
StartedInOrder ==
    \A k \in DOMAIN op.started : \A s \in Running :
        op.started[k] \in deps[s] =>
            \E i \in DOMAIN op.started : k < i /\ op.started[i] = s

(* A stop or a rollback takes down nothing before what is up above it.     *)
StopsInOrder ==
    \A k \in DOMAIN op.todo : \A s \in InState(Up) :
        op.todo[k] \in deps[s] => \E i \in DOMAIN op.todo : i < k /\ op.todo[i] = s

(* What a restart is to start again stands on itself and on what it leaves *)
(* alone.                                                                  *)
Restorable ==
    /\ Running \subseteq op.before
    /\ \A r \in op.restore : \A d \in deps[r] : d \in op.restore \/ d \in Running

Above == \A s \in InState(Up) : \A d \in deps[s] : d \in Running

Typed ==
    /\ Registered \subseteq Service
    /\ deps \in [Registered -> SUBSET Service]
    /\ status \in [Registered -> ServiceState]
    /\ op # NoOp => /\ DOMAIN op = Fields
                    /\ op.kind \in {"start", "rollback", "stop"}
                    /\ op.todo \in Seq(Registered) /\ op.started \in Seq(Registered)
                    /\ op.restore \subseteq Registered
                    /\ op.kind = "stop" => op.started = <<>>

(* At most one service is on its way up or down: the current one.          *)
Alone ==
    \A s \in InState({"starting", "stopping"}) :
        op # NoOp /\ op.todo # <<>> /\ s = Current

(* What a restart took down it still has to start.                         *)
Restarts ==
    op # NoOp /\ op.call = "restart" =>
        /\ op.kind = "stop" => /\ Range(op.todo) \intersect op.before \subseteq op.restore
                               /\ op.before \ op.restore \subseteq Running
        /\ op.kind = "start" => op.before \subseteq Running \union Range(op.todo)

Ordered ==
    /\ Above
    /\ op # NoOp /\ op.kind = "start" => StartsInOrder /\ StartedInOrder
    /\ op # NoOp /\ op.kind \in {"stop", "rollback"} => StopsInOrder
    /\ op # NoOp /\ op.kind = "stop" /\ op.call = "restart" => Restorable

DInv == Typed /\ Alone /\ Restarts /\ (~bare => Ordered)

-----------------------------------------------------------------------------
(* What depends on a dependent of n is one. *)
LEMMA DependentsClosed ==
    ASSUME NEW n, NEW s \in Registered, NEW d \in deps[s], d = n \/ d \in Dependents(n)
    PROVE  s \in Dependents(n)
  BY DEF Dependents

LEMMA OnlyHasAll ==
    ASSUME NEW S, IsFiniteSet(S), NEW o, NEW q \in Only(o, S)
    PROVE  /\ q \in Seq(S) /\ Range(q) = S
           /\ \A i, j \in DOMAIN q : i < j => Precedes(o, q[i], q[j])
<1>1. q \in SetToSeqs(S)
  BY DEF Only
<1> QED
  BY <1>1, SequenceHasAll DEF Only

(* What is picked out of an order keeps to it. *)
LEMMA PickedInOrder ==
    ASSUME IsFiniteSet(Registered), NEW S \in SUBSET Registered,
           NEW o \in Orders(Registered), NEW q \in Only(o, S),
           NEW j \in DOMAIN q, NEW d \in deps[q[j]], d \in S
    PROVE  \E i \in DOMAIN q : i < j /\ q[i] = d
<1>1. IsFiniteSet(S)
  BY FS_Subset
<1>2. /\ q \in Seq(S) /\ Range(q) = S
      /\ \A i, k \in DOMAIN q : i < k => Precedes(o, q[i], q[k])
  BY <1>1, OnlyHasAll
<1>3. /\ o \in Seq(Registered) /\ Range(o) = Registered /\ IsInjective(o)
      /\ \A k \in DOMAIN o : \A e \in deps[o[k]] : \E i \in DOMAIN o : i < k /\ o[i] = e
  BY OrderHasAll
<1>4. PICK i \in DOMAIN q : q[i] = d
  BY <1>2 DEF Range
<1>5. PICK m \in DOMAIN o : o[m] = q[j]
  BY <1>2, <1>3 DEF Range
<1>6. PICK l \in DOMAIN o : l < m /\ o[l] = d
  BY <1>3, <1>5
<1>7. i \in Nat /\ j \in Nat /\ l \in Nat /\ m \in Nat
  BY <1>2, <1>3
<1>8. ~(j < i)
  <2> SUFFICES ASSUME j < i PROVE FALSE
    OBVIOUS
  <2>1. PICK a \in DOMAIN o, b \in DOMAIN o : a < b /\ o[a] = q[j] /\ o[b] = q[i]
    BY <1>2 DEF Precedes
  <2>2. a = m /\ b = l
    BY <2>1, <1>3, <1>4, <1>5, <1>6 DEF IsInjective
  <2> QED
    BY <2>1, <2>2, <1>6, <1>7
<1>9. i # j
  BY <1>3, <1>4, <1>5, <1>6, <1>7 DEF IsInjective
<1> QED
  BY <1>4, <1>7, <1>8, <1>9

LEMMA ReverseIs ==
    ASSUME NEW S, NEW s \in Seq(S)
    PROVE  /\ Len(s) \in Nat /\ DOMAIN s = 1..Len(s) /\ DOMAIN Reverse(s) = 1..Len(s)
           /\ \A i \in 1..Len(s) : /\ (Len(s) - i) + 1 \in 1..Len(s)
                                   /\ Reverse(s)[i] = s[(Len(s) - i) + 1]
<1>1. Len(s) \in Nat /\ DOMAIN s = 1..Len(s)
  OBVIOUS
<1> QED
  BY <1>1 DEF Reverse

(* In the reverse of an order, what depends on a service is before it, and *)
(* so it is in what is picked out of that.                                 *)
LEMMA ReversePrecedes ==
    ASSUME IsFiniteSet(Registered), NEW o \in Orders(Registered),
           NEW s \in Registered, NEW d \in deps[s], NEW k \in DOMAIN Reverse(o),
           Reverse(o)[k] = d
    PROVE  /\ \E i \in DOMAIN Reverse(o) : i < k /\ Reverse(o)[i] = s
           /\ \A i \in DOMAIN Reverse(o) : Reverse(o)[i] = s => i < k
<1>1. /\ o \in Seq(Registered) /\ Range(o) = Registered /\ IsInjective(o)
      /\ \A j \in DOMAIN o : \A e \in deps[o[j]] : \E i \in DOMAIN o : i < j /\ o[i] = e
  BY OrderHasAll
<1>2. PICK n : n = Len(o)
  OBVIOUS
<1>3. PICK b : b = Reverse(o)
  OBVIOUS
<1>4. /\ n \in Nat /\ DOMAIN o = 1..n /\ DOMAIN b = 1..n
      /\ \A i \in 1..n : (n - i) + 1 \in 1..n /\ b[i] = o[(n - i) + 1]
  BY <1>1, <1>2, <1>3, ReverseIs
<1>5. PICK m \in 1..n : o[m] = s
  BY <1>1, <1>4 DEF Range
<1>6. PICK l \in 1..n : l < m /\ o[l] = d
  BY <1>1, <1>4, <1>5
<1>7. k \in 1..n /\ b[k] = d
  BY <1>3, <1>4
<1>8. l = (n - k) + 1
  BY <1>1, <1>4, <1>6, <1>7 DEF IsInjective
<1>9. ASSUME NEW i \in 1..n, b[i] = s PROVE i < k
  <2>1. (n - i) + 1 = m
    BY <1>1, <1>4, <1>5, <1>9 DEF IsInjective
  <2> QED
    BY <2>1, <1>4, <1>6, <1>7, <1>8
<1>10. (n - m) + 1 \in 1..n /\ b[(n - m) + 1] = s
  <2>1. (n - m) + 1 \in 1..n /\ (n - ((n - m) + 1)) + 1 = m
    BY <1>4
  <2> QED
    BY <2>1, <1>4, <1>5
<1> QED
  BY <1>3, <1>4, <1>9, <1>10

LEMMA PickedInReverse ==
    ASSUME IsFiniteSet(Registered), NEW S \in SUBSET Registered,
           NEW o \in Orders(Registered), NEW q \in Only(Reverse(o), S),
           NEW k \in DOMAIN q, NEW s \in S, q[k] \in deps[s]
    PROVE  \E i \in DOMAIN q : i < k /\ q[i] = s
<1>1. IsFiniteSet(S)
  BY FS_Subset
<1>2. /\ q \in Seq(S) /\ Range(q) = S
      /\ \A i, j \in DOMAIN q : i < j => Precedes(Reverse(o), q[i], q[j])
  BY <1>1, OnlyHasAll
<1>3. PICK b : b = Reverse(o)
  OBVIOUS
<1>4. o \in Seq(Registered) /\ Range(o) = Registered
  BY OrderHasAll
<1>5. b \in Seq(Registered) /\ Range(b) = Registered /\ DOMAIN b = 1..Len(o) /\ Len(o) \in Nat
  BY <1>3, <1>4, ReverseKeeps, ReverseIs
<1>6. \A a, c \in DOMAIN b : b[a] = q[k] /\ b[c] = s => c < a
  BY <1>3, ReversePrecedes
<1>7. PICK i \in DOMAIN q : q[i] = s
  BY <1>2 DEF Range
<1>8. i \in Nat /\ k \in Nat
  BY <1>2
<1>9. ~(k < i)
  <2> SUFFICES ASSUME k < i PROVE FALSE
    OBVIOUS
  <2>1. PICK a \in DOMAIN b, c \in DOMAIN b : a < c /\ b[a] = q[k] /\ b[c] = q[i]
    BY <1>2, <1>3 DEF Precedes
  <2>2. c < a
    BY <2>1, <1>6, <1>7
  <2> QED
    BY <2>1, <2>2, <1>5
<1>10. k # i
  <2> SUFFICES ASSUME k = i PROVE FALSE
    OBVIOUS
  <2>1. PICK a \in DOMAIN b : b[a] = s
    BY <1>5 DEF Range
  <2>2. a < a
    BY <2>1, <1>6, <1>7
  <2> QED
    BY <2>1, <2>2, <1>5
<1> QED
  BY <1>7, <1>8, <1>9, <1>10

-----------------------------------------------------------------------------
(* The current service, and the rest of the way. *)
LEMMA TypedTail ==
    ASSUME Typed, op # NoOp, op.todo # <<>>
    PROVE  /\ Current \in Registered /\ Current = op.todo[1] /\ 1 \in DOMAIN op.todo
           /\ Tail(op.todo) \in Seq(Registered)
           /\ Range(op.todo) = {Current} \union Range(Tail(op.todo))
           /\ DOMAIN op.todo \subseteq Nat \ {0} /\ DOMAIN Tail(op.todo) \subseteq Nat \ {0}
           /\ \A i \in DOMAIN Tail(op.todo) :
                 i + 1 \in DOMAIN op.todo /\ Tail(op.todo)[i] = op.todo[i + 1]
           /\ \A i \in DOMAIN op.todo : i # 1 =>
                 i - 1 \in DOMAIN Tail(op.todo) /\ Tail(op.todo)[i - 1] = op.todo[i]
<1>1. PICK q : q = op.todo
  OBVIOUS
<1>2. q \in Seq(Registered) /\ q # <<>>
  BY <1>1 DEF Typed
<1>3. /\ Head(q) \in Registered /\ Tail(q) \in Seq(Registered)
      /\ Range(q) = {Head(q)} \union Range(Tail(q))
  BY <1>2, HeadAndTail
<1>4. /\ Len(q) \in Nat \ {0} /\ DOMAIN q = 1..Len(q) /\ Head(q) = q[1]
      /\ DOMAIN Tail(q) = 1..(Len(q) - 1)
      /\ \A i \in 1..(Len(q) - 1) : Tail(q)[i] = q[i + 1]
  BY <1>2
<1>5. \A i \in 1..(Len(q) - 1) : i + 1 \in 1..Len(q)
  BY <1>4
<1>6. ASSUME NEW i \in 1..Len(q), i # 1
      PROVE  i - 1 \in 1..(Len(q) - 1) /\ Tail(q)[i - 1] = q[i]
  <2>1. i - 1 \in 1..(Len(q) - 1) /\ (i - 1) + 1 = i
    BY <1>4, <1>6
  <2> QED
    BY <2>1, <1>4
<1>7. /\ DOMAIN q \subseteq Nat \ {0} /\ DOMAIN Tail(q) \subseteq Nat \ {0}
      /\ 1 \in DOMAIN q
  BY <1>4
<1>8. /\ \A i \in DOMAIN Tail(q) : i + 1 \in DOMAIN q /\ Tail(q)[i] = q[i + 1]
      /\ \A i \in DOMAIN q : i # 1 => i - 1 \in DOMAIN Tail(q) /\ Tail(q)[i - 1] = q[i]
  BY <1>4, <1>5, <1>6
<1> QED
  BY <1>1, <1>3, <1>4, <1>7, <1>8 DEF Current

(* What is left of a start is in order once the current service runs, and  *)
(* what is left of a stop once it is down.                                 *)
LEMMA StartsTail ==
    ASSUME Typed, op # NoOp, op.todo # <<>>, StartsInOrder,
           op'.todo = Tail(op.todo), UNCHANGED deps,
           Running \union {Current} \subseteq Running'
    PROVE  StartsInOrder'
<1> SUFFICES ASSUME NEW j \in DOMAIN Tail(op.todo), NEW d \in deps[Tail(op.todo)[j]],
                    d \notin Running'
             PROVE  \E i \in DOMAIN Tail(op.todo) : i < j /\ Tail(op.todo)[i] = d
  BY DEF StartsInOrder
<1>1. /\ j + 1 \in DOMAIN op.todo /\ op.todo[j + 1] = Tail(op.todo)[j]
      /\ j \in Nat \ {0} /\ Current = op.todo[1]
  BY TypedTail
<1>2. d \notin Running /\ d # Current
  OBVIOUS
<1>3. PICK i \in DOMAIN op.todo : i < j + 1 /\ op.todo[i] = d
  BY <1>1, <1>2 DEF StartsInOrder
<1>4. /\ i # 1 /\ i \in Nat \ {0}
      /\ i - 1 \in DOMAIN Tail(op.todo) /\ Tail(op.todo)[i - 1] = op.todo[i]
  BY <1>1, <1>2, <1>3, TypedTail
<1>5. i - 1 < j
  BY <1>1, <1>3, <1>4
<1> QED
  BY <1>3, <1>4, <1>5

LEMMA StopsTail ==
    ASSUME Typed, op # NoOp, op.todo # <<>>, StopsInOrder,
           op'.todo = Tail(op.todo), UNCHANGED deps,
           InState(Up)' \subseteq InState(Up) \ {Current}
    PROVE  StopsInOrder'
<1>0. /\ \A j \in DOMAIN Tail(op.todo) : j + 1 \in DOMAIN op.todo /\ j \in Nat \ {0}
                                          /\ op.todo[j + 1] = Tail(op.todo)[j]
      /\ Current = op.todo[1]
  BY TypedTail
<1> SUFFICES ASSUME NEW k \in DOMAIN Tail(op.todo), NEW s \in InState(Up)',
                    Tail(op.todo)[k] \in deps[s]
             PROVE  \E i \in DOMAIN Tail(op.todo) : i < k /\ Tail(op.todo)[i] = s
  BY DEF StopsInOrder
<1>1. s \in InState(Up) /\ s # Current
  OBVIOUS
<1>2. PICK i \in DOMAIN op.todo : i < k + 1 /\ op.todo[i] = s
  BY <1>0, <1>1 DEF StopsInOrder
<1>3. /\ i # 1 /\ i \in Nat \ {0}
      /\ i - 1 \in DOMAIN Tail(op.todo) /\ Tail(op.todo)[i - 1] = op.todo[i]
  BY <1>0, <1>1, <1>2, TypedTail
<1>4. i - 1 < k
  BY <1>0, <1>2, <1>3
<1> QED
  BY <1>2, <1>3, <1>4

LEMMA SkipRunningOrdered == ASSUME DInv, SkipRunning PROVE DInv'
<1>1. /\ op.kind = "start" /\ op.todo # <<>> /\ op # NoOp /\ status[Current] = "running"
      /\ op' = [op EXCEPT !.kind = "start", !.todo = Tail(@)]
      /\ UNCHANGED <<deps, status, bare>>
  BY DEF SkipRunning, Advance, Doing, NoOp
<1>2. Typed /\ DOMAIN op = Fields
  BY <1>1 DEF DInv, Typed
<1>3. /\ DOMAIN op' = Fields /\ op'.call = op.call /\ op'.kind = "start" /\ op' # NoOp
      /\ op'.todo = Tail(op.todo) /\ op'.before = op.before /\ op'.started = op.started
      /\ op'.restore = op.restore
  BY <1>1, <1>2 DEF Fields, NoOp
<1>4. /\ Registered' = Registered /\ Running' = Running /\ InState(Up)' = InState(Up)
      /\ InState(Moving)' = InState(Moving)
  BY <1>1 DEF Registered, Running, InState, Up, Moving
<1>5. Current \in Running /\ InState(Moving) = {}
  <2>1. Current \in Registered
    BY <1>1, <1>2, TypedTail
  <2>2. Current \in Running /\ Current \notin InState(Moving)
    BY <1>1, <2>1 DEF Running, InState, Moving
  <2> QED
    BY <2>2 DEF DInv, Alone, Moving
<1>6. Typed'
  BY <1>1, <1>2, <1>3, <1>4, TypedTail DEF Typed
<1>7. Alone'
  BY <1>4, <1>5 DEF Alone, Moving
<1>8. Restarts'
  BY <1>1, <1>2, <1>3, <1>4, <1>5, TypedTail DEF DInv, Restarts
<1>9. ASSUME ~bare PROVE Ordered'
  <2>1. Above /\ StartsInOrder /\ StartedInOrder
    BY <1>1, <1>9 DEF DInv, Ordered
  <2>2. StartsInOrder'
    BY <1>1, <1>2, <1>3, <1>4, <1>5, <2>1, StartsTail
  <2>3. StartedInOrder'
    BY <1>1, <1>3, <1>4, <2>1 DEF StartedInOrder
  <2>4. Above'
    BY <1>1, <1>4, <2>1 DEF Above
  <2> QED
    BY <1>3, <2>2, <2>3, <2>4 DEF Ordered
<1> QED
  BY <1>1, <1>6, <1>7, <1>8, <1>9 DEF DInv

LEMMA CallStartOrdered == ASSUME DInv, CallStart PROVE DInv'
<1>1. /\ op.kind = "start" /\ op.todo # <<>> /\ op # NoOp
      /\ status[Current] \in {"registered", "stopped", "failed"}
      /\ status' = [status EXCEPT ![Current] = "starting"]
      /\ UNCHANGED <<deps, op, bare>>
  BY DEF CallStart, Doing, NoOp
<1>2. Typed /\ Current \in Registered /\ Current = op.todo[1] /\ 1 \in DOMAIN op.todo
      /\ DOMAIN op.todo \subseteq Nat \ {0}
  BY <1>1, TypedTail DEF DInv
<1>3. /\ Registered' = Registered /\ status' \in [Registered -> ServiceState]
      /\ Running' = Running /\ InState(Up)' = InState(Up) \union {Current}
      /\ InState(Moving)' = InState(Moving) \union {Current}
  <2>1. Current \notin Running
    BY <1>1 DEF Running, InState
  <2>2. status \in [Registered -> ServiceState]
    BY <1>2 DEF Typed
  <2>3. "starting" \in ServiceState /\ "starting" \in Up /\ "starting" \in Moving
    BY DEF ServiceState, Up, Moving
  <2>4. /\ Registered' = Registered /\ status' \in [Registered -> ServiceState]
        /\ Running' = IF "starting" = "running" THEN Running \union {Current}
                                            ELSE Running \ {Current}
        /\ InState(Up)' = IF "starting" \in Up THEN InState(Up) \union {Current}
                                           ELSE InState(Up) \ {Current}
        /\ InState(Moving)' = IF "starting" \in Moving THEN InState(Moving) \union {Current}
                                                   ELSE InState(Moving) \ {Current}
    BY <1>1, <1>2, <2>2, <2>3, StateChanges
  <2> QED
    BY <2>1, <2>3, <2>4
<1>4. Typed'
  BY <1>1, <1>2, <1>3 DEF Typed
<1>5. Alone'
  BY <1>1, <1>3 DEF DInv, Alone, Moving, Current
<1>6. Restarts'
  BY <1>1, <1>3 DEF DInv, Restarts
<1>7. ASSUME ~bare PROVE Ordered'
  <2>1. Above /\ StartsInOrder /\ StartedInOrder
    BY <1>1, <1>7 DEF DInv, Ordered
  <2>2. \A d \in deps[Current] : d \in Running
    BY <1>2, <2>1 DEF StartsInOrder
  <2>3. Above'
    BY <1>1, <1>3, <2>1, <2>2 DEF Above
  <2>4. StartsInOrder' /\ StartedInOrder'
    BY <1>1, <1>3, <2>1 DEF StartsInOrder, StartedInOrder
  <2> QED
    BY <1>1, <2>3, <2>4 DEF Ordered
<1> QED
  BY <1>1, <1>4, <1>5, <1>6, <1>7 DEF DInv

(* A started service is above all that was started before it, and nothing  *)
(* that runs depends on it yet.                                            *)
LEMMA StartReturnsOrdered == ASSUME DInv, StartReturns PROVE DInv'
<1>1. /\ op.kind = "start" /\ op.todo # <<>> /\ op # NoOp /\ status[Current] = "starting"
      /\ status' = [status EXCEPT ![Current] = "running"]
      /\ op' = [Advance("start") EXCEPT !.started = Append(@, Current)]
      /\ UNCHANGED <<deps, bare>>
  BY DEF StartReturns, Doing, NoOp
<1>2. /\ Typed /\ Current \in Registered /\ DOMAIN op = Fields
      /\ Range(op.todo) = {Current} \union Range(Tail(op.todo))
      /\ Tail(op.todo) \in Seq(Registered) /\ op.started \in Seq(Registered)
  BY <1>1, TypedTail DEF DInv, Typed
<1>3. /\ DOMAIN op' = Fields /\ op'.call = op.call /\ op'.kind = "start" /\ op' # NoOp
      /\ op'.todo = Tail(op.todo) /\ op'.before = op.before
      /\ op'.started = Append(op.started, Current) /\ op'.restore = op.restore
  BY <1>1, <1>2 DEF Fields, NoOp, Advance
<1>4. /\ Registered' = Registered /\ status' \in [Registered -> ServiceState]
      /\ Running' = Running \union {Current} /\ InState(Up)' = InState(Up)
      /\ InState(Moving)' = InState(Moving) \ {Current}
      /\ Current \notin Running /\ Current \in InState(Up)
  <2>1. Current \notin Running /\ Current \in InState(Up)
    BY <1>1, <1>2 DEF Running, InState, Up
  <2>2. status \in [Registered -> ServiceState]
    BY <1>2 DEF Typed
  <2>3. "running" \in ServiceState /\ "running" \in Up /\ "running" \notin Moving
    BY DEF ServiceState, Up, Moving
  <2>4. /\ Registered' = Registered /\ status' \in [Registered -> ServiceState]
        /\ Running' = IF "running" = "running" THEN Running \union {Current}
                                            ELSE Running \ {Current}
        /\ InState(Up)' = IF "running" \in Up THEN InState(Up) \union {Current}
                                           ELSE InState(Up) \ {Current}
        /\ InState(Moving)' = IF "running" \in Moving THEN InState(Moving) \union {Current}
                                                   ELSE InState(Moving) \ {Current}
    BY <1>1, <1>2, <2>2, <2>3, StateChanges
  <2> QED
    BY <2>1, <2>3, <2>4
<1>5. InState(Moving)' = {}
  BY <1>4 DEF DInv, Alone, Moving
<1>6. Append(op.started, Current) \in Seq(Registered)
  BY <1>2
<1>7. Typed'
  BY <1>1, <1>2, <1>3, <1>4, <1>6 DEF Typed
<1>8. Alone'
  BY <1>5 DEF Alone, Moving
<1>9. Restarts'
  BY <1>1, <1>2, <1>3, <1>4 DEF DInv, Restarts
<1>10. ASSUME ~bare PROVE Ordered'
  <2>1. Above /\ StartsInOrder /\ StartedInOrder
    BY <1>1, <1>10 DEF DInv, Ordered
  <2>2. StartsInOrder'
    BY <1>1, <1>2, <1>3, <1>4, <2>1, StartsTail
  <2>3. Above'
    BY <1>1, <1>4, <2>1 DEF Above
  <2>4. \A s \in Running' : Current \notin deps[s]
    BY <1>4, <2>1 DEF Above, Running, InState, Up
  <2>5. PICK n : n = Len(op.started)
    OBVIOUS
  <2>6. /\ n \in Nat /\ DOMAIN op.started = 1..n /\ DOMAIN op'.started = 1..(n + 1)
        /\ \A i \in 1..n : op'.started[i] = op.started[i]
        /\ op'.started[n + 1] = Current
    BY <1>2, <1>3, <2>5
  <2>7. StartedInOrder'
    <3> SUFFICES ASSUME NEW k \in 1..(n + 1), NEW s \in Running', op'.started[k] \in deps[s]
                 PROVE  \E i \in 1..(n + 1) : k < i /\ op'.started[i] = s
      BY <1>1, <2>6 DEF StartedInOrder
    <3>1. k \in 1..n /\ k < n + 1 /\ op'.started[k] = op.started[k]
      <4>1. k \in 1..n \/ k = n + 1
        BY <2>6
      <4> QED
        BY <4>1, <2>4, <2>6
    <3>2. CASE s = Current
      BY <3>1, <3>2, <2>6
    <3>3. CASE s # Current
      <4>1. PICK i \in 1..n : k < i /\ op.started[i] = s
        BY <3>1, <3>3, <1>4, <2>1, <2>6 DEF StartedInOrder
      <4> QED
        BY <4>1, <2>6
    <3> QED
      BY <3>2, <3>3
  <2> QED
    BY <1>3, <2>2, <2>3, <2>7 DEF Ordered
<1> QED
  BY <1>1, <1>7, <1>8, <1>9, <1>10 DEF DInv

(* A rollback takes down what was started, last started first.             *)
LEMMA StartRaisesOrdered == ASSUME DInv, StartRaises PROVE DInv'
<1>1. /\ op.kind = "start" /\ op.todo # <<>> /\ op # NoOp /\ status[Current] = "starting"
      /\ status' = [status EXCEPT ![Current] = "failed"]
      /\ op' = [op EXCEPT !.kind = "rollback", !.todo = Reverse(op.started)]
      /\ UNCHANGED <<deps, bare>>
  BY DEF StartRaises, Doing, NoOp, Undo
<1>2. /\ Typed /\ Current \in Registered /\ DOMAIN op = Fields
      /\ op.started \in Seq(Registered)
  BY <1>1, TypedTail DEF DInv, Typed
<1>3. /\ DOMAIN op' = Fields /\ op'.call = op.call /\ op'.kind = "rollback" /\ op' # NoOp
      /\ op'.todo = Reverse(op.started) /\ op'.started = op.started
      /\ op'.restore = op.restore
  BY <1>1, <1>2 DEF Fields, NoOp
<1>4. /\ Registered' = Registered /\ status' \in [Registered -> ServiceState]
      /\ Running' = Running /\ InState(Up)' = InState(Up) \ {Current}
      /\ InState(Moving)' = InState(Moving) \ {Current}
  <2>1. Current \notin Running
    BY <1>1 DEF Running, InState
  <2>2. status \in [Registered -> ServiceState]
    BY <1>2 DEF Typed
  <2>3. "failed" \in ServiceState /\ "failed" \notin Up /\ "failed" \notin Moving
    BY DEF ServiceState, Up, Moving
  <2>4. /\ Registered' = Registered /\ status' \in [Registered -> ServiceState]
        /\ Running' = IF "failed" = "running" THEN Running \union {Current}
                                            ELSE Running \ {Current}
        /\ InState(Up)' = IF "failed" \in Up THEN InState(Up) \union {Current}
                                           ELSE InState(Up) \ {Current}
        /\ InState(Moving)' = IF "failed" \in Moving THEN InState(Moving) \union {Current}
                                                   ELSE InState(Moving) \ {Current}
    BY <1>1, <1>2, <2>2, <2>3, StateChanges
  <2> QED
    BY <2>1, <2>3, <2>4
<1>5. InState(Moving)' = {} /\ InState(Up)' \subseteq Running
  <2>1. InState(Moving) \subseteq {Current}
    BY DEF DInv, Alone, Moving
  <2>2. InState(Up) \subseteq Running \union InState(Moving)
    BY DEF InState, Up, Running, Moving
  <2> QED
    BY <1>4, <2>1, <2>2
<1>6. Reverse(op.started) \in Seq(Registered)
  BY <1>2, ReverseKeeps
<1>7. Typed'
  BY <1>1, <1>2, <1>3, <1>4, <1>6 DEF Typed
<1>8. Alone'
  BY <1>5 DEF Alone, Moving
<1>9. Restarts'
  BY <1>3 DEF Restarts
<1>10. ASSUME ~bare PROVE Ordered'
  <2>1. Above /\ StartedInOrder
    BY <1>1, <1>10 DEF DInv, Ordered
  <2>2. Above'
    BY <1>1, <1>4, <2>1 DEF Above
  <2>3. PICK n : n = Len(op.started)
    OBVIOUS
  <2>4. /\ n \in Nat /\ DOMAIN op.started = 1..n /\ DOMAIN op'.todo = 1..n
        /\ \A i \in 1..n : (n - i) + 1 \in 1..n /\ op'.todo[i] = op.started[(n - i) + 1]
    BY <1>2, <1>3, <2>3, ReverseIs
  <2>5. StopsInOrder'
    <3>0. deps' = deps /\ DOMAIN op'.todo = 1..n
      BY <1>1, <2>4
    <3> SUFFICES ASSUME NEW k \in 1..n, NEW s \in InState(Up)', op'.todo[k] \in deps[s]
                 PROVE  \E i \in 1..n : i < k /\ op'.todo[i] = s
      BY <3>0 DEF StopsInOrder
    <3>1. s \in Running /\ (n - k) + 1 \in 1..n /\ op.started[(n - k) + 1] \in deps[s]
      BY <1>5, <2>4
    <3>2. PICK m \in 1..n : (n - k) + 1 < m /\ op.started[m] = s
      BY <3>1, <2>1, <2>4 DEF StartedInOrder
    <3>3. (n - m) + 1 \in 1..n /\ (n - m) + 1 < k /\ (n - ((n - m) + 1)) + 1 = m
      BY <3>2, <2>4
    <3> QED
      BY <3>2, <3>3, <2>4
  <2> QED
    BY <1>3, <2>2, <2>5 DEF Ordered
<1> QED
  BY <1>1, <1>7, <1>8, <1>9, <1>10 DEF DInv

(* A stop takes a service down when nothing above it is up any more.       *)
LEMMA SkipStoppedOrdered == ASSUME DInv, SkipStopped PROVE DInv'
<1>1. /\ op.kind \in {"stop", "rollback"} /\ op.todo # <<>> /\ op # NoOp
      /\ status[Current] \in {"registered", "stopped", "failed"}
      /\ op' = [op EXCEPT !.kind = op.kind, !.todo = Tail(@)]
      /\ UNCHANGED <<deps, status, bare>>
  BY DEF SkipStopped, Advance, NoOp
<1>2. /\ Typed /\ DOMAIN op = Fields
      /\ Range(op.todo) = {Current} \union Range(Tail(op.todo))
      /\ Tail(op.todo) \in Seq(Registered)
  BY <1>1, TypedTail DEF DInv, Typed
<1>3. /\ DOMAIN op' = Fields /\ op'.call = op.call /\ op'.kind = op.kind /\ op' # NoOp
      /\ op'.todo = Tail(op.todo) /\ op'.before = op.before /\ op'.started = op.started
      /\ op'.restore = op.restore
  BY <1>1, <1>2 DEF Fields, NoOp
<1>4. /\ Registered' = Registered /\ Running' = Running /\ InState(Up)' = InState(Up)
      /\ InState(Moving)' = InState(Moving)
  BY <1>1 DEF Registered, Running, InState, Up, Moving
<1>5. Current \notin InState(Up) /\ InState(Moving) = {}
  <2>1. Current \notin InState(Up) /\ Current \notin InState(Moving)
    BY <1>1 DEF InState, Up, Moving
  <2> QED
    BY <2>1 DEF DInv, Alone, Moving
<1>6. Typed'
  BY <1>1, <1>2, <1>3, <1>4 DEF Typed
<1>7. Alone'
  BY <1>4, <1>5 DEF Alone, Moving
<1>8. Restarts'
  BY <1>1, <1>2, <1>3, <1>4 DEF DInv, Restarts
<1>9. ASSUME ~bare PROVE Ordered'
  <2>1. Above /\ StopsInOrder /\ (op.kind = "stop" /\ op.call = "restart" => Restorable)
    BY <1>1, <1>9 DEF DInv, Ordered
  <2>2. Above'
    BY <1>1, <1>4, <2>1 DEF Above
  <2>3. StopsInOrder'
    BY <1>1, <1>2, <1>3, <1>4, <1>5, <2>1, StopsTail
  <2>4. op.kind = "stop" /\ op.call = "restart" => Restorable'
    BY <1>1, <1>3, <1>4, <2>1 DEF Restorable
  <2> QED
    BY <1>1, <1>3, <2>2, <2>3, <2>4 DEF Ordered
<1> QED
  BY <1>1, <1>6, <1>7, <1>8, <1>9 DEF DInv

LEMMA CallStopOrdered == ASSUME DInv, CallStop PROVE DInv'
<1>1. /\ op.kind \in {"stop", "rollback"} /\ op.todo # <<>> /\ op # NoOp
      /\ status[Current] = "running"
      /\ status' = [status EXCEPT ![Current] = "stopping"]
      /\ UNCHANGED <<deps, op, bare>>
  BY DEF CallStop, NoOp
<1>2. /\ Typed /\ Current \in Registered /\ Current = op.todo[1] /\ 1 \in DOMAIN op.todo
      /\ DOMAIN op.todo \subseteq Nat \ {0}
      /\ Range(op.todo) = {Current} \union Range(Tail(op.todo))
  BY <1>1, TypedTail DEF DInv
<1>3. /\ Registered' = Registered /\ status' \in [Registered -> ServiceState]
      /\ Running' = Running \ {Current} /\ InState(Up)' = InState(Up)
      /\ InState(Moving)' = InState(Moving) \union {Current}
      /\ Current \in Running
  <2>1. Current \in Running /\ Current \in InState(Up)
    BY <1>1, <1>2 DEF Running, InState, Up
  <2>2. status \in [Registered -> ServiceState]
    BY <1>2 DEF Typed
  <2>3. "stopping" \in ServiceState /\ "stopping" \in Up /\ "stopping" \in Moving
    BY DEF ServiceState, Up, Moving
  <2>4. /\ Registered' = Registered /\ status' \in [Registered -> ServiceState]
        /\ Running' = IF "stopping" = "running" THEN Running \union {Current}
                                               ELSE Running \ {Current}
        /\ InState(Up)' = IF "stopping" \in Up THEN InState(Up) \union {Current}
                                               ELSE InState(Up) \ {Current}
        /\ InState(Moving)' = IF "stopping" \in Moving THEN InState(Moving) \union {Current}
                                                       ELSE InState(Moving) \ {Current}
    BY <1>1, <1>2, <2>2, <2>3, StateChanges
  <2> QED
    BY <2>1, <2>3, <2>4
<1>4. Typed'
  BY <1>1, <1>2, <1>3 DEF Typed
<1>5. Alone'
  BY <1>1, <1>3 DEF DInv, Alone, Moving, Current
<1>6. Restarts'
  BY <1>1, <1>2, <1>3 DEF DInv, Restarts
<1>7. ASSUME ~bare PROVE Ordered'
  <2>1. Above /\ StopsInOrder /\ (op.kind = "stop" /\ op.call = "restart" => Restorable)
    BY <1>1, <1>7 DEF DInv, Ordered
  <2>2. \A s \in InState(Up) : Current \notin deps[s]
    BY <1>2, <2>1 DEF StopsInOrder
  <2>3. Above'
    BY <1>1, <1>3, <2>1, <2>2 DEF Above
  <2>4. StopsInOrder'
    BY <1>1, <1>3, <2>1 DEF StopsInOrder
  <2>5. ASSUME op.kind = "stop", op.call = "restart" PROVE Restorable'
    <3>1. Restorable
      BY <2>1, <2>5
    <3>2. Current \in op.restore
      <4>1. Current \in op.before /\ Current \in Range(op.todo)
        BY <1>2, <1>3, <3>1 DEF Restorable
      <4> QED
        BY <4>1, <1>1, <2>5 DEF DInv, Restarts
    <3> QED
      BY <1>1, <1>3, <3>1, <3>2 DEF Restorable
  <2> QED
    BY <1>1, <2>3, <2>4, <2>5 DEF Ordered
<1> QED
  BY <1>1, <1>4, <1>5, <1>6, <1>7 DEF DInv

LEMMA StopEndsOrdered == ASSUME DInv, StopReturns \/ StopRaises PROVE DInv'
<1>1. PICK x \in {"stopped", "failed"} :
        /\ op.kind \in {"stop", "rollback"} /\ op.todo # <<>> /\ op # NoOp
        /\ status[Current] = "stopping"
        /\ status' = [status EXCEPT ![Current] = x]
        /\ \/ op' = Advance(op.kind)
           \/ op' = [Advance(op.kind) EXCEPT !.failed = TRUE]
        /\ UNCHANGED <<deps, bare>>
  BY DEF StopReturns, StopRaises, NoOp
<1>2. /\ Typed /\ Current \in Registered /\ DOMAIN op = Fields
      /\ Range(op.todo) = {Current} \union Range(Tail(op.todo))
      /\ Tail(op.todo) \in Seq(Registered)
  BY <1>1, TypedTail DEF DInv, Typed
<1>3. /\ DOMAIN op' = Fields /\ op'.call = op.call /\ op'.kind = op.kind /\ op' # NoOp
      /\ op'.todo = Tail(op.todo) /\ op'.before = op.before /\ op'.started = op.started
      /\ op'.restore = op.restore
  BY <1>1, <1>2 DEF Fields, NoOp, Advance
<1>4. /\ Registered' = Registered /\ status' \in [Registered -> ServiceState]
      /\ Running' = Running /\ InState(Up)' = InState(Up) \ {Current}
      /\ InState(Moving)' = InState(Moving) \ {Current}
  <2>1. Current \notin Running
    BY <1>1 DEF Running, InState
  <2>2. status \in [Registered -> ServiceState]
    BY <1>2 DEF Typed
  <2>3. x \in ServiceState /\ x \notin Up /\ x \notin Moving /\ x # "running"
    BY DEF ServiceState, Up, Moving
  <2>4. /\ Registered' = Registered /\ status' \in [Registered -> ServiceState]
        /\ Running' = IF x = "running" THEN Running \union {Current} ELSE Running \ {Current}
        /\ InState(Up)' = IF x \in Up THEN InState(Up) \union {Current}
                                      ELSE InState(Up) \ {Current}
        /\ InState(Moving)' = IF x \in Moving THEN InState(Moving) \union {Current}
                                              ELSE InState(Moving) \ {Current}
    BY <1>1, <1>2, <2>2, <2>3, StateChanges
  <2> QED
    BY <2>1, <2>3, <2>4
<1>5. InState(Moving)' = {}
  BY <1>4 DEF DInv, Alone, Moving
<1>6. Typed'
  BY <1>1, <1>2, <1>3, <1>4 DEF Typed
<1>7. Alone'
  BY <1>5 DEF Alone, Moving
<1>8. Restarts'
  BY <1>1, <1>2, <1>3, <1>4 DEF DInv, Restarts
<1>9. ASSUME ~bare PROVE Ordered'
  <2>1. Above /\ StopsInOrder /\ (op.kind = "stop" /\ op.call = "restart" => Restorable)
    BY <1>1, <1>9 DEF DInv, Ordered
  <2>2. Above'
    BY <1>1, <1>4, <2>1 DEF Above
  <2>3. StopsInOrder'
    BY <1>1, <1>2, <1>3, <1>4, <2>1, StopsTail
  <2>4. op.kind = "stop" /\ op.call = "restart" => Restorable'
    BY <1>1, <1>3, <1>4, <2>1 DEF Restorable
  <2> QED
    BY <1>1, <1>3, <2>2, <2>3, <2>4 DEF Ordered
<1> QED
  BY <1>1, <1>6, <1>7, <1>8, <1>9 DEF DInv

(* The ends of the loops; a restart goes on to start what it took down.    *)
LEMMA EndsOrdered == ASSUME DInv, EndStart \/ EndStop PROVE DInv'
<1>1. op.todo = <<>> /\ op' = NoOp /\ UNCHANGED <<deps, status, bare>>
  BY DEF EndStart, EndStop
<1>2. /\ Registered' = Registered /\ Running' = Running /\ InState(Up)' = InState(Up)
      /\ InState(Moving)' = InState(Moving)
  BY <1>1 DEF Registered, Running, InState, Up, Moving
<1>3. InState(Moving) = {}
  BY <1>1 DEF DInv, Alone, Moving
<1>4. Typed'
  BY <1>1, <1>2 DEF DInv, Typed
<1>5. Alone'
  BY <1>2, <1>3 DEF Alone, Moving
<1>6. Restarts'
  BY <1>1 DEF Restarts
<1>7. ~bare => Ordered'
  BY <1>1, <1>2 DEF DInv, Ordered, Above
<1> QED
  BY <1>1, <1>4, <1>5, <1>6, <1>7 DEF DInv

LEMMA RestoreOrdered == ASSUME DInv, Restore PROVE DInv'
<1>0. PICK o \in Orders(Registered) : \E q \in Only(o, op.restore) :
        op' = [op EXCEPT !.kind = "start", !.todo = q]
  BY DEF Restore, ToRestore
<1>1. PICK t \in Only(o, op.restore) : op' = [op EXCEPT !.kind = "start", !.todo = t]
  BY <1>0
<1>2. /\ op.kind = "stop" /\ op.todo = <<>> /\ op.call = "restart" /\ op # NoOp
      /\ UNCHANGED <<deps, status, bare>>
  BY DEF Restore, NoOp
<1>3. /\ Typed /\ DOMAIN op = Fields /\ op.restore \in SUBSET Registered
      /\ op.started = <<>> /\ IsFiniteSet(Registered)
  <2>1. Typed
    BY DEF DInv
  <2>2. IsFiniteSet(Registered)
    BY <2>1, ManagerAssumption, FS_Subset DEF Typed
  <2> QED
    BY <1>2, <2>1, <2>2 DEF Typed
<1>4. /\ DOMAIN op' = Fields /\ op'.call = op.call /\ op'.kind = "start" /\ op' # NoOp
      /\ op'.todo = t /\ op'.before = op.before /\ op'.started = <<>>
      /\ op'.restore = op.restore
  BY <1>1, <1>3 DEF Fields, NoOp
<1>5. /\ Registered' = Registered /\ Running' = Running /\ InState(Up)' = InState(Up)
      /\ InState(Moving)' = InState(Moving)
  BY <1>2 DEF Registered, Running, InState, Up, Moving
<1>6. InState(Moving) = {}
  BY <1>2 DEF DInv, Alone, Moving
<1>7. t \in Seq(Registered) /\ Range(t) = op.restore
  <2>1. IsFiniteSet(op.restore)
    BY <1>3, FS_Subset
  <2>2. t \in Seq(op.restore) /\ Range(t) = op.restore
    BY <2>1, OnlyHasAll
  <2> QED
    BY <2>2, <1>3
<1>8. Typed'
  BY <1>2, <1>3, <1>4, <1>5, <1>7 DEF Typed
<1>9. Alone'
  BY <1>5, <1>6 DEF Alone, Moving
<1>10. Restarts'
  <2>1. op.before \ op.restore \subseteq Running
    BY <1>2 DEF DInv, Restarts
  <2> QED
    BY <2>1, <1>4, <1>5, <1>7 DEF Restarts
<1>11. ASSUME ~bare PROVE Ordered'
  <2>1. Above /\ Restorable
    BY <1>2, <1>11 DEF DInv, Ordered
  <2>2. Above'
    BY <1>2, <1>5, <2>1 DEF Above
  <2>3. ASSUME NEW j \in DOMAIN t, NEW d \in deps[t[j]], d \notin Running
        PROVE  \E i \in DOMAIN t : i < j /\ t[i] = d
    <3>1. t[j] \in op.restore
      BY <1>7 DEF Range
    <3>2. d \in op.restore
      BY <2>1, <2>3, <3>1 DEF Restorable
    <3>3. PICK R : R = op.restore
      OBVIOUS
    <3>4. R \in SUBSET Registered /\ t \in Only(o, R) /\ d \in R
      BY <3>2, <3>3, <1>3
    <3>5. IsFiniteSet(Registered) /\ o \in Orders(Registered) /\ j \in DOMAIN t /\ d \in deps[t[j]]
      BY <1>3, <2>3
    <3> QED
      BY <3>4, <3>5, PickedInOrder
  <2>4. StartsInOrder'
    BY <1>2, <1>4, <1>5, <2>3 DEF StartsInOrder
  <2>5. StartedInOrder'
    BY <1>4 DEF StartedInOrder
  <2> QED
    BY <1>4, <2>2, <2>4, <2>5 DEF Ordered
<1> QED
  BY <1>2, <1>8, <1>9, <1>10, <1>11 DEF DInv

(* An operation begins. *)
LEMMA PerformIs ==
    ASSUME NEW kind, NEW call, NEW todo, NEW restore, Perform(kind, call, todo, restore)
    PROVE  /\ op' # NoOp /\ DOMAIN op' = Fields /\ op'.kind = kind /\ op'.call = call
           /\ op'.todo = todo /\ op'.started = <<>> /\ op'.restore = restore
           /\ op'.before = Running
  BY DEF Perform, NoOp, Fields

LEMMA StopBegins ==
    ASSUME DInv, op = NoOp, NEW call \in {"stop", "stop_all", "restart"},
           NEW todo \in Seq(Registered), NEW restore \in SUBSET Registered,
           Perform("stop", call, todo, restore), UNCHANGED <<deps, status>>,
           bare' \in BOOLEAN,
           \A k \in DOMAIN todo : \A s \in Registered :
              todo[k] \in deps[s] => \E i \in DOMAIN todo : i < k /\ todo[i] = s,
           call = "restart" => Range(todo) \intersect Running \subseteq restore,
           ~bare' => ~bare /\ (call = "restart" => restore \subseteq Running)
    PROVE  DInv'
<1>1. /\ op' # NoOp /\ DOMAIN op' = Fields /\ op'.kind = "stop" /\ op'.call = call
      /\ op'.todo = todo /\ op'.started = <<>> /\ op'.restore = restore
      /\ op'.before = Running
  BY PerformIs
<1>2. /\ Registered' = Registered /\ Running' = Running /\ InState(Up)' = InState(Up)
      /\ InState(Moving)' = InState(Moving)
  BY DEF Registered, Running, InState, Up, Moving
<1>3. InState(Moving) = {}
  BY DEF DInv, Alone, Moving
<1>4. Typed'
  BY <1>1, <1>2 DEF DInv, Typed
<1>5. Alone'
  BY <1>2, <1>3 DEF Alone, Moving
<1>6. Restarts'
  BY <1>1, <1>2 DEF Restarts
<1>7. ASSUME ~bare' PROVE Ordered'
  <2>1. Above
    BY <1>7 DEF DInv, Ordered
  <2>2. Above'
    BY <1>2, <2>1 DEF Above
  <2>3. InState(Up) \subseteq Registered
    BY DEF InState
  <2>4. StopsInOrder'
    BY <1>1, <1>2, <2>3 DEF StopsInOrder
  <2>5. call = "restart" => Restorable'
    <3>1. Running \subseteq InState(Up)
      BY DEF Running, InState, Up
    <3> QED
      BY <1>1, <1>2, <1>7, <2>1, <3>1 DEF Restorable, Above
  <2> QED
    BY <1>1, <2>2, <2>4, <2>5 DEF Ordered
<1> QED
  BY <1>4, <1>5, <1>6, <1>7 DEF DInv

LEMMA StartBegins ==
    ASSUME DInv, NEW call \in {"start", "start_all"}, NEW names, BeginStart(call, names)
    PROVE  DInv'
<1>1. PICK o \in Orders(Needed(names)) : Perform("start", call, o, {})
  BY DEF BeginStart
<1>2. op = NoOp /\ UNCHANGED <<deps, status, bare>>
  BY DEF BeginStart
<1>3. /\ op' # NoOp /\ DOMAIN op' = Fields /\ op'.kind = "start" /\ op'.call = call
      /\ op'.todo = o /\ op'.started = <<>> /\ op'.restore = {}
  BY <1>1, PerformIs
<1>4. /\ Registered' = Registered /\ Running' = Running /\ InState(Up)' = InState(Up)
      /\ InState(Moving)' = InState(Moving)
  BY <1>2 DEF Registered, Running, InState, Up, Moving
<1>5. InState(Moving) = {}
  BY <1>2 DEF DInv, Alone, Moving
<1>6. /\ o \in Seq(Registered)
      /\ \A j \in DOMAIN o : \A d \in deps[o[j]] : \E i \in DOMAIN o : i < j /\ o[i] = d
  <2>1. Needed(names) \subseteq Registered
    BY DEF Orders
  <2>2. IsFiniteSet(Needed(names))
    BY <2>1, ManagerAssumption, FS_Subset DEF DInv, Typed
  <2>3. o \in Seq(Needed(names))
    BY <2>2, OrderHasAll
  <2> QED
    BY <2>1, <2>2, <2>3, OrderHasAll
<1>7. Typed'
  BY <1>2, <1>3, <1>4, <1>6 DEF DInv, Typed
<1>8. Alone'
  BY <1>4, <1>5 DEF Alone, Moving
<1>9. Restarts'
  BY <1>3 DEF Restarts
<1>10. ASSUME ~bare PROVE Ordered'
  <2>1. Above'
    BY <1>2, <1>4, <1>10 DEF DInv, Ordered, Above
  <2>2. StartsInOrder' /\ StartedInOrder'
    BY <1>2, <1>3, <1>6 DEF StartsInOrder, StartedInOrder
  <2> QED
    BY <1>3, <2>1, <2>2 DEF Ordered
<1> QED
  BY <1>2, <1>7, <1>8, <1>9, <1>10 DEF DInv

LEMMA RegistrationOrdered ==
    ASSUME DInv, NEW n \in Service,
           Unregister(n) \/ \E D \in SUBSET Service : Register(n, D)
    PROVE  DInv'
<1>1. op = NoOp /\ op' = op /\ bare' = bare
  BY DEF Unregister, Register
<1>2. InState(Moving) = {}
  BY <1>1 DEF DInv, Alone, Moving
<1>3. /\ Registered \subseteq Service /\ deps \in [Registered -> SUBSET Service]
      /\ status \in [Registered -> ServiceState]
  BY DEF DInv, Typed
<1>4. /\ Registered' \subseteq Service /\ deps' \in [Registered' -> SUBSET Service]
      /\ status' \in [Registered' -> ServiceState]
      /\ Running' = Running /\ InState(Up)' = InState(Up) /\ InState(Moving)' = {}
      /\ \A s \in InState(Up) : deps'[s] = deps[s]
  <2>1. CASE Unregister(n)
    <3>1. /\ deps' = [s \in Registered \ {n} |-> deps[s]]
          /\ status' = [s \in Registered \ {n} |-> status[s]]
          /\ status[n] \in {"registered", "stopped", "failed"}
      BY <2>1 DEF Unregister, InState
    <3>2. Registered' = Registered \ {n}
      BY <3>1 DEF Registered
    <3>3. Running' = Running /\ InState(Up)' = InState(Up) /\ InState(Moving)' = InState(Moving)
      BY <3>1, <3>2 DEF Running, InState, Up, Moving
    <3>4. \A s \in InState(Up) : s # n /\ s \in Registered
      BY <3>1 DEF InState, Up
    <3> QED
      BY <1>2, <1>3, <3>1, <3>2, <3>3, <3>4
  <2>2. ASSUME NEW D \in SUBSET Service, Register(n, D)
        PROVE  /\ Registered' \subseteq Service /\ deps' \in [Registered' -> SUBSET Service]
               /\ status' \in [Registered' -> ServiceState]
               /\ Running' = Running /\ InState(Up)' = InState(Up) /\ InState(Moving)' = {}
               /\ \A s \in InState(Up) : deps'[s] = deps[s]
    <3>1. /\ deps' = [s \in Registered \union {n} |-> IF s = n THEN D ELSE deps[s]]
          /\ status' = [s \in Registered \union {n} |->
                           IF s = n THEN "registered" ELSE status[s]]
          /\ n \notin Registered
      BY <2>2 DEF Register
    <3>2. Registered' = Registered \union {n}
      BY <3>1 DEF Registered
    <3>3. Running' = Running /\ InState(Up)' = InState(Up) /\ InState(Moving)' = InState(Moving)
      BY <3>1, <3>2 DEF Running, InState, Up, Moving
    <3>4. \A s \in InState(Up) : s # n /\ s \in Registered
      BY <3>1 DEF InState
    <3> QED
      BY <1>2, <1>3, <3>1, <3>2, <3>3, <3>4 DEF ServiceState
  <2> QED
    BY <2>1, <2>2
<1>5. Typed'
  BY <1>1, <1>4 DEF Typed
<1>6. Alone'
  BY <1>4 DEF Alone, Moving
<1>7. Restarts'
  BY <1>1 DEF Restarts
<1>8. ~bare => Ordered'
  BY <1>1, <1>4 DEF DInv, Ordered, Above
<1> QED
  BY <1>1, <1>5, <1>6, <1>7, <1>8 DEF DInv

LEMMA BeginOrdered == ASSUME DInv, bare \in BOOLEAN, Begin PROVE DInv'
<1>0. op = NoOp
  BY DEF Begin, Register, Unregister, BeginStart, BeginStop, BeginStopAll, BeginRestart
<1>1. IsFiniteSet(Registered)
  BY ManagerAssumption, FS_Subset DEF DInv, Typed
<1>2. CASE BeginStopAll
  <2>1. PICK o \in Orders(Registered) : Perform("stop", "stop_all", Reverse(o), {})
    BY <1>2 DEF BeginStopAll
  <2>2. Reverse(o) \in Seq(Registered)
    BY <1>1, OrderHasAll, ReverseKeeps
  <2>3. \A k \in DOMAIN Reverse(o) : \A s \in Registered : Reverse(o)[k] \in deps[s] =>
          \E i \in DOMAIN Reverse(o) : i < k /\ Reverse(o)[i] = s
    BY <1>1, ReversePrecedes
  <2>4. UNCHANGED <<deps, status, bare>>
    BY <1>2 DEF BeginStopAll
  <2> QED
    BY <1>0, <2>1, <2>2, <2>3, <2>4, StopBegins
<1>3. ASSUME NEW n \in Registered, NEW o \in Orders(Registered),
             NEW todo \in Only(Reverse(o), Dependents(n) \union {n})
      PROVE  /\ todo \in Seq(Registered) /\ Range(todo) = Dependents(n) \union {n}
             /\ \A k \in DOMAIN todo : \A s \in Registered : todo[k] \in deps[s] =>
                   \E i \in DOMAIN todo : i < k /\ todo[i] = s
  <2>1. PICK S : S = Dependents(n) \union {n}
    OBVIOUS
  <2>2. S \in SUBSET Registered /\ IsFiniteSet(S)
    <3>1. S \subseteq Registered
      BY <2>1 DEF Dependents
    <3> QED
      BY <3>1, <1>1, FS_Subset
  <2>3. todo \in Seq(S) /\ Range(todo) = S
    BY <2>1, <2>2, OnlyHasAll
  <2>4. todo \in Seq(Registered)
    BY <2>2, <2>3
  <2>5. ASSUME NEW k \in DOMAIN todo, NEW s \in Registered, todo[k] \in deps[s]
        PROVE  \E i \in DOMAIN todo : i < k /\ todo[i] = s
    <3>1. todo[k] = n \/ todo[k] \in Dependents(n)
      BY <2>1, <2>3 DEF Range
    <3>2. s \in S
      BY <2>1, <2>5, <3>1, DependentsClosed
    <3>3. todo \in Only(Reverse(o), S)
      BY <2>1
    <3> QED
      BY <1>1, <2>2, <2>5, <3>2, <3>3, PickedInReverse
  <2> QED
    BY <2>1, <2>3, <2>4, <2>5
<1>4. ASSUME NEW n \in Service, NEW cascade, BeginStop(n, cascade) PROVE DInv'
  <2>1. n \in Registered /\ UNCHANGED <<deps, status, bare>>
    BY <1>4 DEF BeginStop
  <2>2. PICK o \in Orders(Registered) :
          \E q \in Only(Reverse(o), Dependents(n) \union {n}) : Perform("stop", "stop", q, {})
    BY <1>4 DEF BeginStop
  <2>3. PICK todo \in Only(Reverse(o), Dependents(n) \union {n}) :
          Perform("stop", "stop", todo, {})
    BY <2>2
  <2>4. /\ todo \in Seq(Registered)
        /\ \A k \in DOMAIN todo : \A s \in Registered : todo[k] \in deps[s] =>
              \E i \in DOMAIN todo : i < k /\ todo[i] = s
    BY <1>3, <2>1
  <2>5. {} \in SUBSET Registered /\ "stop" # "restart" /\ bare' = bare
    BY <2>1
  <2> QED
    BY <1>0, <2>1, <2>3, <2>4, <2>5, StopBegins
<1>5. ASSUME NEW n \in Service, BeginRestart(n) PROVE DInv'
  <2>1. PICK r : r = ((Dependents(n) \union {n}) \intersect Running) \union {n}
    OBVIOUS
  <2>2. /\ n \in Registered /\ UNCHANGED <<deps, status>>
        /\ bare' = (bare \/ n \notin Running)
    BY <1>5 DEF BeginRestart
  <2>0. PICK o \in Orders(Registered) :
          \E q \in Only(Reverse(o), Dependents(n) \union {n}) : Perform("stop", "restart", q, r)
    BY <1>5, <2>1 DEF BeginRestart
  <2>3. PICK todo \in Only(Reverse(o), Dependents(n) \union {n}) :
          Perform("stop", "restart", todo, r)
    BY <2>0
  <2>4. r \in SUBSET Registered
    BY <2>1, <2>2 DEF Running, InState
  <2>5. Range(todo) \intersect Running \subseteq r
    BY <1>3, <2>1, <2>2
  <2>6. bare' \in BOOLEAN /\ (~bare' => ~bare /\ r \subseteq Running)
    BY <2>1, <2>2
  <2>7. /\ todo \in Seq(Registered)
        /\ \A k \in DOMAIN todo : \A s \in Registered : todo[k] \in deps[s] =>
              \E i \in DOMAIN todo : i < k /\ todo[i] = s
    BY <1>3, <2>2
  <2> QED
    BY <1>0, <2>2, <2>3, <2>4, <2>5, <2>6, <2>7, StopBegins
<1> QED
  BY <1>2, <1>4, <1>5, StartBegins, RegistrationOrdered DEF Begin

LEMMA OthersOrdered ==
    ASSUME DInv, UNCHANGED managerVars
    PROVE  DInv'
<1>1. UNCHANGED <<deps, status, op, bare>>
  BY DEF managerVars
<1>2. /\ Registered' = Registered /\ Running' = Running /\ InState(Up)' = InState(Up)
      /\ InState(Moving)' = InState(Moving)
  BY <1>1 DEF Registered, Running, InState, Up, Moving
<1>3. Typed' /\ Restarts'
  BY <1>1, <1>2 DEF DInv, Typed, Restarts
<1>4. Alone'
  BY <1>1, <1>2 DEF DInv, Alone, Moving, Current
<1>5. ~bare => Ordered'
  BY <1>1, <1>2 DEF DInv, Ordered, Above, StartsInOrder, StartedInOrder, StopsInOrder, Restorable
<1> QED
  BY <1>1, <1>3, <1>4, <1>5 DEF DInv

LEMMA StepOrdered == DInv /\ bare \in BOOLEAN /\ [Next]_vars => DInv' /\ bare' \in BOOLEAN
<1> SUFFICES ASSUME DInv, bare \in BOOLEAN, [Next]_vars PROVE DInv' /\ bare' \in BOOLEAN
  OBVIOUS
<1>1. CASE Begin
  <2>1. bare' \in BOOLEAN
    BY <1>1 DEF Begin, Register, Unregister, BeginStart, BeginStop, BeginStopAll, BeginRestart
  <2> QED
    BY <1>1, <2>1, BeginOrdered
<1>2. CASE Proceed \/ RestReturns
  <2>1. bare' = bare
    BY <1>2 DEF Proceed, RestReturns, SkipRunning, CallStart, StartReturns, StartRaises,
       SkipStopped, CallStop, StopReturns, StopRaises, EndStart, EndStop, Restore
  <2> QED
    BY <1>2, <2>1, SkipRunningOrdered, CallStartOrdered, StartReturnsOrdered,
       StartRaisesOrdered, SkipStoppedOrdered, CallStopOrdered, StopEndsOrdered,
       EndsOrdered, RestoreOrdered DEF Proceed, RestReturns
<1>3. CASE UNCHANGED managerVars
  BY <1>3, OthersOrdered DEF managerVars
<1>4. CASE Bind \/ Shutdown \/ ServerClose \/ UNCHANGED vars
  BY <1>3, <1>4 DEF Bind, Shutdown, ServerClose, vars
<1>5. ASSUME NEW h \in Handler,
             \/ Accept(h) \/ AnswerAtOnce(h) \/ CheckHealth(h) \/ AnswerPage(h)
             \/ \E full \in BOOLEAN : ListStatuses(h, full)
             \/ \E s \in Service : ReadStatus(h, s)
      PROVE  DInv' /\ bare' \in BOOLEAN
  BY <1>3, <1>5 DEF Accept, AnswerAtOnce, CheckHealth, AnswerPage, ListStatuses, ReadStatus
<1> QED
  BY <1>1, <1>2, <1>4, <1>5 DEF Next, Operating

LEMMA DInvAlways == Spec => []DInv
<1> DEFINE J == DInv /\ bare \in BOOLEAN
<1>1. Init => J
  BY DEF Init, ManagerInit, DInv, Typed, Alone, Restarts, Ordered, Above, Registered, Running,
         InState
<1>2. J /\ [Next]_vars => J'
  BY StepOrdered
<1>3. J => DInv
  OBVIOUS
<1> QED
  BY <1>1, <1>2, <1>3, PTL DEF Spec

(* As long as only services that are up are restarted, a service is up     *)
(* only above running dependencies, inside any operation and whatever its  *)
(* callbacks raise (service_manager.py:108).                               *)
THEOREM AlwaysUpOnlyWithDependencies == Spec => []UpOnlyWithDependencies
<1>1. DInv => UpOnlyWithDependencies
  BY DEF DInv, Ordered, Above, Up, UpOnlyWithDependencies
<1> QED
  BY <1>1, DInvAlways, PTL

(* A restart that succeeds leaves running whatever was running before it   *)
(* (service_manager.py:310).                                               *)
THEOREM RestartAlwaysRestores == Spec => []RestartRestores
<1>1. DInv => RestartRestores
  <2>1. Range(<<>>) = {}
    BY DEF Range
  <2> QED
    BY <2>1 DEF DInv, Restarts, RestartRestores
<1> QED
  BY <1>1, DInvAlways, PTL

-----------------------------------------------------------------------------
(* The depth-first searches, for every graph, every order in which it is   *)
(* written down and everything that may be asked for.  What is preserved   *)
(* from step to step says where the stack of visits stands, what is listed *)
(* and why the search went there; and a step uses up a tick no step before *)
(* it has used.                                                            *)

Graph(N, g, names) ==
    /\ DOMAIN g \subseteq N /\ IsFiniteSet(DOMAIN g)
    /\ \A n \in DOMAIN g : g[n] \in Seq(N)
    /\ names \in Seq(N)

(* What a search of g for names must go to: a set that holds the names and *)
(* what its members depend on.  What depends on something ranks above it.  *)
ClosedIn(g, names, C) ==
    Range(names) \subseteq C /\ \A n \in C \intersect DOMAIN g : Range(g[n]) \subseteq C
RankedBy(g, C, rank) ==
    /\ \A n \in C : rank[n] \in Nat
    /\ \A n \in C \intersect DOMAIN g : \A d \in Range(g[n]) : rank[d] < rank[n]

(* The k-th of the loops under way.                                        *)
Loop(g, names, active, k) == IF k = 1 THEN names ELSE g[active[k - 1]]

(* Each loop but the innermost is at the node the next one belongs to, and *)
(* all before that is done.                                                *)
Under(N, g, names, active, next, visited) ==
    /\ active \in Seq(DOMAIN g) /\ next \in Seq(Nat) /\ visited \subseteq DOMAIN g
    /\ Len(next) = Len(active) + 1
    /\ \A k \in 1..Len(active) : active[k] \notin visited
    /\ \A i, j \in 1..Len(active) : i < j => active[i] # active[j]
    /\ \A k \in 1..Len(next) :
         /\ next[k] >= 1 /\ next[k] <= Len(Loop(g, names, active, k)) + 1
         /\ \A i \in 1..(next[k] - 1) :
              \/ Loop(g, names, active, k)[i] \in visited
              \/ k <= Len(active) /\ i = next[k] - 1
    /\ \A k \in 1..Len(active) :
         next[k] > 1 /\ Loop(g, names, active, k)[next[k] - 1] = active[k]

(* What is done is listed in an order.                                     *)
Listing(N, g, visited, ordered) ==
    /\ ordered \in Seq(N) /\ IsFiniteSet(visited)
    /\ Len(ordered) = Cardinality(visited)
    /\ \A n : n \in visited <=> \E i \in 1..Len(ordered) : ordered[i] = n
    /\ \A i, j \in 1..Len(ordered) : i # j => ordered[i] # ordered[j]
    /\ \A j \in 1..Len(ordered) : \A d \in Range(g[ordered[j]]) :
          \E i \in 1..(j - 1) : ordered[i] = d

(* The search has only gone where it must, and every way down the stack is *)
(* a way down in rank.                                                     *)
Wanted(g, names, active, visited) ==
    \A C : ClosedIn(g, names, C) =>
        /\ visited \subseteq C /\ \A k \in 1..Len(active) : active[k] \in C
        /\ \A rank : RankedBy(g, C, rank) =>
              \A i, j \in 1..Len(active) : i < j => rank[active[j]] < rank[active[i]]

Going(N, g, names, st) ==
    /\ Under(N, g, names, st.active, st.next, st.visited)
    /\ Listing(N, g, st.visited, st.ordered)
    /\ Wanted(g, names, st.active, st.visited)

Missing(g, names) == \E n : n \notin DOMAIN g /\ \A C : ClosedIn(g, names, C) => n \in C
Circular(g, names) == \A C, rank : ClosedIn(g, names, C) => ~RankedBy(g, C, rank)

SearchInv(N, g, names, st) ==
    /\ st = [active |-> st.active, next |-> st.next, visited |-> st.visited,
             ordered |-> st.ordered, raised |-> st.raised]
    /\ \/ st.raised = "none" /\ Going(N, g, names, st)
       \/ st.raised = "missing" /\ Missing(g, names)
       \/ st.raised = "cycle" /\ Circular(g, names)

(* Nothing has been visited at first.                                      *)
LEMMA SearchStarts ==
    ASSUME NEW N, NEW g, NEW names, Graph(N, g, names)
    PROVE  SearchInv(N, g, names, Start)
<1>1. /\ Start.active = <<>> /\ Start.next = <<1>> /\ Start.visited = {} /\ Start.ordered = <<>>
      /\ Start.raised = "none"
      /\ Start = [active |-> Start.active, next |-> Start.next, visited |-> Start.visited,
             ordered |-> Start.ordered, raised |-> Start.raised]
  BY DEF Start
<1>2. Len(names) \in Nat
  BY DEF Graph
<1>3. Under(N, g, names, <<>>, <<1>>, {})
  BY <1>2 DEF Under, Loop
<1>4. Listing(N, g, {}, <<>>)
  BY FS_EmptySet DEF Listing
<1>5. Wanted(g, names, <<>>, {})
  BY DEF Wanted
<1> QED
  BY <1>1, <1>3, <1>4, <1>5 DEF SearchInv, Going

-----------------------------------------------------------------------------
(* Where the innermost loop is.                                            *)
LEMMA InnermostLoop ==
    ASSUME NEW N, NEW g, NEW names, Graph(N, g, names),
           NEW active, NEW next, NEW visited, Under(N, g, names, active, next, visited),
           NEW K, K = Len(next)
    PROVE  /\ Len(active) \in Nat /\ K = Len(active) + 1
           /\ Loop(g, names, active, K) \in Seq(N) /\ Loop(g, names, active, K) =
                (IF K = 1 THEN names ELSE g[Last(active)])
           /\ next[K] \in Nat /\ next[K] >= 1 /\ next[K] <= Len(Loop(g, names, active, K)) + 1
           /\ \A i \in 1..(next[K] - 1) : Loop(g, names, active, K)[i] \in visited
<1>1. /\ Len(active) \in Nat /\ K = Len(active) + 1 /\ K \in 1..Len(next) /\ ~(K <= Len(active))
      /\ next[K] \in Nat
  BY DEF Under
<1>2. K # 1 => active[K - 1] \in DOMAIN g /\ active[K - 1] = Last(active)
  BY <1>1 DEF Under, Last
<1>3. Loop(g, names, active, K) \in Seq(N)
  BY <1>2 DEF Loop, Graph
<1>4. Loop(g, names, active, K) = (IF K = 1 THEN names ELSE g[Last(active)])
  BY <1>2 DEF Loop
<1> QED
  BY <1>1, <1>3, <1>4 DEF Under

(* The innermost loop skips a node that is done.                           *)
LEMMA SkipKeeps ==
    ASSUME NEW N, NEW g, NEW names, Graph(N, g, names),
           NEW active, NEW next, NEW visited, Under(N, g, names, active, next, visited),
           NEW K, K = Len(next), next[K] <= Len(Loop(g, names, active, K)),
           Loop(g, names, active, K)[next[K]] \in visited
    PROVE  Under(N, g, names, active, [next EXCEPT ![K] = @ + 1], visited)
<1>1. /\ Len(active) \in Nat /\ K = Len(active) + 1 /\ next[K] \in Nat /\ next[K] >= 1
      /\ Len(Loop(g, names, active, K)) \in Nat
      /\ \A i \in 1..(next[K] - 1) : Loop(g, names, active, K)[i] \in visited
  BY InnermostLoop
<1>2. PICK new : new = [next EXCEPT ![K] = @ + 1]
  OBVIOUS
<1>3. /\ new \in Seq(Nat) /\ Len(new) = Len(next) /\ new[K] = next[K] + 1
      /\ \A k \in 1..Len(next) : k # K => new[k] = next[k]
      /\ next \in Seq(Nat)
  BY <1>1, <1>2 DEF Under
<1>4. ASSUME NEW k \in 1..Len(next)
      PROVE  /\ new[k] >= 1 /\ new[k] <= Len(Loop(g, names, active, k)) + 1
             /\ \A i \in 1..(new[k] - 1) :
                  \/ Loop(g, names, active, k)[i] \in visited
                  \/ k <= Len(active) /\ i = new[k] - 1
  <2>1. CASE k # K
    BY <1>3, <2>1 DEF Under
  <2>2. CASE k = K
    <3>1. new[K] >= 1 /\ new[K] <= Len(Loop(g, names, active, K)) + 1
      BY <1>1, <1>3
    <3>2. ASSUME NEW i \in 1..(new[K] - 1) PROVE Loop(g, names, active, K)[i] \in visited
      <4>1. i \in 1..(next[K] - 1) \/ i = next[K]
        BY <1>1, <1>3
      <4> QED
        BY <1>1, <4>1
    <3> QED
      BY <2>2, <3>1, <3>2
  <2> QED
    BY <2>1, <2>2
<1>5. ASSUME NEW k \in 1..Len(active)
      PROVE  new[k] > 1 /\ Loop(g, names, active, k)[new[k] - 1] = active[k]
  <2>1. k # K /\ k \in 1..Len(next)
    BY <1>1
  <2> QED
    BY <1>3, <2>1 DEF Under
<1> QED
  BY <1>2, <1>3, <1>4, <1>5 DEF Under

(* The innermost loop enters a node.                                       *)
LEMMA EnterKeeps ==
    ASSUME NEW N, NEW g, NEW names, Graph(N, g, names),
           NEW active, NEW next, NEW visited, Under(N, g, names, active, next, visited),
           NEW K, K = Len(next), next[K] <= Len(Loop(g, names, active, K)),
           NEW n, n = Loop(g, names, active, K)[next[K]],
           n \in DOMAIN g, n \notin visited, n \notin Range(active)
    PROVE  Under(N, g, names, Append(active, n), Append([next EXCEPT ![K] = @ + 1], 1), visited)
<1>1. /\ Len(active) \in Nat /\ K = Len(active) + 1 /\ next[K] \in Nat /\ next[K] >= 1
      /\ Len(Loop(g, names, active, K)) \in Nat
      /\ \A i \in 1..(next[K] - 1) : Loop(g, names, active, K)[i] \in visited
  BY InnermostLoop
<1>2. PICK new : new = Append([next EXCEPT ![K] = @ + 1], 1)
  OBVIOUS
<1>3. PICK deeper : deeper = Append(active, n)
  OBVIOUS
<1>4. /\ next \in Seq(Nat) /\ active \in Seq(DOMAIN g) /\ Len(next) = K
  BY DEF Under
<1>5. /\ new \in Seq(Nat) /\ Len(new) = K + 1 /\ new[K] = next[K] + 1 /\ new[K + 1] = 1
      /\ \A k \in 1..K : k # K => new[k] = next[k]
  <2>1. PICK past : past = [next EXCEPT ![K] = @ + 1]
    OBVIOUS
  <2>2. /\ past \in Seq(Nat) /\ Len(past) = K /\ past[K] = next[K] + 1
        /\ \A k \in 1..K : k # K => past[k] = next[k]
    <3>1. next \in [1..K -> Nat] /\ K \in 1..K /\ next[K] + 1 \in Nat
      <4>1. next \in [1..Len(next) -> Nat]
        BY <1>4
      <4>2. K \in 1..K /\ next[K] + 1 \in Nat
        BY <1>1
      <4> QED
        BY <1>4, <4>1, <4>2
    <3>2. past \in [1..K -> Nat]
      BY <2>1, <3>1
    <3>3. past \in Seq(Nat) /\ Len(past) = K
      BY <1>1, <3>2
    <3> QED
      BY <2>1, <3>1, <3>3
  <2>3. new = Append(past, 1)
    BY <1>2, <2>1
  <2> QED
    BY <1>1, <2>2, <2>3
<1>6. /\ deeper \in Seq(DOMAIN g) /\ Len(deeper) = K /\ deeper[K] = n
      /\ \A k \in 1..Len(active) : deeper[k] = active[k]
  BY <1>1, <1>3, <1>4
<1>7. \A k \in 1..K : Loop(g, names, deeper, k) = Loop(g, names, active, k)
  <2> TAKE k \in 1..K
  <2>1. k = 1 \/ k - 1 \in 1..Len(active)
    BY <1>1
  <2> QED
    BY <1>6, <2>1 DEF Loop
<1>8. Loop(g, names, deeper, K + 1) \in Seq(N)
  BY <1>1, <1>6 DEF Loop, Graph
<1>9. \A k \in 1..Len(active) : active[k] # n /\ active[k] \notin visited
  BY <1>1, <1>4 DEF Range, Under
<1>10. ASSUME NEW k \in 1..(K + 1)
       PROVE  /\ new[k] >= 1 /\ new[k] <= Len(Loop(g, names, deeper, k)) + 1
              /\ \A i \in 1..(new[k] - 1) :
                  \/ Loop(g, names, deeper, k)[i] \in visited
                  \/ k <= Len(deeper) /\ i = new[k] - 1
  <2>1. CASE k = K + 1
    <3>1. new[k] = 1 /\ Len(Loop(g, names, deeper, k)) \in Nat
      BY <1>5, <1>8, <2>1
    <3> QED
      BY <3>1
  <2>2. CASE k = K
    <3>1. Loop(g, names, deeper, K) = Loop(g, names, active, K)
      BY <1>1, <1>7
    <3>2. new[K] >= 1 /\ new[K] <= Len(Loop(g, names, deeper, K)) + 1
      BY <1>1, <1>5, <3>1
    <3>3. ASSUME NEW i \in 1..(new[K] - 1)
          PROVE  \/ Loop(g, names, deeper, K)[i] \in visited
                 \/ K <= Len(deeper) /\ i = new[K] - 1
      <4>1. i \in 1..(next[K] - 1) \/ i = new[K] - 1
        BY <1>1, <1>5
      <4> QED
        BY <1>1, <1>6, <3>1, <4>1
    <3> QED
      BY <2>2, <3>2, <3>3
  <2>3. CASE k \in 1..Len(active)
    <3>1. k # K /\ k \in 1..K /\ k \in 1..Len(next) /\ k <= Len(deeper)
      BY <1>1, <1>4, <1>6, <2>3
    <3>2. new[k] = next[k] /\ Loop(g, names, deeper, k) = Loop(g, names, active, k)
      BY <1>5, <1>7, <3>1
    <3> QED
      BY <3>1, <3>2 DEF Under
  <2> QED
    BY <1>1, <2>1, <2>2, <2>3
<1>11. ASSUME NEW k \in 1..K
       PROVE  new[k] > 1 /\ Loop(g, names, deeper, k)[new[k] - 1] = deeper[k]
  <2>1. CASE k = K
    <3>1. new[K] > 1 /\ new[K] - 1 = next[K]
      BY <1>1, <1>5
    <3> QED
      BY <1>1, <1>6, <1>7, <2>1, <3>1
  <2>2. CASE k # K
    <3>1. k \in 1..Len(active)
      BY <1>1, <2>2
    <3> QED
      BY <1>5, <1>6, <1>7, <2>2, <3>1 DEF Under
  <2> QED
    BY <2>1, <2>2
<1>12. \A k \in 1..K : k \in 1..Len(active) \/ k = K
  BY <1>1
<1>13. \A k \in 1..K : deeper[k] \notin visited
  BY <1>6, <1>9, <1>12
<1>14. ASSUME NEW i \in 1..K, NEW j \in 1..K, i < j PROVE deeper[i] # deeper[j]
  <2>1. i \in 1..Len(active)
    BY <1>1, <1>14
  <2>2. CASE j = K
    BY <1>6, <1>9, <2>1, <2>2
  <2>3. CASE j \in 1..Len(active)
    BY <1>6, <1>14, <2>1, <2>3 DEF Under
  <2> QED
    BY <1>12, <2>2, <2>3
<1> HIDE DEF Loop
<1>15. visited \subseteq DOMAIN g /\ Len(new) = Len(deeper) + 1
  BY <1>5, <1>6 DEF Under
<1>16. Under(N, g, names, deeper, new, visited)
  BY <1>5, <1>6, <1>10, <1>11, <1>13, <1>14, <1>15 DEF Under
<1> QED
  BY <1>2, <1>3, <1>16

(* The innermost loop ends, and the node it belongs to is done.            *)
LEMMA ReturnKeeps ==
    ASSUME NEW N, NEW g, NEW names, Graph(N, g, names),
           NEW active, NEW next, NEW visited, Under(N, g, names, active, next, visited),
           Len(next) # 1
    PROVE  /\ Last(active) \in DOMAIN g /\ Last(active) \notin visited
           /\ Under(N, g, names, Front(active), Front(next), visited \union {Last(active)})
<1>1. /\ next \in Seq(Nat) /\ active \in Seq(DOMAIN g) /\ visited \subseteq DOMAIN g
      /\ Len(next) = Len(active) + 1
  BY DEF Under
<1>2. PICK m : m = Len(active)
  OBVIOUS
<1>3. m \in Nat /\ m >= 1 /\ Len(next) = m + 1
  BY <1>1, <1>2
<1>4. PICK n : n = Last(active)
  OBVIOUS
<1>5. n = active[m] /\ n \in DOMAIN g /\ n \notin visited
  BY <1>1, <1>2, <1>3, <1>4 DEF Last, Under
<1>6. PICK a : a = Front(active)
  OBVIOUS
<1>7. PICK x : x = Front(next)
  OBVIOUS
<1>8. /\ a \in Seq(DOMAIN g) /\ Len(a) = m - 1 /\ \A k \in 1..(m - 1) : a[k] = active[k]
  BY <1>1, <1>2, <1>3, <1>6 DEF Front
<1>9. /\ x \in Seq(Nat) /\ Len(x) = m /\ \A k \in 1..m : x[k] = next[k]
  BY <1>1, <1>3, <1>7 DEF Front
<1>10. \A k \in 1..m : Loop(g, names, a, k) = Loop(g, names, active, k)
  <2> TAKE k \in 1..m
  <2>1. k = 1 \/ k - 1 \in 1..(m - 1)
    BY <1>3
  <2> QED
    BY <1>8, <2>1 DEF Loop
<1>11. PICK done : done = visited \union {n}
  OBVIOUS
<1>18. /\ \A k \in 1..m : active[k] \notin visited
       /\ \A i, j \in 1..m : i < j => active[i] # active[j]
  BY <1>2 DEF Under
<1>12. \A k \in 1..(m - 1) : a[k] \notin done
  <2> TAKE k \in 1..(m - 1)
  <2>1. k \in 1..m /\ m \in 1..m /\ k < m
    BY <1>3
  <2> QED
    BY <1>5, <1>8, <1>11, <1>18, <2>1
<1>13. \A i, j \in 1..(m - 1) : i < j => a[i] # a[j]
  <2> TAKE i, j \in 1..(m - 1)
  <2>1. i \in 1..m /\ j \in 1..m
    BY <1>3
  <2> QED
    BY <1>8, <1>18, <2>1
<1>14. ASSUME NEW k \in 1..m
       PROVE  /\ x[k] >= 1 /\ x[k] <= Len(Loop(g, names, a, k)) + 1
              /\ \A i \in 1..(x[k] - 1) :
                   Loop(g, names, a, k)[i] \in done \/ (k <= Len(a) /\ i = x[k] - 1)
  <2>1. k \in 1..Len(next)
    BY <1>3
  <2>2. x[k] = next[k] /\ Loop(g, names, a, k) = Loop(g, names, active, k)
    BY <1>9, <1>10
  <2>3. ASSUME NEW i \in 1..(x[k] - 1)
        PROVE  Loop(g, names, a, k)[i] \in done \/ (k <= Len(a) /\ i = x[k] - 1)
    <3>1. Loop(g, names, active, k)[i] \in visited \/ i = next[k] - 1
      <4>1. i \in 1..(next[k] - 1)
        BY <2>2
      <4> QED
        BY <2>1, <4>1 DEF Under
    <3>2. Loop(g, names, active, k)[next[k] - 1] = active[k]
      BY <1>2 DEF Under
    <3>3. k = m \/ k <= Len(a)
      BY <1>3, <1>8
    <3> QED
      BY <1>5, <1>11, <2>2, <3>1, <3>2, <3>3
  <2>4. x[k] >= 1 /\ x[k] <= Len(Loop(g, names, a, k)) + 1
    BY <2>1, <2>2 DEF Under
  <2> QED
    BY <2>3, <2>4
<1>15. ASSUME NEW k \in 1..(m - 1)
       PROVE  x[k] > 1 /\ Loop(g, names, a, k)[x[k] - 1] = a[k]
  <2>1. k \in 1..m
    BY <1>3
  <2> QED
    BY <1>2, <1>8, <1>9, <1>10, <2>1 DEF Under
<1>16. done \subseteq DOMAIN g /\ Len(x) = Len(a) + 1
  BY <1>1, <1>3, <1>5, <1>8, <1>9, <1>11
<1>17. Under(N, g, names, a, x, done)
  BY <1>8, <1>9, <1>12, <1>13, <1>14, <1>15, <1>16 DEF Under
<1> QED
  BY <1>4, <1>5, <1>6, <1>7, <1>11, <1>17

(* The node a loop goes on to is one it must go to, and ranks below all    *)
(* that are being visited.                                                 *)
LEMMA NextIsWanted ==
    ASSUME NEW N, NEW g, NEW names, Graph(N, g, names),
           NEW active, NEW next, NEW visited, Under(N, g, names, active, next, visited),
           Wanted(g, names, active, visited),
           NEW K, K = Len(next), next[K] <= Len(Loop(g, names, active, K)),
           NEW n, n = Loop(g, names, active, K)[next[K]],
           NEW C, ClosedIn(g, names, C)
    PROVE  /\ n \in C
           /\ \A rank : RankedBy(g, C, rank) =>
                 \A i \in 1..Len(active) : rank[n] < rank[active[i]]
<1>1. /\ Len(active) \in Nat /\ K = Len(active) + 1 /\ next[K] \in Nat /\ next[K] >= 1
      /\ Loop(g, names, active, K) \in Seq(N)
      /\ Loop(g, names, active, K) = (IF K = 1 THEN names ELSE g[Last(active)])
  BY InnermostLoop
<1>2. n \in Range(Loop(g, names, active, K))
  <2>1. PICK loop \in Seq(N) : loop = Loop(g, names, active, K)
    BY <1>1
  <2>2. next[K] \in DOMAIN loop /\ n = loop[next[K]]
    BY <1>1, <2>1
  <2> QED
    BY <2>1, <2>2 DEF Range
<1>3. CASE K = 1
  BY <1>1, <1>2, <1>3 DEF ClosedIn
<1>4. CASE K # 1
  <2>1. PICK m : m = Len(active)
    OBVIOUS
  <2>2. m \in Nat /\ m \in 1..m
    BY <1>1, <1>4, <2>1
  <2>3. Last(active) = active[m] /\ active[m] \in DOMAIN g /\ active[m] \in C
    BY <2>1, <2>2 DEF Last, Under, Wanted
  <2>4. n \in Range(g[active[m]])
    BY <1>1, <1>2, <1>4, <2>3
  <2>5. n \in C
    BY <2>3, <2>4 DEF ClosedIn
  <2>6. ASSUME NEW rank, RankedBy(g, C, rank), NEW i \in 1..m
        PROVE  rank[n] < rank[active[i]]
    <3>1. /\ rank[n] < rank[active[m]] /\ rank[n] \in Nat /\ rank[active[m]] \in Nat
      BY <2>3, <2>4, <2>5, <2>6 DEF RankedBy
    <3>2. rank[active[i]] \in Nat
      BY <2>1, <2>6 DEF RankedBy, Wanted
    <3>3. i = m \/ rank[active[m]] < rank[active[i]]
      <4>1. \A x, y \in 1..m : x < y => rank[active[y]] < rank[active[x]]
        BY <2>1, <2>6 DEF Wanted
      <4>2. i = m \/ i < m
        BY <2>2, <2>6
      <4> QED
        BY <2>2, <4>1, <4>2
    <3> QED
      BY <3>1, <3>2, <3>3
  <2> QED
    BY <2>1, <2>5, <2>6
<1> QED
  BY <1>3, <1>4

LEMMA EnterIsWanted ==
    ASSUME NEW N, NEW g, NEW names, Graph(N, g, names),
           NEW active, NEW next, NEW visited, Under(N, g, names, active, next, visited),
           Wanted(g, names, active, visited),
           NEW K, K = Len(next), next[K] <= Len(Loop(g, names, active, K)),
           NEW n, n = Loop(g, names, active, K)[next[K]], n \in DOMAIN g
    PROVE  Wanted(g, names, Append(active, n), visited)
<1>1. /\ active \in Seq(DOMAIN g) /\ Len(active) \in Nat
  BY DEF Under
<1>2. PICK m : m = Len(active)
  OBVIOUS
<1>3. PICK deeper : deeper = Append(active, n)
  OBVIOUS
<1>4. /\ m \in Nat /\ Len(deeper) = m + 1 /\ deeper[m + 1] = n
      /\ \A k \in 1..m : deeper[k] = active[k]
  BY <1>1, <1>2, <1>3
<1>5. ASSUME NEW C, ClosedIn(g, names, C)
      PROVE  /\ visited \subseteq C /\ \A k \in 1..(m + 1) : deeper[k] \in C
             /\ \A rank : RankedBy(g, C, rank) =>
                  \A i, j \in 1..(m + 1) : i < j => rank[deeper[j]] < rank[deeper[i]]
  <2>1. n \in C /\ \A rank : RankedBy(g, C, rank) => \A i \in 1..m : rank[n] < rank[active[i]]
    BY <1>2, <1>5, NextIsWanted
  <2>2. /\ visited \subseteq C /\ \A k \in 1..m : active[k] \in C
        /\ \A rank : RankedBy(g, C, rank) =>
              \A i, j \in 1..m : i < j => rank[active[j]] < rank[active[i]]
    BY <1>2, <1>5 DEF Wanted
  <2>3. \A k \in 1..(m + 1) : k \in 1..m \/ k = m + 1
    BY <1>4
  <2>4. \A k \in 1..(m + 1) : deeper[k] \in C
    BY <1>4, <2>1, <2>2, <2>3
  <2>5. ASSUME NEW rank, RankedBy(g, C, rank), NEW i \in 1..(m + 1), NEW j \in 1..(m + 1), i < j
        PROVE  rank[deeper[j]] < rank[deeper[i]]
    <3>1. i \in 1..m
      BY <1>4, <2>5
    <3> QED
      BY <1>4, <2>1, <2>2, <2>3, <2>5, <3>1
  <2> QED
    BY <2>2, <2>4, <2>5
<1> QED
  BY <1>3, <1>4, <1>5 DEF Wanted

LEMMA ReturnIsWanted ==
    ASSUME NEW N, NEW g, NEW names, Graph(N, g, names),
           NEW active, NEW next, NEW visited, Under(N, g, names, active, next, visited),
           Wanted(g, names, active, visited), Len(next) # 1
    PROVE  Wanted(g, names, Front(active), visited \union {Last(active)})
<1>1. /\ active \in Seq(DOMAIN g) /\ Len(active) \in Nat /\ Len(active) # 0
  BY DEF Under
<1>2. PICK m : m = Len(active)
  OBVIOUS
<1>3. PICK a : a = Front(active)
  OBVIOUS
<1>4. /\ m \in Nat /\ m >= 1 /\ Len(a) = m - 1 /\ Last(active) = active[m]
      /\ \A k \in 1..(m - 1) : a[k] = active[k]
  BY <1>1, <1>2, <1>3 DEF Front, Last
<1>5. m \in 1..m /\ \A k \in 1..(m - 1) : k \in 1..m
  BY <1>4
<1>6. ASSUME NEW C, ClosedIn(g, names, C)
      PROVE  /\ (visited \union {active[m]}) \subseteq C /\ \A k \in 1..(m - 1) : a[k] \in C
             /\ \A rank : RankedBy(g, C, rank) =>
                  \A i, j \in 1..(m - 1) : i < j => rank[a[j]] < rank[a[i]]
  <2>1. /\ visited \subseteq C /\ \A k \in 1..m : active[k] \in C
        /\ \A rank : RankedBy(g, C, rank) =>
              \A i, j \in 1..m : i < j => rank[active[j]] < rank[active[i]]
    BY <1>2, <1>6 DEF Wanted
  <2> QED
    BY <1>4, <1>5, <2>1
<1> QED
  BY <1>3, <1>4, <1>6 DEF Wanted

(* The node a loop belongs to is listed after all it depends on.           *)
LEMMA ReturnIsListed ==
    ASSUME NEW N, NEW g, NEW names, Graph(N, g, names),
           NEW active, NEW next, NEW visited, Under(N, g, names, active, next, visited),
           NEW ordered, Listing(N, g, visited, ordered),
           NEW K, K = Len(next), K # 1, next[K] > Len(Loop(g, names, active, K))
    PROVE  Listing(N, g, visited \union {Last(active)}, Append(ordered, Last(active)))
<1>1. PICK n : n = Last(active)
  OBVIOUS
<1>2. n \in DOMAIN g /\ n \notin visited /\ n \in N
  BY <1>1, ReturnKeeps DEF Graph
<1>3. PICK loop : loop = Loop(g, names, active, K)
  OBVIOUS
<1>4. /\ loop \in Seq(N) /\ loop = g[n] /\ next[K] \in Nat /\ next[K] > Len(loop)
      /\ \A i \in 1..(next[K] - 1) : loop[i] \in visited
  BY <1>1, <1>3, InnermostLoop
<1>5. Range(g[n]) \subseteq visited
  <2>1. ASSUME NEW d \in Range(loop) PROVE d \in visited
    <3>1. PICK i \in 1..Len(loop) : d = loop[i]
      BY <1>4 DEF Range
    <3>2. i \in 1..(next[K] - 1)
      BY <1>4
    <3> QED
      BY <1>4, <3>1, <3>2
  <2> QED
    BY <1>4, <2>1
<1>6. PICK m : m = Len(ordered)
  OBVIOUS
<1>7. PICK more : more = Append(ordered, n)
  OBVIOUS
<1>8. /\ ordered \in Seq(N) /\ IsFiniteSet(visited) /\ m = Cardinality(visited) /\ m \in Nat
      /\ \A x : x \in visited <=> \E i \in 1..m : ordered[i] = x
      /\ \A i, j \in 1..m : i # j => ordered[i] # ordered[j]
      /\ \A j \in 1..m : \A d \in Range(g[ordered[j]]) : \E i \in 1..(j - 1) : ordered[i] = d
  BY <1>6 DEF Listing
<1>9. /\ more \in Seq(N) /\ Len(more) = m + 1 /\ more[m + 1] = n
      /\ \A i \in 1..m : more[i] = ordered[i]
  <2>1. ordered \in Seq(N)
    BY <1>8
  <2> QED
    BY <1>2, <1>6, <1>7, <2>1
<1>10. PICK done : done = visited \union {n}
  OBVIOUS
<1>11. IsFiniteSet(done) /\ Cardinality(done) = m + 1
  BY <1>2, <1>8, <1>10, FS_AddElement
<1>12. /\ \A i \in 1..(m + 1) : i \in 1..m \/ i = m + 1
       /\ \A i \in 1..m : i \in 1..(m + 1)
       /\ m + 1 \in 1..(m + 1) /\ ~(m + 1 \in 1..m)
  BY <1>8
<1>13. \A x : x \in done <=> \E i \in 1..(m + 1) : more[i] = x
  BY <1>8, <1>9, <1>10, <1>12
<1>14. \A i \in 1..m : ordered[i] # n
  BY <1>2, <1>8
<1>15. \A i, j \in 1..(m + 1) : i # j => more[i] # more[j]
  BY <1>8, <1>9, <1>12, <1>14
<1>16. ASSUME NEW j \in 1..(m + 1), NEW d \in Range(g[more[j]])
       PROVE  \E i \in 1..(j - 1) : more[i] = d
  <2>1. CASE j = m + 1
    <3>1. PICK i \in 1..m : ordered[i] = d
      BY <1>5, <1>8, <1>9, <1>16, <2>1
    <3>2. i \in 1..(j - 1)
      BY <1>8, <2>1
    <3> QED
      BY <1>9, <3>1, <3>2
  <2>2. CASE j \in 1..m
    <3>1. PICK i \in 1..(j - 1) : ordered[i] = d
      BY <1>8, <1>9, <1>16, <2>2
    <3>2. i \in 1..m
      BY <1>8, <2>2
    <3> QED
      BY <1>9, <3>1, <3>2
  <2> QED
    BY <1>12, <2>1, <2>2
<1>17. Listing(N, g, done, more)
  BY <1>9, <1>11, <1>13, <1>15, <1>16 DEF Listing
<1> QED
  BY <1>1, <1>7, <1>10, <1>17

Over(names, st) ==
    st.raised # "none" \/ (Len(st.next) = 1 /\ st.next[1] > Len(names))

(* What a step of the search makes of what it has.                         *)
Found(active, next, visited, ordered, raised) ==
    [active |-> active, next |-> next, visited |-> visited, ordered |-> ordered,
     raised |-> raised]

Moved(g, active, next, visited, ordered, K, loop, n) ==
    IF next[K] > Len(loop)
    THEN IF K = 1 THEN Found(active, next, visited, ordered, "none")
         ELSE Found(Front(active), Front(next), visited \union {Last(active)},
                    Append(ordered, Last(active)), "none")
    ELSE IF n \in visited
         THEN Found(active, [next EXCEPT ![K] = @ + 1], visited, ordered, "none")
    ELSE IF n \in Range(active) THEN Found(active, next, visited, ordered, "cycle")
    ELSE IF n \notin DOMAIN g THEN Found(active, next, visited, ordered, "missing")
    ELSE Found(Append(active, n), Append([next EXCEPT ![K] = @ + 1], 1), visited,
               ordered, "none")

LEMMA StepIs ==
    ASSUME NEW g, NEW names, NEW active, NEW next, NEW visited, NEW ordered,
           NEW K, K = Len(next),
           NEW loop, loop = IF K = 1 THEN names ELSE g[Last(active)],
           NEW n, n = loop[next[K]]
    PROVE  Step(g, names, Found(active, next, visited, ordered, "none")) =
             Moved(g, active, next, visited, ordered, K, loop, n)
<1> DEFINE st == Found(active, next, visited, ordered, "none")
<1>1. /\ st.active = active /\ st.next = next /\ st.visited = visited /\ st.ordered = ordered
      /\ st.raised = "none"
  BY DEF Found
<1>2. Return(st) = Found(Front(active), Front(next), visited \union {Last(active)},
                         Append(ordered, Last(active)), "none")
  <2>1. PICK a, x, v, o : /\ a = Front(active) /\ x = Front(next)
                          /\ v = visited \union {Last(active)}
                          /\ o = Append(ordered, Last(active))
    OBVIOUS
  <2>2. Return(st) = [st EXCEPT !.active = a, !.next = x, !.visited = v, !.ordered = o]
    <3> HIDE DEF st
    <3> QED
      BY <1>1, <2>1 DEF Return
  <2>3. /\ st = [i \in DOMAIN st |-> st[i]]
        /\ DOMAIN st = {"active", "next", "visited", "ordered", "raised"}
    BY DEF Found
  <2> HIDE DEF st
  <2>4. PICK q : q = Return(st)
    OBVIOUS
  <2>5. /\ q = [i \in DOMAIN st |-> q[i]]
        /\ q["active"] = a /\ q["next"] = x /\ q["visited"] = v /\ q["ordered"] = o
        /\ q["raised"] = "none"
    BY <1>1, <2>2, <2>3, <2>4
  <2>6. q = [active |-> a, next |-> x, visited |-> v, ordered |-> o, raised |-> "none"]
    BY <2>3, <2>5
  <2> QED
    BY <2>1, <2>4, <2>6 DEF Found
<1>3. [st EXCEPT !.next[K] = @ + 1] =
        Found(active, [next EXCEPT ![K] = @ + 1], visited, ordered, "none")
  BY DEF Found
<1>4. /\ [st EXCEPT !.raised = "cycle"] = Found(active, next, visited, ordered, "cycle")
      /\ [st EXCEPT !.raised = "missing"] = Found(active, next, visited, ordered, "missing")
  BY DEF Found
<1>5. [[st EXCEPT !.next[K] = @ + 1] EXCEPT !.active = Append(@, n), !.next = Append(@, 1)] =
        Found(Append(active, n), Append([next EXCEPT ![K] = @ + 1], 1), visited, ordered, "none")
  <2>1. PICK new : new = [next EXCEPT ![K] = @ + 1]
    OBVIOUS
  <2>2. PICK on : on = Found(active, new, visited, ordered, "none")
    OBVIOUS
  <2>3. on.active = active /\ on.next = new
    BY <2>2 DEF Found
  <2>4. [on EXCEPT !.active = Append(active, n), !.next = Append(new, 1)] =
          Found(Append(active, n), Append(new, 1), visited, ordered, "none")
    <3>1. PICK a, x : a = Append(active, n) /\ x = Append(new, 1)
      OBVIOUS
    <3>2. PICK q : q = [on EXCEPT !.active = a, !.next = x]
      OBVIOUS
    <3>3. /\ on = [i \in DOMAIN on |-> on[i]]
          /\ DOMAIN on = {"active", "next", "visited", "ordered", "raised"}
          /\ on.visited = visited /\ on.ordered = ordered /\ on.raised = "none"
      BY <2>2 DEF Found
    <3>4. /\ q = [i \in DOMAIN on |-> q[i]]
          /\ q["active"] = a /\ q["next"] = x /\ q["visited"] = visited
          /\ q["ordered"] = ordered /\ q["raised"] = "none"
      BY <3>2, <3>3
    <3>5. q = [active |-> a, next |-> x, visited |-> visited, ordered |-> ordered,
               raised |-> "none"]
      BY <3>3, <3>4
    <3> QED
      BY <3>1, <3>2, <3>5 DEF Found
  <2>5. [st EXCEPT !.next[K] = @ + 1] = on
    BY <1>3, <2>1, <2>2
  <2> HIDE DEF st
  <2> QED
    BY <2>1, <2>3, <2>4, <2>5
<1> HIDE DEF st
<1> QED
  BY <1>1, <1>2, <1>3, <1>4, <1>5 DEF Step, Moved, st

(* An exception ends the search.                                           *)
LEMMA RaisedStays ==
    ASSUME NEW g, NEW names, NEW st, st.raised # "none"
    PROVE  Step(g, names, st) = st
  BY DEF Step

-----------------------------------------------------------------------------
(* How far a search has got: the ticks it has used up.                     *)
Used(g, active, next, visited) ==
    {t \in Ticks(g) : \/ t[1] \in visited
                      \/ \E k \in 1..Len(active) :
                            active[k] = t[1] /\ t[2] >= 1 /\ t[2] < next[k + 1]}
Spent(g, st) == (st.next[1] - 1) + Cardinality(Used(g, st.active, st.next, st.visited))

(* There are finitely many ticks, one for a name or a return of each node. *)
LEMMA TicksAre ==
    ASSUME NEW N, NEW g, NEW names, Graph(N, g, names)
    PROVE  /\ IsFiniteSet(Ticks(g))
           /\ \A n \in DOMAIN g : \A i \in 0..Len(g[n]) : <<n, i>> \in Ticks(g)
<1>1. PICK S : S = {{n} \X (0..Len(g[n])) : n \in DOMAIN g}
  OBVIOUS
<1>2. PICK f : f = [n \in DOMAIN g |-> {n} \X (0..Len(g[n]))]
  OBVIOUS
<1>3. f \in Surjection(DOMAIN g, S)
  BY <1>1, <1>2 DEF Surjection
<1>4. IsFiniteSet(S)
  BY <1>3, FS_Surjection DEF Graph
<1>5. ASSUME NEW T \in S PROVE IsFiniteSet(T)
  <2>1. PICK n \in DOMAIN g : T = {n} \X (0..Len(g[n]))
    BY <1>1
  <2>2. Len(g[n]) \in Nat
    BY DEF Graph
  <2>3. IsFiniteSet({n}) /\ IsFiniteSet(0..Len(g[n]))
    <3>1. IsFiniteSet({n})
      BY FS_Singleton
    <3>2. 0 \in Int /\ Len(g[n]) \in Int
      BY <2>2
    <3>3. IsFiniteSet(0..Len(g[n]))
      BY <3>2, FS_Interval
    <3> QED
      BY <3>1, <3>3
  <2> QED
    BY <2>1, <2>3, FS_Product
<1>6. IsFiniteSet(UNION S)
  BY <1>4, <1>5, FS_UNION
<1> QED
  BY <1>1, <1>6 DEF Ticks

(* Using up one more tick counts.                                          *)
LEMMA OneMore ==
    ASSUME NEW T, IsFiniteSet(T), NEW U, U \subseteq T, NEW V, V \subseteq T, U \subseteq V,
           NEW x, x \in V, x \notin U
    PROVE  /\ Cardinality(U) \in Nat /\ Cardinality(V) \in Nat
           /\ Cardinality(V) >= Cardinality(U) + 1
<1>1. /\ IsFiniteSet(U) /\ IsFiniteSet(V)
      /\ Cardinality(U) \in Nat /\ Cardinality(V) \in Nat
  BY FS_Subset, FS_CardinalityType
<1>2. (U \union {x}) \subseteq V /\ Cardinality(U \union {x}) = Cardinality(U) + 1
  BY <1>1, FS_AddElement
<1>3. Cardinality(U \union {x}) <= Cardinality(V)
  BY <1>1, <1>2, FS_Subset
<1> QED
  BY <1>1, <1>2, <1>3

(* What has been spent never exceeds what there is.                        *)
LEMMA SpentIsBounded ==
    ASSUME NEW N, NEW g, NEW names, Graph(N, g, names), NEW st, Going(N, g, names, st)
    PROVE  Spent(g, st) \in Nat /\ Spent(g, st) <= Steps(g, names)
<1>1. /\ st.next[1] \in Nat /\ st.next[1] >= 1 /\ st.next[1] <= Len(names) + 1
      /\ Len(names) \in Nat
  <2>1. 1 \in 1..Len(st.next) /\ st.next \in Seq(Nat) /\ Loop(g, names, st.active, 1) = names
    BY DEF Going, Under, Loop
  <2> QED
    BY <2>1 DEF Going, Under, Graph
<1>2. Used(g, st.active, st.next, st.visited) \subseteq Ticks(g)
  BY DEF Used
<1>3. /\ Cardinality(Used(g, st.active, st.next, st.visited)) \in Nat
      /\ Cardinality(Ticks(g)) \in Nat
      /\ Cardinality(Used(g, st.active, st.next, st.visited)) <= Cardinality(Ticks(g))
  BY <1>2, TicksAre, FS_Subset, FS_CardinalityType
<1> QED
  BY <1>1, <1>3 DEF Spent, Steps

(* The place of a dependency a loop has still to look at is not used up.   *)
LEMMA RoomLeft ==
    ASSUME NEW N, NEW g, NEW names, Graph(N, g, names),
           NEW active, NEW next, NEW visited, Under(N, g, names, active, next, visited),
           NEW K, K = Len(next), K # 1, next[K] <= Len(Loop(g, names, active, K))
    PROVE  \E x \in Ticks(g) : /\ x \notin Used(g, active, next, visited)
                              /\ x[1] = Last(active) /\ x[2] = next[K]
<1>1. /\ Len(active) \in Nat /\ K = Len(active) + 1 /\ next[K] \in Nat /\ next[K] >= 1
      /\ Loop(g, names, active, K) \in Seq(N)
      /\ Loop(g, names, active, K) = (IF K = 1 THEN names ELSE g[Last(active)])
  BY InnermostLoop
<1>2. PICK m : m = Len(active)
  OBVIOUS
<1>3. m \in Nat /\ m \in 1..m /\ K = m + 1
  BY <1>1, <1>2
<1>4. PICK n : n = active[m]
  OBVIOUS
<1>5. /\ n \in DOMAIN g /\ n \notin visited
      /\ \A k \in 1..m : active[k] = n => k = m
  <2>1. \A i, j \in 1..m : i < j => active[i] # active[j]
    BY <1>2 DEF Under
  <2>2. \A k \in 1..m : k = m \/ k < m
    BY <1>3
  <2>3. n \in DOMAIN g /\ n \notin visited
    <3>1. active \in Seq(DOMAIN g) /\ \A k \in 1..Len(active) : active[k] \notin visited
      BY DEF Under
    <3> QED
      BY <1>2, <1>3, <1>4, <3>1
  <2> QED
    BY <1>3, <1>4, <2>1, <2>2, <2>3
<1>6. n = Last(active)
  BY <1>2, <1>4 DEF Last
<1>7. PICK i : i = next[K]
  OBVIOUS
<1>8. i \in Nat /\ i >= 1 /\ i <= Len(g[n])
  <2>1. Loop(g, names, active, K) = g[n]
    BY <1>1, <1>6
  <2> QED
    BY <1>1, <1>7, <2>1
<1>9. PICK x : x = <<n, i>>
  OBVIOUS
<1>10. x \in Ticks(g) /\ x[1] = n /\ x[2] = i
  <2>1. Len(g[n]) \in Nat
    BY <1>5 DEF Graph
  <2>2. i \in 0..Len(g[n])
    BY <1>8, <2>1
  <2> QED
    BY <1>5, <1>9, <2>2, TicksAre
<1>11. x \notin Used(g, active, next, visited)
  BY <1>2, <1>3, <1>5, <1>7, <1>8, <1>10 DEF Used
<1> QED
  BY <1>6, <1>7, <1>10, <1>11

(* Going on in the loop over the names, or in the loop of a node.          *)
LEMMA GoingOnSpends ==
    ASSUME NEW N, NEW g, NEW names, Graph(N, g, names),
           NEW active, NEW next, NEW visited, Under(N, g, names, active, next, visited),
           NEW K, K = Len(next), next[K] <= Len(Loop(g, names, active, K)),
           NEW deeper, NEW new,
           Under(N, g, names, deeper, new, visited),
           Len(deeper) >= Len(active), \A k \in 1..Len(active) : deeper[k] = active[k],
           new[K] = next[K] + 1, \A k \in 1..K : k # K => new[k] = next[k],
           \A k \in 1..Len(deeper) : k > Len(active) => new[k + 1] = 1
    PROVE  (new[1] - 1) + Cardinality(Used(g, deeper, new, visited))
             >= (next[1] - 1) + Cardinality(Used(g, active, next, visited)) + 1
<1>1. /\ Len(active) \in Nat /\ K = Len(active) + 1 /\ next[K] \in Nat /\ next[K] >= 1
      /\ Loop(g, names, active, K) \in Seq(N)
      /\ Loop(g, names, active, K) = (IF K = 1 THEN names ELSE g[Last(active)])
  BY InnermostLoop
<1>2. /\ next \in Seq(Nat) /\ new \in Seq(Nat) /\ Len(deeper) \in Nat
      /\ 1 \in 1..Len(next) /\ 1 \in 1..Len(new)
  BY DEF Under
<1>3. /\ next[1] \in Nat /\ new[1] \in Nat
      /\ \A k \in 1..K : next[k] \in Nat
  <2>1. \A k \in 1..Len(next) : next[k] \in Nat
    BY <1>2
  <2>2. new[1] \in Nat
    BY <1>2
  <2> QED
    BY <1>2, <2>1, <2>2
<1>4. /\ IsFiniteSet(Ticks(g))
      /\ \A n \in DOMAIN g : \A i \in 0..Len(g[n]) : <<n, i>> \in Ticks(g)
  BY TicksAre
<1>5. PICK U : U = Used(g, active, next, visited)
  OBVIOUS
<1>6. PICK V : V = Used(g, deeper, new, visited)
  OBVIOUS
<1>7. U \subseteq Ticks(g) /\ V \subseteq Ticks(g)
  BY <1>5, <1>6 DEF Used
<1>8. ASSUME NEW t \in U PROVE t \in V
  <2>1. CASE t[1] \in visited
    BY <1>5, <1>6, <2>1 DEF Used
  <2>2. CASE \E k \in 1..Len(active) : active[k] = t[1] /\ t[2] >= 1 /\ t[2] < next[k + 1]
    <3>1. PICK k \in 1..Len(active) : active[k] = t[1] /\ t[2] >= 1 /\ t[2] < next[k + 1]
      BY <2>2
    <3>2. k \in 1..Len(deeper) /\ k + 1 \in 1..K /\ deeper[k] = t[1]
      BY <1>1, <1>2, <3>1
    <3>3. t[2] \in Nat
      BY <1>5 DEF Used, Ticks
    <3>4. t[2] < new[k + 1]
      <4>1. next[k + 1] \in Nat
        BY <1>3, <3>2
      <4> QED
        BY <1>1, <3>1, <3>2, <3>3, <4>1
    <3> QED
      BY <1>5, <1>6, <3>1, <3>2, <3>4 DEF Used
  <2> QED
    BY <1>5, <2>1, <2>2 DEF Used
<1>9. Cardinality(U) \in Nat /\ Cardinality(V) \in Nat /\ Cardinality(U) <= Cardinality(V)
  <2>1. IsFiniteSet(U) /\ IsFiniteSet(V) /\ U \subseteq V
    BY <1>4, <1>7, <1>8, FS_Subset
  <2> QED
    BY <2>1, FS_Subset, FS_CardinalityType
<1>10. CASE K = 1
  <2>1. new[1] = next[1] + 1
    BY <1>10
  <2> QED
    BY <1>3, <1>5, <1>6, <1>9, <2>1
<1>11. CASE K # 1
  <2>1. PICK m : m = Len(active)
    OBVIOUS
  <2>2. m \in Nat /\ m \in 1..m /\ K = m + 1 /\ 1 \in 1..K /\ Last(active) = active[m]
    BY <1>1, <1>11, <2>1 DEF Last
  <2>3. PICK x \in Ticks(g) : x \notin U /\ x[1] = active[m] /\ x[2] = next[K]
    <3>1. \E x \in Ticks(g) : /\ x \notin Used(g, active, next, visited)
                             /\ x[1] = Last(active) /\ x[2] = next[K]
      BY <1>11, RoomLeft
    <3> QED
      BY <1>5, <2>2, <3>1
  <2>4. x \in V
    <3>1. m \in 1..Len(deeper) /\ deeper[m] = active[m] /\ new[m + 1] = next[K] + 1
      BY <1>2, <2>1, <2>2
    <3> QED
      BY <1>1, <1>6, <2>3, <3>1 DEF Used
  <2>5. Cardinality(V) >= Cardinality(U) + 1
    BY <1>4, <1>7, <1>8, <2>3, <2>4, OneMore
  <2>6. new[1] = next[1]
    BY <1>11, <2>2
  <2> QED
    BY <1>3, <1>5, <1>6, <1>9, <2>5, <2>6
<1> QED
  BY <1>10, <1>11

(* The return from a node.                                                 *)
LEMMA ReturnSpends ==
    ASSUME NEW N, NEW g, NEW names, Graph(N, g, names),
           NEW active, NEW next, NEW visited, Under(N, g, names, active, next, visited),
           Len(next) # 1
    PROVE  (Front(next)[1] - 1)
             + Cardinality(Used(g, Front(active), Front(next), visited \union {Last(active)}))
             >= (next[1] - 1) + Cardinality(Used(g, active, next, visited)) + 1
<1>1. /\ next \in Seq(Nat) /\ active \in Seq(DOMAIN g) /\ Len(next) = Len(active) + 1
  BY DEF Under
<1>2. PICK m : m = Len(active)
  OBVIOUS
<1>3. m \in Nat /\ m >= 1 /\ Len(next) = m + 1 /\ m \in 1..m
  BY <1>1, <1>2
<1>4. PICK n : n = Last(active)
  OBVIOUS
<1>5. n = active[m] /\ n \in DOMAIN g /\ n \notin visited
  BY <1>2, <1>4, ReturnKeeps DEF Last
<1>6. PICK a : a = Front(active)
  OBVIOUS
<1>7. PICK x : x = Front(next)
  OBVIOUS
<1>8. /\ Len(a) = m - 1 /\ \A k \in 1..(m - 1) : a[k] = active[k]
  BY <1>1, <1>2, <1>3, <1>6 DEF Front
<1>9. /\ \A k \in 1..m : x[k] = next[k]
  BY <1>1, <1>3, <1>7 DEF Front
<1>10. PICK done : done = visited \union {n}
  OBVIOUS
<1>11. PICK U : U = Used(g, active, next, visited)
  OBVIOUS
<1>12. PICK V : V = Used(g, a, x, done)
  OBVIOUS
<1>13. U \subseteq Ticks(g) /\ V \subseteq Ticks(g)
  BY <1>11, <1>12 DEF Used
<1>14. ASSUME NEW t \in U PROVE t \in V
  <2>1. CASE t[1] \in done
    BY <1>12, <1>13, <2>1 DEF Used
  <2>2. CASE t[1] \notin done
    <3>1. PICK k \in 1..m : active[k] = t[1] /\ t[2] >= 1 /\ t[2] < next[k + 1]
      BY <1>2, <1>10, <1>11, <2>2 DEF Used
    <3>2. k # m
      BY <1>5, <1>10, <2>2, <3>1
    <3>3. k \in 1..(m - 1) /\ k + 1 \in 1..m
      BY <1>3, <3>1, <3>2
    <3>4. a[k] = t[1] /\ t[2] >= 1 /\ t[2] < x[k + 1]
      BY <1>8, <1>9, <3>1, <3>3
    <3> QED
      BY <1>8, <1>12, <1>13, <3>3, <3>4 DEF Used
  <2> QED
    BY <2>1, <2>2
<1>15. PICK e : e = <<n, 0>>
  OBVIOUS
<1>16. e \in Ticks(g) /\ e[1] = n /\ e[2] = 0
  <2>1. Len(g[n]) \in Nat
    BY <1>5 DEF Graph
  <2>2. 0 \in 0..Len(g[n])
    BY <2>1
  <2> QED
    BY <1>5, <1>15, <2>2, TicksAre
<1>17. e \in V /\ e \notin U
  BY <1>5, <1>10, <1>11, <1>12, <1>16 DEF Used
<1>18. /\ Cardinality(U) \in Nat /\ Cardinality(V) \in Nat
       /\ Cardinality(V) >= Cardinality(U) + 1
  BY <1>13, <1>14, <1>17, TicksAre, OneMore
<1>19. x[1] = next[1] /\ next[1] \in Nat
  BY <1>1, <1>3, <1>9
<1>20. (x[1] - 1) + Cardinality(V) >= (next[1] - 1) + Cardinality(U) + 1
  BY <1>18, <1>19
<1> QED
  BY <1>4, <1>6, <1>7, <1>10, <1>11, <1>12, <1>20

-----------------------------------------------------------------------------
(* What the search has found when it has ended.                            *)
LEMMA FoundIs ==
    ASSUME NEW active, NEW next, NEW visited, NEW ordered, NEW raised,
           NEW st, st = Found(active, next, visited, ordered, raised)
    PROVE  /\ st.active = active /\ st.next = next /\ st.visited = visited
           /\ st.ordered = ordered /\ st.raised = raised
           /\ st = [active |-> st.active, next |-> st.next, visited |-> st.visited,
                    ordered |-> st.ordered, raised |-> st.raised]
  BY DEF Found

(* A step keeps the invariant, and spends a tick unless it is the end.     *)
LEMMA SearchMoves ==
    ASSUME NEW N, NEW g, NEW names, Graph(N, g, names), NEW st, SearchInv(N, g, names, st)
    PROVE  /\ SearchInv(N, g, names, Step(g, names, st))
           /\ Over(names, st) => Step(g, names, st) = st
           /\ ~Over(names, st) =>
                /\ Spent(g, st) < Steps(g, names)
                /\ \/ Over(names, Step(g, names, st))
                   \/ Spent(g, Step(g, names, st)) >= Spent(g, st) + 1
<1>1. CASE st.raised # "none"
  BY <1>1, RaisedStays DEF SearchInv, Over
<1>2. CASE st.raised = "none"
  <2> DEFINE active == st.active
             next == st.next
             visited == st.visited
             ordered == st.ordered
             K == Len(next)
             loop == Loop(g, names, active, K)
             n == loop[next[K]]
             new == Step(g, names, st)
  <2>1. /\ st = Found(active, next, visited, ordered, "none")
        /\ Going(N, g, names, st)
    BY <1>2 DEF SearchInv, Found
  <2>2. /\ Under(N, g, names, active, next, visited)
        /\ Listing(N, g, visited, ordered)
        /\ Wanted(g, names, active, visited)
    BY <2>1 DEF Going
  <2>3. /\ Len(active) \in Nat /\ K = Len(active) + 1 /\ next[K] \in Nat /\ next[K] >= 1
        /\ loop \in Seq(N) /\ Len(loop) \in Nat
        /\ loop = (IF K = 1 THEN names ELSE g[Last(active)])
    <3> HIDE DEF active, next, visited, ordered
    <3>1. PICK k : k = K
      OBVIOUS
    <3>2. /\ Len(active) \in Nat /\ k = Len(active) + 1 /\ next[k] \in Nat /\ next[k] >= 1
          /\ Loop(g, names, active, k) \in Seq(N)
          /\ Loop(g, names, active, k) = (IF k = 1 THEN names ELSE g[Last(active)])
      <4> HIDE DEF K
      <4>1. k = Len(next)
        BY <3>1 DEF K
      <4> QED
        BY <2>2, <4>1, InnermostLoop
    <3> HIDE DEF K
    <3>3. loop = Loop(g, names, active, k)
      BY <3>1
    <3> QED
      BY <3>1, <3>2, <3>3
  <2>4. new = Moved(g, active, next, visited, ordered, K, loop, n)
    <3>1. PICK k, l, c : /\ k = Len(next) /\ l = (IF k = 1 THEN names ELSE g[Last(active)])
                         /\ c = l[next[k]]
      OBVIOUS
    <3>2. k = K /\ l = loop
      BY <2>3, <3>1
    <3>3. c = n
      BY <3>1, <3>2
    <3>4. new = Step(g, names, Found(active, next, visited, ordered, "none"))
      BY <2>1
    <3> HIDE DEF active, next, visited, ordered, loop, n, K, new
    <3>5. Step(g, names, Found(active, next, visited, ordered, "none")) =
            Moved(g, active, next, visited, ordered, k, l, c)
      BY <3>1, StepIs
    <3> QED
      BY <3>2, <3>3, <3>4, <3>5
  <2>5. Spent(g, st) = (next[1] - 1) + Cardinality(Used(g, active, next, visited))
    BY DEF Spent
  <2>6. CASE next[K] > Len(loop) /\ K = 1
    <3>1. Over(names, st) /\ new = st
      BY <2>1, <2>3, <2>4, <2>6 DEF Moved, Over
    <3> QED
      BY <1>2, <3>1
  <2>7. K # 1 => ~Over(names, st)
    BY <1>2 DEF Over
  <2>8. next[K] <= Len(loop) => ~Over(names, st)
    BY <1>2, <2>3 DEF Over
  <2>9. Spent(g, st) \in Nat /\ Spent(g, st) <= Steps(g, names)
    BY <2>1, SpentIsBounded
  <2>10. ASSUME Going(N, g, names, new), Spent(g, new) >= Spent(g, st) + 1
         PROVE  Spent(g, st) < Steps(g, names)
    <3>1. Spent(g, new) \in Nat /\ Spent(g, new) <= Steps(g, names)
      BY <2>10, SpentIsBounded
    <3>2. Steps(g, names) \in Nat
      BY TicksAre, FS_CardinalityType DEF Steps, Graph
    <3> HIDE DEF new
    <3> QED
      BY <2>9, <2>10, <3>1, <3>2
  <2>11. CASE next[K] > Len(loop) /\ K # 1
    <3> DEFINE a == Front(active)
               x == Front(next)
               v == visited \union {Last(active)}
               o == Append(ordered, Last(active))
    <3>1. new = Found(a, x, v, o, "none")
      BY <2>4, <2>11 DEF Moved
    <3>2. Under(N, g, names, a, x, v)
      BY <2>2, <2>11, ReturnKeeps
    <3>3. Listing(N, g, v, o)
      BY <2>2, <2>11, ReturnIsListed
    <3>4. Wanted(g, names, a, v)
      BY <2>2, <2>11, ReturnIsWanted
    <3>5. (x[1] - 1) + Cardinality(Used(g, a, x, v)) >= Spent(g, st) + 1
      BY <2>2, <2>5, <2>11, ReturnSpends
    <3> HIDE DEF a, x, v, o, new, active, next, visited, ordered
    <3>6. /\ new.active = a /\ new.next = x /\ new.visited = v /\ new.ordered = o
          /\ new.raised = "none"
          /\ new = [active |-> new.active, next |-> new.next, visited |-> new.visited,
                    ordered |-> new.ordered, raised |-> new.raised]
      BY <3>1, FoundIs
    <3>7. Going(N, g, names, new) /\ Spent(g, new) >= Spent(g, st) + 1
      BY <3>2, <3>3, <3>4, <3>5, <3>6 DEF Going, Spent
    <3>8. SearchInv(N, g, names, new)
      BY <3>6, <3>7 DEF SearchInv
    <3> QED
      BY <2>7, <2>10, <2>11, <3>7, <3>8 DEF new
  <2>12. CASE next[K] <= Len(loop) /\ n \in visited
    <3> DEFINE x == [next EXCEPT ![K] = @ + 1]
    <3>1. new = Found(active, x, visited, ordered, "none")
      BY <2>3, <2>4, <2>12 DEF Moved
    <3>2. Under(N, g, names, active, x, visited)
      BY <2>2, <2>12, SkipKeeps
    <3>3. x[K] = next[K] + 1 /\ \A k \in 1..K : k # K => x[k] = next[k]
      <4>1. DOMAIN next = 1..K /\ K \in 1..K
        BY <2>2, <2>3 DEF Under
      <4> QED
        BY <4>1
    <3>4. (x[1] - 1) + Cardinality(Used(g, active, x, visited)) >= Spent(g, st) + 1
      <4>1. /\ Len(active) >= Len(active) /\ \A k \in 1..Len(active) : active[k] = active[k]
            /\ \A k \in 1..Len(active) : k > Len(active) => x[k + 1] = 1
        BY <2>3
      <4> HIDE DEF x, active, next, visited, ordered
      <4> QED
        BY <2>2, <2>5, <2>12, <3>2, <3>3, <4>1, GoingOnSpends
    <3> HIDE DEF x, new, active, next, visited, ordered
    <3>5. /\ new.active = active /\ new.next = x /\ new.visited = visited /\ new.ordered = ordered
          /\ new.raised = "none"
          /\ new = [active |-> new.active, next |-> new.next, visited |-> new.visited,
                    ordered |-> new.ordered, raised |-> new.raised]
      BY <3>1, FoundIs
    <3>6. Going(N, g, names, new) /\ Spent(g, new) >= Spent(g, st) + 1
      BY <2>2, <3>2, <3>4, <3>5 DEF Going, Spent
    <3>7. SearchInv(N, g, names, new)
      BY <3>5, <3>6 DEF SearchInv
    <3> QED
      BY <2>8, <2>10, <2>12, <3>6, <3>7 DEF new
  <2>13. CASE next[K] <= Len(loop) /\ n \notin visited /\ n \in DOMAIN g /\ n \notin Range(active)
    <3> DEFINE past == [next EXCEPT ![K] = @ + 1]
               x == Append(past, 1)
               a == Append(active, n)
    <3>1. new = Found(a, x, visited, ordered, "none")
      BY <2>3, <2>4, <2>13 DEF Moved
    <3>2. Under(N, g, names, a, x, visited)
      BY <2>2, <2>13, EnterKeeps
    <3>3. Wanted(g, names, a, visited)
      BY <2>2, <2>13, EnterIsWanted
    <3>4. /\ x[K] = next[K] + 1 /\ x[K + 1] = 1 /\ \A k \in 1..K : k # K => x[k] = next[k]
      <4>1. DOMAIN next = 1..K /\ K \in 1..K /\ next \in Seq(Nat)
        BY <2>2, <2>3 DEF Under
      <4>2. past \in Seq(Nat) /\ Len(past) = K /\ past[K] = next[K] + 1
            /\ \A k \in 1..K : k # K => past[k] = next[k]
        <5>1. past \in [1..K -> Nat]
          BY <2>3, <4>1
        <5> QED
          BY <2>3, <4>1, <5>1
      <4>3. PICK p, q : p = past /\ q = Append(p, 1)
        OBVIOUS
      <4>4. /\ p \in Seq(Nat) /\ Len(p) = K /\ p[K] = next[K] + 1
            /\ \A k \in 1..K : k # K => p[k] = next[k]
        BY <4>2, <4>3
      <4>5. x = q
        BY <4>3
      <4> HIDE DEF past, K, x, next, active
      <4>6. /\ q[K] = p[K] /\ q[K + 1] = 1 /\ \A k \in 1..K : q[k] = p[k]
        BY <2>3, <4>3, <4>4
      <4> QED
        BY <4>4, <4>5, <4>6
    <3>5. /\ Len(a) = K /\ \A k \in 1..Len(active) : a[k] = active[k]
      <4>1. active \in Seq(DOMAIN g)
        BY <2>2 DEF Under
      <4> QED
        BY <2>3, <2>13, <4>1
    <3>6. (x[1] - 1) + Cardinality(Used(g, a, x, visited)) >= Spent(g, st) + 1
      <4>1. /\ Len(a) >= Len(active)
            /\ \A k \in 1..Len(a) : k > Len(active) => x[k + 1] = 1
        <5> HIDE DEF a, x
        <5>1. \A k \in 1..Len(a) : k > Len(active) => k = K
          BY <2>3, <3>5
        <5> QED
          BY <2>3, <3>4, <3>5, <5>1
      <4> HIDE DEF x, a, active, next, visited, ordered
      <4> QED
        BY <2>2, <2>5, <2>13, <3>2, <3>4, <3>5, <4>1, GoingOnSpends
    <3> HIDE DEF a, x, new, active, next, visited, ordered
    <3>7. /\ new.active = a /\ new.next = x /\ new.visited = visited /\ new.ordered = ordered
          /\ new.raised = "none"
          /\ new = [active |-> new.active, next |-> new.next, visited |-> new.visited,
                    ordered |-> new.ordered, raised |-> new.raised]
      BY <3>1, FoundIs
    <3>8. Going(N, g, names, new) /\ Spent(g, new) >= Spent(g, st) + 1
      BY <2>2, <3>2, <3>3, <3>6, <3>7 DEF Going, Spent
    <3>9. SearchInv(N, g, names, new)
      BY <3>7, <3>8 DEF SearchInv
    <3> QED
      BY <2>8, <2>10, <2>13, <3>8, <3>9 DEF new
  <2>14. CASE next[K] <= Len(loop) /\ n \notin visited /\ (n \in Range(active) \/ n \notin DOMAIN g)
    <3>1. Spent(g, st) < Steps(g, names)
      <4>1. PICK U : U = Used(g, active, next, visited)
        OBVIOUS
      <4>2. /\ IsFiniteSet(Ticks(g)) /\ U \subseteq Ticks(g)
            /\ Cardinality(U) \in Nat /\ Cardinality(Ticks(g)) \in Nat
            /\ Cardinality(U) <= Cardinality(Ticks(g))
        BY <4>1, TicksAre, FS_Subset, FS_CardinalityType DEF Used
      <4>3. 1 \in 1..Len(next) /\ next \in Seq(Nat) /\ Loop(g, names, active, 1) = names
            /\ Len(names) \in Nat
        BY <2>2 DEF Under, Loop, Graph
      <4>4. next[1] \in Nat /\ next[1] <= Len(names) + 1
        BY <2>2, <4>3 DEF Under
      <4> HIDE DEF active, next, visited, ordered
      <4>5. CASE K = 1
        <5>1. next[1] <= Len(names)
          BY <2>14, <4>3, <4>5
        <5> QED
          BY <2>5, <4>1, <4>2, <4>3, <4>4, <5>1 DEF Steps
      <4>6. CASE K # 1
        <5>1. PICK e \in Ticks(g) : e \notin U
          BY <2>2, <2>14, <4>1, <4>6, RoomLeft
        <5>2. Cardinality(Ticks(g)) >= Cardinality(U) + 1
          BY <4>2, <5>1, OneMore
        <5> QED
          BY <2>5, <4>1, <4>2, <4>3, <4>4, <5>2 DEF Steps
      <4> QED
        BY <4>5, <4>6
    <3>2. \A C : ClosedIn(g, names, C) =>
            /\ n \in C
            /\ \A rank : RankedBy(g, C, rank) => \A i \in 1..Len(active) : rank[n] < rank[active[i]]
      BY <2>2, <2>14, NextIsWanted
    <3>3. CASE n \in Range(active)
      <4>1. new = Found(active, next, visited, ordered, "cycle")
        BY <2>3, <2>4, <2>14, <3>3 DEF Moved
      <4>2. PICK i \in 1..Len(active) : n = active[i]
        <5>1. active \in Seq(DOMAIN g)
          BY <2>2 DEF Under
        <5> QED
          BY <3>3, <5>1 DEF Range
      <4>3. Circular(g, names)
        <5> SUFFICES ASSUME NEW C, NEW rank, ClosedIn(g, names, C), RankedBy(g, C, rank)
                     PROVE  FALSE
          BY DEF Circular
        <5>1. rank[n] < rank[n] /\ rank[n] \in Nat
          <6>1. n \in C /\ rank[n] < rank[active[i]]
            BY <3>2, <4>2
          <6> QED
            BY <4>2, <6>1 DEF RankedBy
        <5> HIDE DEF n
        <5> QED
          BY <5>1
      <4> HIDE DEF new, active, next, visited, ordered
      <4>4. /\ new.raised = "cycle"
            /\ new = [active |-> new.active, next |-> new.next, visited |-> new.visited,
                      ordered |-> new.ordered, raised |-> new.raised]
        BY <4>1, FoundIs
      <4> QED
        BY <2>8, <2>14, <3>1, <4>3, <4>4 DEF SearchInv, Over, new
    <3>4. CASE n \notin Range(active) /\ n \notin DOMAIN g
      <4>1. new = Found(active, next, visited, ordered, "missing")
        BY <2>3, <2>4, <2>14, <3>4 DEF Moved
      <4>2. Missing(g, names)
        BY <3>2, <3>4 DEF Missing
      <4> HIDE DEF new, active, next, visited, ordered
      <4>3. /\ new.raised = "missing"
            /\ new = [active |-> new.active, next |-> new.next, visited |-> new.visited,
                      ordered |-> new.ordered, raised |-> new.raised]
        BY <4>1, FoundIs
      <4> QED
        BY <2>8, <2>14, <3>1, <4>2, <4>3 DEF SearchInv, Over, new
    <3> QED
      BY <2>14, <3>3, <3>4
  <2>15. next[K] > Len(loop) \/ next[K] <= Len(loop)
    BY <2>3
  <2> QED
    BY <2>6, <2>11, <2>12, <2>13, <2>14, <2>15
<1> QED
  BY <1>1, <1>2

(* A set of numbers that is not empty has a least one.                     *)
LEMMA Least ==
    ASSUME NEW T \in SUBSET Nat, T # {}
    PROVE  \E x \in T : \A y \in T : x <= y
<1> DEFINE R == {ss \in Nat \X Nat : ss[1] < ss[2]}
<1>1. IsWellFoundedOn(R, Nat)
  BY NatLessThanWellFounded DEF OpToRel
<1> HIDE DEF R
<1>2. PICK x \in T : \A y \in T : ~ (<<y, x>> \in R)
  BY <1>1, WFMin
<1>3. \A y \in T : ~ (y < x)
  BY <1>2 DEF R
<1> QED
  BY <1>3

(* The search's recursion has a solution, whatever its bound.              *)
Runs(g, names, m, f) ==
    f = [k \in 0..m |-> IF k = 0 THEN Start ELSE Step(g, names, f[k - 1])]

(* A search of any number of steps is a function; the next one extends it. *)
LEMMA RunExists ==
    ASSUME NEW g, NEW names, NEW m \in Nat
    PROVE  \E f : Runs(g, names, m, f)
<1>1. PICK T : T = {k \in Nat : ~ \E f : Runs(g, names, k, f)}
  OBVIOUS
<1>2. ASSUME T # {} PROVE FALSE
  <2>1. PICK x \in T : \A y \in T : x <= y
    BY <1>1, <1>2, Least
  <2>2. x \in Nat /\ ~ \E f : Runs(g, names, x, f)
    BY <1>1
  <2>3. CASE x = 0
    <3>1. PICK f : f = [k \in 0..0 |-> Start]
      OBVIOUS
    <3>2. \A k \in 0..0 : k = 0
      OBVIOUS
    <3>3. Runs(g, names, 0, f)
      BY <3>1, <3>2 DEF Runs
    <3> QED
      BY <2>2, <2>3, <3>3
  <2>4. CASE x # 0
    <3>1. x - 1 \in Nat /\ ~(x <= x - 1)
      BY <2>2, <2>4
    <3>2. PICK f : Runs(g, names, x - 1, f)
      BY <1>1, <2>1, <3>1
    <3>3. /\ DOMAIN f = 0..(x - 1)
          /\ \A k \in 0..(x - 1) : f[k] = IF k = 0 THEN Start ELSE Step(g, names, f[k - 1])
      BY <3>2 DEF Runs
    <3>4. PICK h : h = [k \in 0..x |-> IF k = x THEN Step(g, names, f[x - 1]) ELSE f[k]]
      OBVIOUS
    <3>5. ASSUME NEW k \in 0..x
          PROVE  h[k] = IF k = 0 THEN Start ELSE Step(g, names, h[k - 1])
      <4>1. CASE k = x
        <5>1. k - 1 \in 0..x /\ k - 1 # x /\ k # 0
          BY <2>2, <2>4, <4>1
        <5>2. h[k - 1] = f[x - 1]
          BY <3>4, <4>1, <5>1
        <5>3. h[k] = Step(g, names, f[x - 1])
          BY <3>4, <4>1
        <5> QED
          BY <5>1, <5>2, <5>3
      <4>2. CASE k # x
        <5>1. k \in 0..(x - 1) /\ h[k] = f[k]
          BY <2>2, <3>4, <4>2
        <5>2. CASE k = 0
          BY <3>3, <5>1, <5>2
        <5>3. CASE k # 0
          <6>1. k - 1 \in 0..x /\ k - 1 # x
            BY <2>2, <5>1, <5>3
          <6>2. h[k - 1] = f[k - 1]
            BY <3>4, <6>1
          <6> QED
            BY <3>3, <5>1, <5>3, <6>2
        <5> QED
          BY <5>2, <5>3
      <4> QED
        BY <4>1, <4>2
    <3>6. Runs(g, names, x, h)
      BY <3>4, <3>5 DEF Runs
    <3> QED
      BY <2>2, <3>6
  <2> QED
    BY <2>3, <2>4
<1> QED
  BY <1>1, <1>2

LEMMA SearchRuns ==
    ASSUME NEW g, NEW names, Steps(g, names) \in Nat
    PROVE  /\ Search(g, names)[0] = Start
           /\ \A k \in 1..Steps(g, names) :
                 Search(g, names)[k] = Step(g, names, Search(g, names)[k - 1])
<1>1. PICK m : m = Steps(g, names)
  OBVIOUS
<1>2. Search(g, names) =
        CHOOSE f : f = [k \in 0..m |-> IF k = 0 THEN Start ELSE Step(g, names, f[k - 1])]
  BY <1>1 DEF Search
<1>3. Runs(g, names, m, Search(g, names))
  <2>1. Search(g, names) = CHOOSE f : Runs(g, names, m, f)
    BY <1>2, Zenon DEF Runs
  <2>2. \E f : Runs(g, names, m, f)
    BY <1>1, RunExists
  <2> QED
    BY <2>1, <2>2, Zenon
<1>4. PICK run : run = Search(g, names)
  OBVIOUS
<1>5. \A k \in 0..m : run[k] = IF k = 0 THEN Start ELSE Step(g, names, run[k - 1])
  BY <1>3, <1>4 DEF Runs
<1>6. run[0] = Start
  BY <1>1, <1>5
<1>7. \A k \in 1..m : run[k] = Step(g, names, run[k - 1])
  BY <1>1, <1>5
<1> QED
  BY <1>1, <1>4, <1>6, <1>7

(* The search ends within its steps.                                       *)
LEMMA SearchEnds ==
    ASSUME NEW N, NEW g, NEW names, Graph(N, g, names)
    PROVE  /\ SearchInv(N, g, names, ResolveOrder(g, names))
           /\ Over(names, ResolveOrder(g, names))
<1>1. PICK m : m = Steps(g, names)
  OBVIOUS
<1>2. m \in Nat
  BY <1>1, TicksAre, FS_CardinalityType DEF Steps, Graph
<1>3. PICK run : run = Search(g, names)
  OBVIOUS
<1>4. run[0] = Start /\ \A k \in 1..m : run[k] = Step(g, names, run[k - 1])
  BY <1>1, <1>2, <1>3, SearchRuns
<1> DEFINE Fine(k) == /\ SearchInv(N, g, names, run[k])
                      /\ Over(names, run[k]) \/ (Spent(g, run[k]) \in Nat /\ Spent(g, run[k]) >= k)
<1>5. Fine(0)
  <2>1. SearchInv(N, g, names, Start) /\ Start.raised = "none"
    BY SearchStarts DEF Start
  <2>2. Spent(g, Start) \in Nat
    BY <2>1, SpentIsBounded DEF SearchInv
  <2> QED
    BY <1>4, <2>1, <2>2
<1>6. ASSUME NEW k \in 1..m, Fine(k - 1) PROVE Fine(k)
  <2>1. PICK st : st = run[k - 1]
    OBVIOUS
  <2>2. PICK new : new = Step(g, names, st)
    OBVIOUS
  <2>3. new = run[k]
    BY <1>4, <2>1, <2>2
  <2>4. /\ SearchInv(N, g, names, st)
        /\ Over(names, st) \/ (Spent(g, st) \in Nat /\ Spent(g, st) >= k - 1)
    BY <1>6, <2>1
  <2>5. /\ SearchInv(N, g, names, new)
        /\ Over(names, st) => new = st
        /\ ~Over(names, st) => Over(names, new) \/ Spent(g, new) >= Spent(g, st) + 1
    BY <2>2, <2>4, SearchMoves
  <2>6. ~Over(names, new) => Spent(g, new) \in Nat
    BY <2>5, SpentIsBounded DEF SearchInv, Over
  <2>7. Over(names, new) \/ (Spent(g, new) \in Nat /\ Spent(g, new) >= k)
    BY <1>2, <2>4, <2>5, <2>6
  <2> QED
    BY <2>3, <2>5, <2>7
<1>7. \A k \in 0..m : Fine(k)
  <2>1. PICK T : T = {k \in 0..m : ~Fine(k)}
    OBVIOUS
  <2>2. ASSUME T # {} PROVE FALSE
    <3>1. T \in SUBSET Nat
      BY <1>2, <2>1
    <3>2. PICK x \in T : \A y \in T : x <= y
      BY <2>2, <3>1, Least
    <3>3. x \in 0..m /\ ~Fine(x)
      BY <2>1
    <3>4. x # 0
      BY <1>5, <3>3
    <3>5. x \in 1..m /\ x - 1 \in 0..m /\ ~(x <= x - 1)
      BY <1>2, <3>3, <3>4
    <3>6. Fine(x - 1)
      <4> HIDE DEF Fine
      <4> QED
        BY <2>1, <3>2, <3>5
    <3> HIDE DEF Fine
    <3> QED
      BY <1>6, <3>3, <3>5, <3>6
  <2> HIDE DEF Fine
  <2> QED
    BY <2>1, <2>2
<1>8. PICK last : last = run[m]
  OBVIOUS
<1>9. SearchInv(N, g, names, last) /\ (Over(names, last) \/ Spent(g, last) >= m)
  BY <1>2, <1>7, <1>8
<1>10. Over(names, last)
  <2>1. ~Over(names, last) => Spent(g, last) < m /\ Spent(g, last) \in Nat
    BY <1>1, <1>9, SearchMoves, SpentIsBounded DEF SearchInv, Over
  <2> QED
    BY <1>2, <1>9, <2>1
<1> QED
  BY <1>1, <1>3, <1>8, <1>9, <1>10 DEF ResolveOrder

-----------------------------------------------------------------------------
(* Needed is the least closed set of services.                             *)
LEMMA NeededIsLeast ==
    ASSUME Typed, NEW g, DOMAIN g = Registered, \A n \in Registered : Range(g[n]) = deps[n],
           NEW names, Range(names) \subseteq Service
    PROVE  /\ ClosedIn(g, names, Needed(Range(names)))
           /\ \A C \in SUBSET Service : ClosedIn(g, names, C) => Needed(Range(names)) \subseteq C
<1> DEFINE closed(C) == /\ Range(names) \subseteq C
                        /\ \A s \in C \intersect Registered : deps[s] \subseteq C
<1>1. Needed(Range(names)) = {d \in Service : \A C \in SUBSET Service : closed(C) => d \in C}
  BY DEF Needed
<1>2. PICK M : M = Needed(Range(names))
  OBVIOUS
<1>3. \A C : closed(C) <=> ClosedIn(g, names, C)
  BY DEF ClosedIn
<1>4. Range(names) \subseteq M
  BY <1>1, <1>2
<1>5. ASSUME NEW n \in M \intersect Registered, NEW d \in deps[n] PROVE d \in M
  <2>1. d \in Service
    BY <1>5 DEF Typed
  <2>2. ASSUME NEW C \in SUBSET Service, closed(C) PROVE d \in C
    <3>1. n \in C
      BY <1>1, <1>2, <1>5, <2>2
    <3> QED
      BY <1>5, <2>2, <3>1
  <2> HIDE DEF closed
  <2> QED
    BY <1>1, <1>2, <2>1, <2>2
<1>6. closed(M)
  BY <1>4, <1>5
<1>7. \A C \in SUBSET Service : closed(C) => M \subseteq C
  <2> HIDE DEF closed
  <2> QED
    BY <1>1, <1>2
<1> HIDE DEF closed
<1> QED
  BY <1>2, <1>3, <1>6, <1>7

(* A search that has come to its end without raising has listed, in order, *)
(* a closed set.                                                           *)
LEMMA EndedIsClosed ==
    ASSUME NEW N, NEW g, NEW names, Graph(N, g, names),
           NEW st, Going(N, g, names, st), Over(names, st), st.raised = "none"
    PROVE  /\ Listing(N, g, st.visited, st.ordered)
           /\ st.visited \subseteq DOMAIN g
           /\ ClosedIn(g, names, st.visited)
           /\ \A C : ClosedIn(g, names, C) => st.visited \subseteq C
<1>1. /\ Under(N, g, names, st.active, st.next, st.visited)
      /\ Listing(N, g, st.visited, st.ordered)
      /\ Wanted(g, names, st.active, st.visited)
  BY DEF Going
<1>2. Len(st.next) = 1 /\ st.next[1] > Len(names)
  BY DEF Over
<1>3. /\ Len(st.active) \in Nat /\ Loop(g, names, st.active, 1) = names /\ st.next[1] \in Nat
      /\ \A i \in 1..(st.next[1] - 1) : Loop(g, names, st.active, 1)[i] \in st.visited
  <2>1. PICK K : K = Len(st.next)
    OBVIOUS
  <2>2. /\ Len(st.active) \in Nat /\ st.next[K] \in Nat
        /\ \A i \in 1..(st.next[K] - 1) : Loop(g, names, st.active, K)[i] \in st.visited
    BY <1>1, <2>1, InnermostLoop
  <2> QED
    BY <1>2, <2>1, <2>2 DEF Loop
<1>4. ASSUME NEW n \in Range(names) PROVE n \in st.visited
  <2>1. names \in Seq(N)
    BY DEF Graph
  <2>2. PICK i \in 1..Len(names) : n = names[i]
    BY <2>1 DEF Range
  <2>3. i \in 1..(st.next[1] - 1)
    BY <1>2, <1>3, <2>1
  <2> QED
    BY <1>3, <2>2, <2>3
<1>5. ASSUME NEW n \in st.visited, NEW d \in Range(g[n]) PROVE d \in st.visited
  <2>1. PICK j \in 1..Len(st.ordered) : st.ordered[j] = n
    BY <1>1 DEF Listing
  <2>2. PICK i \in 1..(j - 1) : st.ordered[i] = d
    BY <1>1, <1>5, <2>1 DEF Listing
  <2>3. i \in 1..Len(st.ordered)
    <3>1. Len(st.ordered) \in Nat
      BY <1>1 DEF Listing
    <3> QED
      BY <2>1, <2>2, <3>1
  <2> QED
    BY <1>1, <2>2, <2>3 DEF Listing
<1>6. st.visited \subseteq DOMAIN g
  BY <1>1 DEF Under
<1>7. \A C : ClosedIn(g, names, C) => st.visited \subseteq C
  BY <1>1 DEF Wanted
<1>8. ClosedIn(g, names, st.visited)
  BY <1>4, <1>5 DEF ClosedIn
<1> QED
  BY <1>1, <1>6, <1>7, <1>8

(* A listing of a set has the form of the sequences of its members.        *)
LEMMA ListingIsSequence ==
    ASSUME NEW N, NEW g, NEW visited, NEW ordered, Listing(N, g, visited, ordered)
    PROVE  ordered \in SetToSeqs(visited)
<1>1. /\ ordered \in Seq(N) /\ Len(ordered) = Cardinality(visited)
      /\ \A i \in 1..Len(ordered) : ordered[i] \in visited
      /\ \A i, j \in 1..Len(ordered) : i # j => ordered[i] # ordered[j]
  BY DEF Listing
<1>2. ordered \in [1..Len(ordered) -> visited]
  BY <1>1
<1> QED
  BY <1>1, <1>2 DEF SetToSeqs

(* _resolve_order_locked returns an order of what is needed, or raises     *)
(* when there is none, of whatever is asked for.                           *)
LEMMA OrderIsFound ==
    ASSUME Typed, NEW g, g \in [Registered -> Seq(Service)],
           \A n \in Registered : Range(g[n]) = deps[n],
           NEW names \in Seq(Service)
    PROVE  LET found == ResolveOrder(g, names)
               orders == Orders(Needed(Range(names)))
           IN  IF found.raised = "none" THEN found.ordered \in orders ELSE orders = {}
<1>1. IsFiniteSet(Service) /\ IsFiniteSet(Registered) /\ DOMAIN g = Registered
  BY ManagerAssumption, FS_Subset DEF Typed
<1>2. Graph(Service, g, names)
  BY <1>1 DEF Graph, Typed
<1>3. PICK st : st = ResolveOrder(g, names)
  OBVIOUS
<1>4. SearchInv(Service, g, names, st) /\ Over(names, st)
  BY <1>2, <1>3, SearchEnds
<1>5. Range(names) \subseteq Service
  BY DEF Range
<1>6. PICK M : M = Needed(Range(names))
  OBVIOUS
<1>7. /\ ClosedIn(g, names, M) /\ M \subseteq Service
      /\ \A C \in SUBSET Service : ClosedIn(g, names, C) => M \subseteq C
  BY <1>1, <1>5, <1>6, NeededIsLeast DEF Needed
<1>8. CASE st.raised = "none"
  <2>1. Going(Service, g, names, st)
    BY <1>4, <1>8 DEF SearchInv
  <2>2. /\ Listing(Service, g, st.visited, st.ordered)
        /\ st.visited \subseteq Registered
        /\ ClosedIn(g, names, st.visited)
        /\ st.visited \subseteq M
    BY <1>1, <1>2, <1>4, <1>7, <1>8, <2>1, EndedIsClosed
  <2>3. st.visited = M
    BY <1>7, <2>2 DEF Typed
  <2>4. st.ordered \in SetToSeqs(M)
    BY <2>2, <2>3, ListingIsSequence
  <2>5. ASSUME NEW j \in DOMAIN st.ordered, NEW d \in deps[st.ordered[j]]
        PROVE  \E i \in 1..(j - 1) : st.ordered[i] = d
    <3>1. j \in 1..Len(st.ordered)
      <4>1. st.ordered \in Seq(Service)
        BY <2>2 DEF Listing
      <4> QED
        BY <4>1
    <3>2. st.ordered[j] \in Registered
      BY <2>2, <3>1 DEF Listing
    <3>3. d \in Range(g[st.ordered[j]])
      BY <2>5, <3>2
    <3> QED
      BY <2>2, <3>1, <3>3 DEF Listing
  <2>6. st.ordered \in Orders(M)
    BY <2>2, <2>3, <2>4, <2>5 DEF Orders
  <2> QED
    BY <1>3, <1>6, <1>8, <2>6
<1>9. CASE st.raised = "missing"
  <2>1. PICK n : n \notin Registered /\ n \in M
    BY <1>1, <1>4, <1>7, <1>9 DEF SearchInv, Missing
  <2>2. Orders(M) = {}
    BY <2>1 DEF Orders
  <2> QED
    BY <1>3, <1>6, <1>9, <2>2
<1>10. CASE st.raised = "cycle"
  <2>1. ASSUME NEW o \in Orders(M) PROVE FALSE
    <3>1. IsFiniteSet(M)
      BY <1>1, <1>7, FS_Subset
    <3>2. /\ M \subseteq Registered /\ o \in Seq(M) /\ Range(o) = M /\ IsInjective(o)
          /\ \A j \in DOMAIN o : \A d \in deps[o[j]] : \E i \in DOMAIN o : i < j /\ o[i] = d
      BY <2>1, <3>1, OrderHasAll
    <3>3. DOMAIN o = 1..Len(o) /\ Len(o) \in Nat
      BY <3>2
    <3>4. PICK rank : rank = [n \in M |-> CHOOSE i \in DOMAIN o : o[i] = n]
      OBVIOUS
    <3>5. \A n \in M : rank[n] \in DOMAIN o /\ o[rank[n]] = n
      <4> TAKE n \in M
      <4>1. \E i \in DOMAIN o : o[i] = n
        BY <3>2 DEF Range
      <4>2. rank[n] = CHOOSE i \in DOMAIN o : o[i] = n
        BY <3>4
      <4> QED
        BY <4>1, <4>2
    <3>6. ASSUME NEW n \in M, NEW d \in Range(g[n]) PROVE rank[d] < rank[n]
      <4>1. d \in deps[n] /\ n \in Registered
        BY <3>2, <3>6
      <4>2. PICK i \in DOMAIN o : i < rank[n] /\ o[i] = d
        BY <3>2, <3>5, <4>1
      <4>3. d \in M
        BY <1>1, <1>7, <3>2, <3>6 DEF ClosedIn
      <4>4. rank[d] = i
        BY <3>2, <3>5, <4>2, <4>3 DEF IsInjective
      <4> QED
        BY <4>2, <4>4
    <3>7. RankedBy(g, M, rank)
      BY <3>3, <3>5, <3>6 DEF RankedBy
    <3> QED
      BY <1>4, <1>7, <1>10, <3>7 DEF SearchInv, Circular
  <2> QED
    BY <1>3, <1>6, <1>10, <2>1
<1> QED
  BY <1>4, <1>8, <1>9, <1>10 DEF SearchInv

(* What is written down of the graph the manager holds.                    *)
LEMMA WrittenIs ==
    ASSUME Typed, NEW g \in Written
    PROVE  g \in [Registered -> Seq(Service)] /\ \A n \in Registered : Range(g[n]) = deps[n]
<1>1. DOMAIN g = Registered /\ g = [n \in Registered |-> g[n]]
      /\ \A n \in Registered : g[n] \in SetToSeqs(deps[n])
  BY DEF Written
<1>2. ASSUME NEW n \in Registered PROVE g[n] \in Seq(Service) /\ Range(g[n]) = deps[n]
  <2>1. deps[n] \subseteq Service
    BY DEF Typed
  <2>2. IsFiniteSet(deps[n])
    BY <2>1, ManagerAssumption, FS_Subset
  <2>3. g[n] \in Seq(deps[n]) /\ Range(g[n]) = deps[n]
    BY <1>1, <2>2, SequenceHasAll
  <2> QED
    BY <2>1, <2>3
<1> QED
  BY <1>1, <1>2

(* What the manager asks for is a sequence of registered services.         *)
LEMMA RootsAre ==
    ASSUME Typed, NEW names \in Roots
    PROVE  names \in Seq(Service)
<1>1. IsFiniteSet(Registered)
  BY ManagerAssumption, FS_Subset DEF Typed
<1>2. CASE names \in SetToSeqs(Registered)
  BY <1>1, <1>2, SequenceHasAll DEF Typed
<1>3. CASE \E n \in Registered : names = <<n>>
  BY <1>3 DEF Typed
<1> QED
  BY <1>2, <1>3 DEF Roots

(* _resolve_order_locked (service_manager.py:563) returns an order of      *)
(* exactly what was asked for and what that depends on, and raises exactly *)
(* when there is none.                                                     *)
THEOREM OrderAlwaysExact == Spec => []OrderExact
<1>1. DInv => OrderExact
  <2> SUFFICES ASSUME Typed, NEW g \in Written, NEW names \in Roots
               PROVE  LET found == ResolveOrder(g, names)
                          orders == Orders(Needed(Range(names)))
                      IN  IF found.raised = "none" THEN found.ordered \in orders
                          ELSE orders = {}
    BY DEF OrderExact, DInv
  <2> QED
    BY OrderIsFound, WrittenIs, RootsAre
<1> QED
  BY <1>1, DInvAlways, PTL

(* With what it does not name as leaves, a graph is closed and nothing is  *)
(* missing from it.                                                        *)
LEMMA LeavesAre ==
    ASSUME NEW N, NEW g, NEW names, Graph(N, g, names), IsFiniteSet(N),
           Range(names) \subseteq DOMAIN g
    PROVE  /\ Graph(N, WithLeaves(g), names)
           /\ DOMAIN g \subseteq DOMAIN WithLeaves(g)
           /\ \A n \in DOMAIN g : WithLeaves(g)[n] = g[n]
           /\ \A n \in DOMAIN WithLeaves(g) : n \notin DOMAIN g => WithLeaves(g)[n] = <<>>
           /\ ClosedIn(WithLeaves(g), names, DOMAIN WithLeaves(g))
<1>1. PICK w : w = WithLeaves(g)
  OBVIOUS
<1>2. /\ DOMAIN w = DOMAIN g \union UNION {Range(g[m]) : m \in DOMAIN g}
      /\ \A n \in DOMAIN g : w[n] = g[n]
      /\ \A n \in DOMAIN w : n \notin DOMAIN g => w[n] = <<>>
  BY <1>1 DEF WithLeaves
<1>3. ASSUME NEW n \in DOMAIN g PROVE Range(g[n]) \subseteq N /\ Range(g[n]) \subseteq DOMAIN w
  <2>1. g[n] \in Seq(N)
    BY DEF Graph
  <2> QED
    BY <1>2, <2>1 DEF Range
<1>4. DOMAIN w \subseteq N
  BY <1>2, <1>3 DEF Graph
<1>5. IsFiniteSet(DOMAIN w)
  BY <1>4, FS_Subset
<1>6. ASSUME NEW n \in DOMAIN w PROVE w[n] \in Seq(N) /\ Range(w[n]) \subseteq DOMAIN w
  <2>1. CASE n \in DOMAIN g
    BY <1>2, <1>3, <2>1 DEF Graph
  <2>2. CASE n \notin DOMAIN g
    <3>1. w[n] = <<>>
      BY <1>2, <2>2
    <3> QED
      BY <3>1 DEF Range
  <2> QED
    BY <2>1, <2>2
<1>7. Graph(N, w, names)
  BY <1>4, <1>5, <1>6 DEF Graph
<1>8. ClosedIn(w, names, DOMAIN w)
  BY <1>2, <1>6 DEF ClosedIn
<1> QED
  BY <1>1, <1>2, <1>7, <1>8

(* _validate_acyclic accepts exactly what can be ranked, whichever order   *)
(* it visits the tasks in.                                                 *)
LEMMA AcyclicIsFound ==
    ASSUME NEW N, NEW g, NEW names, Graph(N, g, names), IsFiniteSet(N),
           Range(names) = DOMAIN g
    PROVE  ValidateAcyclic(g, names) <=> Ranked(g, N)
<1>1. PICK w : w = WithLeaves(g)
  OBVIOUS
<1>2. /\ Graph(N, w, names) /\ DOMAIN g \subseteq DOMAIN w /\ \A n \in DOMAIN g : w[n] = g[n]
      /\ \A n \in DOMAIN w : n \notin DOMAIN g => w[n] = <<>>
      /\ ClosedIn(w, names, DOMAIN w)
  BY <1>1, LeavesAre
<1>3. PICK st : st = ResolveOrder(w, names)
  OBVIOUS
<1>4. SearchInv(N, w, names, st) /\ Over(names, st)
  BY <1>2, <1>3, SearchEnds
<1>5. ValidateAcyclic(g, names) <=> st.raised = "none"
  BY <1>1, <1>3 DEF ValidateAcyclic
<1>6. st.raised # "missing"
  BY <1>2, <1>4 DEF SearchInv, Missing
<1>7. ASSUME st.raised = "none" PROVE Ranked(g, N)
  <2>1. Going(N, w, names, st)
    BY <1>4, <1>7 DEF SearchInv
  <2>2. /\ Listing(N, w, st.visited, st.ordered) /\ st.visited \subseteq DOMAIN w
        /\ ClosedIn(w, names, st.visited)
    BY <1>2, <1>4, <1>7, <2>1, EndedIsClosed
  <2>3. PICK m, V, o : m = Len(st.ordered) /\ V = st.visited /\ o = st.ordered
    OBVIOUS
  <2>4. /\ o \in Seq(N) /\ m \in Nat /\ m = Cardinality(V)
        /\ \A n : n \in V <=> \E i \in 1..m : o[i] = n
        /\ \A i, j \in 1..m : i # j => o[i] # o[j]
        /\ \A j \in 1..m : \A d \in Range(w[o[j]]) : \E i \in 1..(j - 1) : o[i] = d
    BY <2>2, <2>3 DEF Listing
  <2>5. DOMAIN g \subseteq V /\ V \subseteq N
    BY <1>2, <2>2, <2>3 DEF ClosedIn, Graph
  <2>6. m <= Cardinality(N) /\ Cardinality(N) \in Nat
    BY <2>4, <2>5, FS_Subset, FS_CardinalityType
  <2>7. PICK rank : rank = [n \in N |-> IF n \in V THEN CHOOSE i \in 1..m : o[i] = n ELSE 0]
    OBVIOUS
  <2>8. \A n \in V : rank[n] \in 1..m /\ o[rank[n]] = n
    <3> TAKE n \in V
    <3>1. \E i \in 1..m : o[i] = n
      BY <2>4
    <3>2. rank[n] = CHOOSE i \in 1..m : o[i] = n
      BY <2>5, <2>7
    <3> QED
      BY <3>1, <3>2
  <2>9. rank \in [N -> 0..Cardinality(N)]
    <3>1. ASSUME NEW n \in N PROVE rank[n] \in 0..Cardinality(N)
      <4>1. CASE n \in V
        BY <2>4, <2>6, <2>8, <4>1
      <4>2. CASE n \notin V
        BY <2>6, <2>7, <4>2
      <4> QED
        BY <4>1, <4>2
    <3> QED
      BY <2>7, <3>1
  <2>10. ASSUME NEW n \in N \intersect DOMAIN g, NEW d \in Range(g[n]) PROVE rank[d] < rank[n]
    <3>1. n \in V /\ w[n] = g[n]
      BY <1>2, <2>5
    <3>2. rank[n] \in 1..m /\ o[rank[n]] = n
      BY <2>8, <3>1
    <3>3. PICK i \in 1..(rank[n] - 1) : o[i] = d
      <4>1. d \in Range(w[o[rank[n]]])
        BY <2>10, <3>1, <3>2
      <4> QED
        BY <2>4, <3>2, <4>1
    <3>4. i \in 1..m /\ i < rank[n]
      BY <2>4, <3>2, <3>3
    <3>5. d \in V
      BY <2>4, <3>3, <3>4
    <3>6. rank[d] = i
      BY <2>4, <2>8, <3>3, <3>4, <3>5
    <3> QED
      BY <3>4, <3>6
  <2> QED
    BY <2>9, <2>10 DEF Ranked
<1>8. ASSUME st.raised = "cycle", Ranked(g, N) PROVE FALSE
  <2>1. PICK rank \in [N -> 0..Cardinality(N)] :
           \A n \in N \intersect DOMAIN g : \A d \in Range(g[n]) : rank[d] < rank[n]
    BY <1>8 DEF Ranked
  <2>2. \A n \in N : rank[n] \in Nat
    BY FS_CardinalityType
  <2>3. ASSUME NEW n \in N \intersect DOMAIN w, NEW d \in Range(w[n]) PROVE rank[d] < rank[n]
    <3>1. CASE n \in DOMAIN g
      BY <1>2, <2>1, <2>3, <3>1
    <3>2. CASE n \notin DOMAIN g
      <4>1. w[n] = <<>>
        BY <1>2, <2>3, <3>2
      <4> QED
        BY <2>3, <4>1 DEF Range
    <3> QED
      BY <3>1, <3>2
  <2>4. RankedBy(w, N, rank)
    BY <2>2, <2>3 DEF RankedBy
  <2>5. RankedBy(w, DOMAIN w, rank)
    BY <1>2, <2>4 DEF RankedBy, Graph
  <2> QED
    BY <1>2, <1>4, <1>8, <2>5 DEF SearchInv, Circular
<1> QED
  BY <1>4, <1>5, <1>6, <1>7, <1>8 DEF SearchInv

(* A plan is accepted exactly when its tasks can be ranked above their     *)
(* dependencies (orchestrator.py:880).                                     *)
THEOREM AcyclicAlwaysRanked == Spec => []AcyclicIsRanked
<1>1. DInv => AcyclicIsRanked
  <2> SUFFICES ASSUME Typed, NEW g \in Written, NEW names \in SetToSeqs(Registered)
               PROVE  ValidateAcyclic(g, names) <=> Ranked(g, Service)
    BY DEF AcyclicIsRanked, DInv
  <2>1. IsFiniteSet(Service) /\ IsFiniteSet(Registered)
    BY ManagerAssumption, FS_Subset DEF Typed
  <2>2. names \in Seq(Registered) /\ Range(names) = Registered
    BY <2>1, SequenceHasAll
  <2>3. g \in [Registered -> Seq(Service)]
    BY WrittenIs
  <2>4. Graph(Service, g, names)
    BY <2>1, <2>2, <2>3 DEF Graph, Typed
  <2> QED
    BY <2>1, <2>2, <2>3, <2>4, AcyclicIsFound
<1> QED
  BY <1>1, DInvAlways, PTL

-----------------------------------------------------------------------------
(* Of what an order has, any part can be picked out in that order.         *)
LEMMA OnlyExists ==
    ASSUME NEW R, NEW o \in Seq(R), IsInjective(o), NEW S, S \subseteq Range(o), IsFiniteSet(S)
    PROVE  Only(o, S) # {}
<1> DEFINE Part(k) == {s \in S : \E i \in 1..k : o[i] = s}
<1>1. /\ Len(o) \in Nat /\ DOMAIN o = 1..Len(o)
      /\ \A i, j \in 1..Len(o) : o[i] = o[j] => i = j
  BY DEF IsInjective
<1>2. Only(o, Part(0)) # {}
  <2>1. Part(0) = {}
    OBVIOUS
  <2>2. Cardinality({}) = 0
    BY FS_EmptySet
  <2>3. <<>> \in SetToSeqs({})
    BY <2>2 DEF SetToSeqs
  <2>4. <<>> \in Only(o, {})
    BY <2>3 DEF Only
  <2> QED
    BY <2>1, <2>4
<1>3. ASSUME NEW k \in 1..Len(o), Only(o, Part(k - 1)) # {} PROVE Only(o, Part(k)) # {}
  <2>1. PICK P, n : P = Part(k - 1) /\ n = o[k]
    OBVIOUS
  <2>2. \A i \in 1..k : i \in 1..(k - 1) \/ i = k
    BY <1>1
  <2>3. \A i \in 1..(k - 1) : i \in 1..k /\ i \in 1..Len(o)
    BY <1>1
  <2>4. CASE n \notin S
    <3>1. Part(k) = P
      BY <2>1, <2>2, <2>3, <2>4
    <3> HIDE DEF Part
    <3> QED
      BY <1>3, <2>1, <3>1
  <2>5. CASE n \in S
    <3>1. Part(k) = P \union {n}
      BY <1>1, <2>1, <2>2, <2>3, <2>5
    <3>2. n \notin P
      BY <1>1, <2>1, <2>3
    <3>3. PICK q : q \in Only(o, P)
      BY <1>3, <2>1
    <3>4. P \subseteq S /\ IsFiniteSet(P)
      BY <2>1, FS_Subset
    <3>5. PICK m : m = Cardinality(P)
      OBVIOUS
    <3>6. /\ m \in Nat /\ IsFiniteSet(P \union {n}) /\ Cardinality(P \union {n}) = m + 1
      BY <3>2, <3>4, <3>5, FS_AddElement, FS_CardinalityType
    <3>7. /\ q \in [1..m -> P] /\ \A i, j \in 1..m : i # j => q[i] # q[j]
          /\ \A i, j \in 1..m : i < j => Precedes(o, q[i], q[j])
      <4>1. q \in SetToSeqs(P) /\ \A i, j \in DOMAIN q : i < j => Precedes(o, q[i], q[j])
        BY <3>3 DEF Only
      <4>2. q \in [1..m -> P] /\ \A i, j \in 1..m : i # j => q[i] # q[j]
        BY <3>5, <4>1 DEF SetToSeqs
      <4> QED
        BY <4>1, <4>2
    <3>8. PICK r : r = [i \in 1..(m + 1) |-> IF i = m + 1 THEN n ELSE q[i]]
      OBVIOUS
    <3>9. /\ DOMAIN r = 1..(m + 1) /\ r[m + 1] = n /\ \A i \in 1..m : r[i] = q[i]
          /\ \A i \in 1..(m + 1) : i \in 1..m \/ i = m + 1
      <4>1. m + 1 \in 1..(m + 1) /\ \A i \in 1..m : i \in 1..(m + 1) /\ i # m + 1
        BY <3>6
      <4>2. \A i \in 1..(m + 1) : i \in 1..m \/ i = m + 1
        BY <3>6
      <4> QED
        BY <3>8, <4>1, <4>2
    <3>10. r \in [1..(m + 1) -> P \union {n}]
      BY <3>7, <3>8, <3>9
    <3>11. \A i, j \in 1..(m + 1) : i # j => r[i] # r[j]
      BY <3>2, <3>7, <3>9
    <3>12. ASSUME NEW i \in 1..(m + 1), NEW j \in 1..(m + 1), i < j
           PROVE  Precedes(o, r[i], r[j])
      <4>1. i \in 1..m
        BY <3>6, <3>12
      <4>2. CASE j = m + 1
        <5>1. r[i] \in P /\ r[j] = n
          BY <3>7, <3>9, <4>1, <4>2
        <5>2. PICK a \in 1..(k - 1) : o[a] = r[i]
          BY <2>1, <5>1
        <5>3. a \in DOMAIN o /\ k \in DOMAIN o /\ a < k
          BY <1>1, <2>3
        <5> QED
          BY <2>1, <5>1, <5>2, <5>3 DEF Precedes
      <4>3. CASE j \in 1..m
        BY <3>7, <3>9, <3>12, <4>1, <4>3
      <4> QED
        BY <3>9, <4>2, <4>3
    <3>13. r \in SetToSeqs(P \union {n})
      BY <3>6, <3>10, <3>11 DEF SetToSeqs
    <3>14. r \in Only(o, P \union {n})
      BY <3>9, <3>12, <3>13 DEF Only
    <3> HIDE DEF Part
    <3> QED
      BY <3>1, <3>14
  <2> QED
    BY <2>4, <2>5
<1>4. ASSUME NEW k \in 0..Len(o), Only(o, Part(k)) = {} PROVE FALSE
  <2>1. PICK T : T = {i \in 0..Len(o) : Only(o, Part(i)) = {}}
    OBVIOUS
  <2> HIDE DEF Part
  <2>2. T \in SUBSET Nat /\ T # {}
    BY <1>1, <1>4, <2>1
  <2>3. PICK x \in T : \A y \in T : x <= y
    BY <2>2, Least
  <2>4. x \in 0..Len(o) /\ Only(o, Part(x)) = {} /\ x # 0
    BY <1>2, <2>1
  <2>5. x \in 1..Len(o) /\ x - 1 \in 0..Len(o) /\ ~(x <= x - 1)
    BY <1>1, <2>4
  <2>6. Only(o, Part(x - 1)) # {}
    BY <2>1, <2>3, <2>5
  <2> QED
    BY <1>3, <2>4, <2>5, <2>6
<1>5. Part(Len(o)) = S
  BY <1>1 DEF Range
<1>6. Len(o) \in 0..Len(o)
  BY <1>1
<1> HIDE DEF Part
<1> QED
  BY <1>4, <1>5, <1>6

-----------------------------------------------------------------------------
(* What is being started is being started by an operation that starts,     *)
(* what is being stopped by one that stops, and a restart has an order of  *)
(* all services until its end, because nothing is registered meanwhile.    *)
Kinds ==
    /\ \A s \in InState({"starting"}) : op.kind = "start"
    /\ \A s \in InState({"stopping"}) : op.kind \in {"stop", "rollback"}
    /\ op # NoOp /\ op.call = "restart" => Orders(Registered) # {}

(* What orders there are depends on the dependencies alone.                *)
LEMMA OrdersKept ==
    ASSUME UNCHANGED deps
    PROVE  Registered' = Registered /\ Orders(Registered)' = Orders(Registered)
  BY DEF Orders, Registered

(* A step that moves no service, within an operation or at its end.        *)
LEMMA StandingKinds ==
    ASSUME Kinds, UNCHANGED <<deps, status>>,
           \/ op' = NoOp /\ InState(Moving) = {}
           \/ /\ op # NoOp /\ op'.call = op.call
              /\ op'.kind = op.kind \/ InState(Moving) = {}
    PROVE  Kinds'
<1>1. /\ InState({"starting"})' = InState({"starting"})
      /\ InState({"stopping"})' = InState({"stopping"})
      /\ Registered' = Registered /\ Orders(Registered)' = Orders(Registered)
  BY OrdersKept DEF InState, Registered
<1>2. InState({"starting"}) \subseteq InState(Moving) /\ InState({"stopping"}) \subseteq InState(Moving)
  BY DEF InState, Moving
<1> QED
  BY <1>1, <1>2 DEF Kinds

(* The current service goes from one state to another.                     *)
LEMMA MovingKinds ==
    ASSUME Kinds, Typed, Alone, op # NoOp, op.todo # <<>>, UNCHANGED deps,
           NEW x, status' = [status EXCEPT ![Current] = x],
           op'.call = op.call,
           x = "starting" => op'.kind = "start",
           x = "stopping" => op'.kind \in {"stop", "rollback"}
    PROVE  Kinds'
<1>1. Registered' = Registered /\ Orders(Registered)' = Orders(Registered)
  BY OrdersKept
<1>2. ASSUME NEW s \in InState(Moving)' PROVE s = Current /\ x = status'[s]
  <2>1. s \in Registered /\ status'[s] \in Moving
    BY <1>1, <1>2 DEF InState
  <2>2. Current \in DOMAIN status /\ DOMAIN status = Registered
    BY TypedTail DEF Typed
  <2>3. s # Current => s \in InState(Moving)
    BY <2>1, <2>2 DEF InState
  <2>4. s = Current
    BY <2>3 DEF Alone, Moving
  <2> QED
    BY <2>2, <2>4
<1>3. /\ InState({"starting"})' \subseteq InState(Moving)'
      /\ InState({"stopping"})' \subseteq InState(Moving)'
  BY DEF InState, Moving
<1>4. /\ \A s \in InState({"starting"})' : status'[s] = "starting"
      /\ \A s \in InState({"stopping"})' : status'[s] = "stopping"
  BY DEF InState
<1> QED
  BY <1>1, <1>2, <1>3, <1>4 DEF Kinds

(* An operation begins where nothing is moving.                            *)
LEMMA BeginKinds == ASSUME DInv, Kinds, Begin PROVE Kinds'
<1>0. op = NoOp
  BY DEF Begin, Register, Unregister, BeginStart, BeginStop, BeginStopAll, BeginRestart
<1>1. InState(Moving) = {}
  BY <1>0 DEF DInv, Alone, Moving
<1>2. ASSUME NEW kind, NEW call, NEW todo, NEW restore, Perform(kind, call, todo, restore),
             UNCHANGED <<deps, status>>, call = "restart" => Orders(Registered) # {}
      PROVE  Kinds'
  <2>1. op'.call = call
    BY <1>2 DEF Perform
  <2>2. /\ InState({"starting"})' = {} /\ InState({"stopping"})' = {}
        /\ Registered' = Registered /\ Orders(Registered)' = Orders(Registered)
    BY <1>1, <1>2, OrdersKept DEF InState, Registered, Moving
  <2> QED
    BY <1>2, <2>1, <2>2 DEF Kinds
<1>3. ASSUME NEW n \in Service, Unregister(n) \/ \E D \in SUBSET Service : Register(n, D)
      PROVE  Kinds'
  <2>1. DInv' /\ op' = NoOp
    BY <1>0, <1>3, RegistrationOrdered DEF Register, Unregister
  <2>2. InState({"starting"})' = {} /\ InState({"stopping"})' = {}
    BY <2>1 DEF DInv, Alone, InState
  <2> QED
    BY <2>1, <2>2 DEF Kinds
<1>4. ASSUME NEW call \in {"start", "start_all"}, NEW names, BeginStart(call, names) PROVE Kinds'
  BY <1>2, <1>4 DEF BeginStart
<1>5. ASSUME NEW n, NEW cascade, BeginStop(n, cascade) PROVE Kinds'
  BY <1>2, <1>5 DEF BeginStop
<1>6. ASSUME NEW n, BeginRestart(n) PROVE Kinds'
  BY <1>2, <1>6 DEF BeginRestart
<1>7. CASE BeginStopAll
  BY <1>2, <1>7 DEF BeginStopAll
<1> QED
  BY <1>3, <1>4, <1>5, <1>6, <1>7 DEF Begin

(* Steps of an operation.                                                  *)
LEMMA OperationKinds == ASSUME DInv, Kinds, Proceed \/ RestReturns PROVE Kinds'
<1>1. Typed /\ Alone
  BY DEF DInv
<1>2. ASSUME NEW kind, op # NoOp, op' = Advance(kind), op.kind = kind, UNCHANGED <<deps, status>>
      PROVE  Kinds'
  <2>1. DOMAIN op = Fields
    BY <1>1, <1>2 DEF Typed
  <2>2. op'.call = op.call /\ op'.kind = kind
    BY <1>2, <2>1 DEF Advance, Fields
  <2> QED
    BY <1>2, <2>2, StandingKinds
<1>3. CASE SkipRunning \/ SkipStopped
  BY <1>2, <1>3 DEF SkipRunning, SkipStopped, Doing, NoOp
<1>4. CASE EndStart \/ EndStop
  <2>1. op' = NoOp /\ op.todo = <<>> /\ UNCHANGED <<deps, status>>
    BY <1>4 DEF EndStart, EndStop
  <2>2. InState(Moving) = {}
    BY <1>1, <2>1 DEF Alone, Moving
  <2> QED
    BY <2>1, <2>2, StandingKinds
<1>5. CASE Restore
  <2>0. /\ op.kind = "stop" /\ op.todo = <<>> /\ UNCHANGED <<deps, status>>
        /\ \E o \in Orders(Registered) : \E todo \in ToRestore(o) :
              op' = [op EXCEPT !.kind = "start", !.todo = todo]
    BY <1>5 DEF Restore
  <2>a. PICK o \in Orders(Registered) : \E todo \in ToRestore(o) :
              op' = [op EXCEPT !.kind = "start", !.todo = todo]
    BY <2>0
  <2>b. PICK todo \in ToRestore(o) : op' = [op EXCEPT !.kind = "start", !.todo = todo]
    BY <2>a
  <2>1. /\ op' = [op EXCEPT !.kind = "start", !.todo = todo] /\ op.todo = <<>>
        /\ op # NoOp /\ UNCHANGED <<deps, status>>
    BY <2>0, <2>b DEF NoOp
  <2>2. DOMAIN op = Fields
    BY <1>1, <2>1 DEF Typed
  <2>3. op'.call = op.call
    BY <2>1, <2>2 DEF Fields
  <2>4. InState(Moving) = {}
    BY <1>1, <2>1 DEF Alone, Moving
  <2> QED
    BY <2>1, <2>3, <2>4, StandingKinds
<1>6. CASE CallStart \/ CallStop \/ StartReturns \/ StartRaises \/ StopReturns \/ StopRaises
  <2>1. op # NoOp /\ op.todo # <<>> /\ UNCHANGED deps
    BY <1>6 DEF CallStart, CallStop, StartReturns, StartRaises, StopReturns, StopRaises, Doing,
                NoOp
  <2>2. DOMAIN op = Fields
    BY <1>1, <2>1 DEF Typed
  <2>3. op'.call = op.call
    BY <1>6, <2>2 DEF CallStart, CallStop, StartReturns, StartRaises, StopReturns, StopRaises,
                      Advance, Fields
  <2>4. CASE CallStart
    BY <1>1, <2>1, <2>3, <2>4, MovingKinds DEF CallStart, Doing
  <2>5. CASE CallStop
    BY <1>1, <2>1, <2>3, <2>5, MovingKinds DEF CallStop
  <2>6. PICK x \in {"running", "failed", "stopped"} :
           ~(CallStart \/ CallStop) => status' = [status EXCEPT ![Current] = x]
    BY <1>6 DEF StartReturns, StartRaises, StopReturns, StopRaises
  <2>7. CASE ~(CallStart \/ CallStop)
    BY <1>1, <2>1, <2>3, <2>6, <2>7, MovingKinds
  <2> QED
    BY <2>4, <2>5, <2>7
<1> QED
  BY <1>3, <1>4, <1>5, <1>6 DEF Proceed, RestReturns

KInv == IInv /\ DInv /\ Kinds

(* Every step.                                                             *)
LEMMA StepKinds == KInv /\ bare \in BOOLEAN /\ [Next]_vars => KInv' /\ bare' \in BOOLEAN
<1> SUFFICES ASSUME KInv, bare \in BOOLEAN, [Next]_vars PROVE KInv' /\ bare' \in BOOLEAN
  OBVIOUS
<1>1. IInv' /\ DInv' /\ bare' \in BOOLEAN
  BY StepKeeps, StepOrdered DEF KInv
<1>2. ASSUME UNCHANGED managerVars PROVE Kinds'
  BY <1>2, OrdersKept DEF KInv, Kinds, managerVars, InState, Registered
<1>3. ASSUME Begin PROVE Kinds'
  BY <1>3, BeginKinds DEF KInv
<1>4. ASSUME Proceed \/ RestReturns PROVE Kinds'
  BY <1>4, OperationKinds DEF KInv
<1>5. ASSUME Bind \/ Shutdown \/ ServerClose \/ UNCHANGED vars PROVE Kinds'
  BY <1>2, <1>5 DEF Bind, Shutdown, ServerClose, vars
<1>6. ASSUME NEW h \in Handler,
             \/ Accept(h) \/ AnswerAtOnce(h) \/ CheckHealth(h) \/ AnswerPage(h)
             \/ \E full \in BOOLEAN : ListStatuses(h, full)
             \/ \E s \in Service : ReadStatus(h, s)
      PROVE  UNCHANGED managerVars
  BY <1>6 DEF Accept, AnswerAtOnce, CheckHealth, AnswerPage, ListStatuses, ReadStatus
<1>7. Kinds'
  BY <1>2, <1>3, <1>4, <1>5, <1>6 DEF KInv, Next, Operating
<1> QED
  BY <1>1, <1>7 DEF KInv

(* An operation always has what it needs to go on: no service is in a      *)
(* state it cannot deal with, the server it stops is where the next step   *)
(* of stop finds it, no request is waited for (rest.py:257), and a restart *)
(* finds an order of what it starts again.                                 *)
THEOREM OperationGoesOn == Spec => [](op # NoOp => CanGoOn)
<1> DEFINE J == KInv /\ bare \in BOOLEAN
<1>1. Init => J
  BY DEF Init, ManagerInit, KInv, IInv, State, Whole, Down, DInv, Typed, Alone, Restarts, Ordered,
         Above, Registered, Running, InState, Kinds, ServiceState
<1>2. J /\ [Next]_vars => J'
  BY StepKinds
<1>3. J => (op # NoOp => CanGoOn)
  <2> SUFFICES ASSUME IInv, DInv, Kinds, op # NoOp PROVE CanGoOn
    BY DEF KInv
  <2>1. Typed /\ op.kind \in {"start", "rollback", "stop"}
    BY DEF DInv, Typed
  <2>2. CASE op.todo = <<>>
    <3>1. ASSUME op.call = "restart" PROVE \E o \in Orders(Registered) : ToRestore(o) # {}
      <4>1. PICK o : o \in Orders(Registered)
        BY <3>1 DEF Kinds
      <4>2. IsFiniteSet(Registered)
        BY <2>1, ManagerAssumption, FS_Subset DEF Typed
      <4>3. o \in Seq(Registered) /\ Range(o) = Registered /\ IsInjective(o)
        BY <4>1, <4>2, OrderHasAll
      <4>4. op.restore \subseteq Registered
        BY <2>1 DEF Typed
      <4>5. IsFiniteSet(op.restore)
        BY <4>2, <4>4, FS_Subset
      <4>6. Only(o, op.restore) # {}
        BY <4>3, <4>4, <4>5, OnlyExists
      <4> QED
        BY <4>1, <4>6 DEF ToRestore
    <3> QED
      BY <2>1, <2>2, <3>1 DEF CanGoOn
  <2>3. CASE op.todo # <<>>
    <3>1. Current \in Registered /\ status[Current] \in ServiceState
      BY <2>1, <2>3, TypedTail DEF Typed
    <3>2. CASE op.kind = "start"
      <4>1. Current \notin InState({"stopping"})
        BY <3>2 DEF Kinds
      <4> QED
        BY <2>3, <3>1, <3>2, <4>1 DEF CanGoOn, InState
    <3>3. CASE op.kind \in {"stop", "rollback"}
      <4>1. Current \notin InState({"starting"})
        BY <3>3 DEF Kinds
      <4>2. status[Current] = "stopping" /\ Current = Rest => Whole(FALSE) \/ (server /\ bound)
        BY <3>1 DEF IInv, State
      <4>3. Joined = {}
        BY DEF Joined
      <4>4. status[Current] = "stopping" /\ Current = Rest => ~server \/ accepting \/ (bound /\ Joined = {})
        BY <4>2, <4>3 DEF Whole
      <4> QED
        BY <2>3, <3>1, <3>3, <4>1, <4>4 DEF CanGoOn, InState
    <3> QED
      BY <2>1, <3>2, <3>3
  <2> QED
    BY <2>2, <2>3
<1> QED
  BY <1>1, <1>2, <1>3, PTL DEF Spec
=============================================================================
