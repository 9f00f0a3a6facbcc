-------------------------- MODULE WebSocketProofs --------------------------
(***************************************************************************)
(* Proofs about WebSocket, for any number of controllers, listeners,       *)
(* connections and frames.                                                 *)
(***************************************************************************)
EXTENDS WebSocket, TLAPS

PhaseOK == pc \in [Connection -> {"new", "handshake", "upgraded", "done"} \union InLoop]

(* A stop still has what it saw and has not shut: the witness for every    *)
(* connection that some stop saw and that is still open.                   *)
Closing(k, i) == ctl[k].at = "closing" /\ i \in ctl[k].toClose

IInv ==
    /\ PhaseOK
    /\ active \subseteq Connection /\ open \subseteq Connection
    /\ late \in [Connection -> Nat]
    /\ ctl \in [Controller -> [at : {"idle", "closing", "forgetting"},
                               server : 0..MaxListeners, toClose : SUBSET Connection]]
    /\ server \in 0..MaxListeners /\ started \in 0..MaxListeners
    /\ ActiveExact
    \* what was registered is on its way out of the handler, or out
    /\ forgotten \subseteq {i \in Connection : pc[i] \in InLoop \union {"done"}}
    /\ seen \subseteq {i \in Connection : pc[i] \in InLoop \union {"done"}}
    \* the handler that went on after its connection was shut is at its end
    /\ \A i \in Connection :
         /\ late[i] <= 1
         /\ late[i] = 1 => /\ i \notin open
                           /\ pc[i] \in {"executing", "approving", "replying", "leaving", "done"}
    /\ \A i \in seen \intersect open : \E k \in Controller : Closing(k, i)

-----------------------------------------------------------------------------
(* No connection, no listener.                                             *)
LEMMA InitEstablishes == Init => IInv
<1> SUFFICES ASSUME Init PROVE IInv
  OBVIOUS
<1>1. NoStop \in [at : {"idle", "closing", "forgetting"},
                  server : 0..MaxListeners, toClose : SUBSET Connection]
  BY ChannelAssumption DEF NoStop
<1>2. ActiveExact
  BY DEF Init, ActiveExact, InLoop
<1> QED
  BY <1>1, <1>2, ChannelAssumption DEF Init, IInv, PhaseOK

(* A step of a handler that goes from one place to another without         *)
(* entering or leaving the registry, and begins nothing late.              *)
LEMMA HandlerStep ==
    ASSUME IInv, NEW i \in Connection, NEW l,
           \/ pc[i] = "handshake" /\ l \in {"done", "upgraded"}
           \/ /\ pc[i] \in InLoop /\ l \in InLoop
              /\ late[i] = 1 => l # "reading",
           Goto(i, l),
           UNCHANGED <<serverVars, active, open, late>>
    PROVE  IInv'
<1>1. \A j \in Connection : pc'[j] = IF j = i THEN l ELSE pc[j]
  BY DEF IInv, PhaseOK, Goto
<1>2. PhaseOK'
  BY DEF IInv, PhaseOK, Goto, InLoop
<1>3. ActiveExact'
  BY <1>1 DEF IInv, ActiveExact, InLoop, serverVars
<1>4. \A j \in Connection : pc[j] \in InLoop \union {"done"} => pc'[j] \in InLoop \union {"done"}
  BY <1>1 DEF InLoop
<1>5. \A j \in Connection : late[j] = 1 => pc'[j] \in {"executing", "approving", "replying", "leaving", "done"}
  BY <1>1 DEF IInv, InLoop
<1> QED
  BY <1>2, <1>3, <1>4, <1>5 DEF IInv, serverVars, Closing

(* A client connects.                                                      *)
LEMMA ConnectKeeps == ASSUME IInv, Connect PROVE IInv'
<1>1. PICK i \in Connection : pc[i] = "new" /\ Goto(i, "handshake") /\ open' = open \union {i}
  BY DEF Connect, Accepted
<1>2. \A j \in Connection : pc'[j] = IF j = i THEN "handshake" ELSE pc[j]
  BY <1>1 DEF IInv, PhaseOK, Goto
<1>3. UNCHANGED <<serverVars, active, late>>
  BY DEF Connect
<1>4. PhaseOK'
  BY <1>1 DEF IInv, PhaseOK, Goto
<1>5. ActiveExact'
  BY <1>1, <1>2, <1>3 DEF IInv, ActiveExact, InLoop, serverVars
<1>6. i \notin seen /\ i \notin forgotten /\ late[i] # 1
  BY <1>1 DEF IInv, InLoop
<1> QED
  BY <1>1, <1>2, <1>3, <1>4, <1>5, <1>6 DEF IInv, serverVars, Closing

(* The connection is registered; no stop has seen it.                      *)
LEMMA RegisterKeeps == ASSUME IInv, NEW i \in Connection, Register(i) PROVE IInv'
<1>1. \A j \in Connection : pc'[j] = IF j = i THEN "reading" ELSE pc[j]
  BY DEF IInv, PhaseOK, Register, Goto
<1>2. pc[i] = "upgraded" /\ active' = active \union {i} /\ UNCHANGED <<serverVars, open, late>>
  BY DEF Register
<1>3. PhaseOK'
  BY DEF IInv, PhaseOK, Register, Goto, InLoop
<1>4. i \notin forgotten /\ late[i] # 1
  BY <1>2 DEF IInv, InLoop
<1>5. ActiveExact'
  BY <1>1, <1>2, <1>4 DEF IInv, ActiveExact, InLoop, serverVars
<1>6. \A j \in Connection : pc[j] \in InLoop \union {"done"} => pc'[j] \in InLoop \union {"done"}
  BY <1>1 DEF InLoop
<1> QED
  BY <1>1, <1>2, <1>3, <1>4, <1>5, <1>6 DEF IInv, serverVars, Closing

(* A frame is read; on a connection that was shut this is the last one.    *)
LEMMA ReadKeeps ==
    ASSUME IInv, NEW i \in Connection, NEW f \in Frame, ReadFrame(i, f)
    PROVE  IInv'
<1>1. pc[i] = "reading" /\ UNCHANGED <<serverVars, active, open>> /\ late[i] = 0
  BY DEF ReadFrame, IInv
<1>2. f \in {"command", "approval", "query", "ping", "pong", "last"}
  BY ChannelAssumption
<1>3. After(f) \in InLoop /\ (Executes(f) => After(f) \in {"executing", "approving"})
  BY <1>2 DEF After, Executes, InLoop
<1>4. CASE Executes(f) /\ i \notin open
  <2>1. late' = [late EXCEPT ![i] = 1] /\ Goto(i, After(f))
    BY <1>1, <1>4 DEF ReadFrame, IInv
  <2>2. \A j \in Connection : pc'[j] = IF j = i THEN After(f) ELSE pc[j]
    BY <2>1 DEF IInv, PhaseOK, Goto
  <2>3. PhaseOK'
    BY <1>3, <2>1 DEF IInv, PhaseOK, Goto
  <2>4. ActiveExact'
    BY <1>1, <1>3, <2>2 DEF IInv, ActiveExact, InLoop, serverVars
  <2>5. \A j \in Connection : pc[j] \in InLoop \union {"done"} => pc'[j] \in InLoop \union {"done"}
    BY <1>3, <2>2
  <2>6. \A j \in Connection : late'[j] = IF j = i THEN 1 ELSE late[j]
    BY <2>1 DEF IInv
  <2>7. late' \in [Connection -> Nat]
    BY <2>1 DEF IInv
  <2> QED
    BY <1>1, <1>3, <1>4, <2>2, <2>3, <2>4, <2>5, <2>6, <2>7 DEF IInv, serverVars, Closing
<1>5. CASE ~(Executes(f) /\ i \notin open)
  <2>1. late' = late /\ Goto(i, After(f))
    BY <1>5 DEF ReadFrame
  <2> HIDE DEF After
  <2> QED
    BY <1>1, <1>3, <2>1, HandlerStep DEF InLoop
<1> QED
  BY <1>4, <1>5

(* The finally clause of the handler.                                      *)
LEMMA LeaveKeeps == ASSUME IInv, NEW i \in Connection, Leave(i) PROVE IInv'
<1>1. \A j \in Connection : pc'[j] = IF j = i THEN "done" ELSE pc[j]
  BY DEF IInv, PhaseOK, Leave, Goto
<1>2. pc[i] = "leaving" /\ active' = active \ {i} /\ UNCHANGED <<serverVars, open, late>>
  BY DEF Leave, Remaining
<1>3. PhaseOK'
  BY DEF IInv, PhaseOK, Leave, Goto
<1>4. ActiveExact'
  BY <1>1, <1>2 DEF IInv, ActiveExact, InLoop, serverVars
<1> QED
  BY <1>1, <1>2, <1>3, <1>4 DEF IInv, serverVars, Closing

(* The other steps of a handler.                                           *)
LEMMA OtherHandlerSteps ==
    ASSUME IInv, NEW i \in Connection,
           \/ Refuse(i) \/ Upgrade(i) \/ ReadEnds(i) \/ Succeeds(i) \/ Fails(i)
           \/ Reply(i) \/ ReplyFails(i)
    PROVE  IInv'
<1>1. PICK l \in {"done", "upgraded", "reading", "replying", "leaving"} :
        /\ \/ pc[i] = "handshake" /\ l \in {"done", "upgraded"}
           \/ pc[i] \in InLoop /\ l \in InLoop
        /\ l = "reading" => i \in open
        /\ Goto(i, l) /\ UNCHANGED <<serverVars, active, open, late>>
  BY DEF Refuse, Upgrade, ReadEnds, Succeeds, Fails, Reply, ReplyFails, AfterReply, InLoop
<1>2. late[i] = 1 => i \notin open
  BY DEF IInv
<1> QED
  BY <1>1, <1>2, HandlerStep

-----------------------------------------------------------------------------
(* start and stop.  Only BeginStop makes a stop see connections, and it    *)
(* has all of them to close.                                               *)
LEMMA ControlKeeps ==
    ASSUME IInv, NEW k \in Controller,
           Start(k) \/ BeginStop(k) \/ CloseConnection(k) \/ CloseListener(k) \/ Forget(k)
    PROVE  IInv'
<1> DEFINE Ctl == [at : {"idle", "closing", "forgetting"},
                   server : 0..MaxListeners, toClose : SUBSET Connection]
<1>1. CASE Start(k)
  <2>1. started + 1 \in 0..MaxListeners
    BY <1>1, ChannelAssumption DEF Start, IInv
  <2> QED
    BY <1>1, <2>1 DEF Start, IInv, PhaseOK, ActiveExact, Closing, connVars
<1>2. CASE BeginStop(k)
  <2> DEFINE c == [at |-> "closing", server |-> server, toClose |-> active]
  <2>1. c \in Ctl /\ c.at = "closing" /\ c.toClose = active
    BY DEF IInv
  <2>2. ctl' = [ctl EXCEPT ![k] = c] /\ seen' = seen \union active
        /\ UNCHANGED <<server, started, forgotten, active, pc, open, late>>
        /\ ctl[k].at = "idle"
    BY <1>2 DEF BeginStop, connVars, Idle
  <2> HIDE DEF c
  <2>3. \A q \in Controller : ctl'[q] = IF q = k THEN c ELSE ctl[q]
    BY <2>2 DEF IInv
  <2>4. ctl' \in [Controller -> Ctl]
    BY <2>1, <2>2 DEF IInv
  <2>5. \A i \in seen' \intersect open' : \E q \in Controller : Closing(q, i)'
    <3> SUFFICES ASSUME NEW i \in (seen \union active) \intersect open
                 PROVE  \E q \in Controller : Closing(q, i)'
      BY <2>2
    <3>1. CASE i \in active
      BY <3>1, <2>1, <2>3 DEF Closing
    <3>2. CASE i \in seen
      BY <3>2, <2>2, <2>3 DEF Closing, IInv
    <3> QED
      BY <3>1, <3>2
  <2>6. seen' \subseteq {i \in Connection : pc'[i] \in InLoop \union {"done"}}
    BY <2>2 DEF IInv, ActiveExact
  <2> QED
    BY <2>2, <2>4, <2>5, <2>6 DEF IInv, PhaseOK, ActiveExact
<1>3. CASE CloseConnection(k)
  <2>1. PICK i \in ctl[k].toClose :
          /\ ctl' = [ctl EXCEPT ![k].toClose = @ \ {i}]
          /\ open' = open \ {i}
    BY <1>3 DEF CloseConnection, Shut
  <2>2. UNCHANGED <<server, started, seen, forgotten, active, pc, late>>
    BY <1>3 DEF CloseConnection
  <2>3. ctl' \in [Controller -> Ctl]
    BY <2>1 DEF IInv
  <2>4. \A q \in Controller : /\ ctl'[q].at = ctl[q].at
                              /\ ctl[q].toClose \ {i} \subseteq ctl'[q].toClose
    BY <2>1 DEF IInv
  <2>5. \A j \in seen' \intersect open' : \E q \in Controller : Closing(q, j)'
    BY <2>1, <2>2, <2>4 DEF IInv, Closing
  <2> QED
    BY <2>1, <2>2, <2>3, <2>5 DEF IInv, PhaseOK, ActiveExact
<1>4. CASE CloseListener(k)
  <2>1. /\ ctl[k].toClose = {} /\ ctl' = [ctl EXCEPT ![k].at = "forgetting"]
        /\ UNCHANGED <<server, started, seen, forgotten, active, pc, open, late>>
    BY <1>4 DEF CloseListener, connVars
  <2>2. ctl' \in [Controller -> Ctl]
    BY <2>1 DEF IInv
  <2>3. \A q \in Controller : q # k => ctl'[q] = ctl[q]
    BY <2>1 DEF IInv
  <2>4. \A j \in seen' \intersect open' : \E q \in Controller : Closing(q, j)'
    BY <2>1, <2>3 DEF IInv, Closing
  <2> QED
    BY <2>1, <2>2, <2>4 DEF IInv, PhaseOK, ActiveExact
<1>5. CASE Forget(k)
  <2>1. /\ ctl[k].at = "forgetting" /\ ctl' = [ctl EXCEPT ![k] = NoStop]
        /\ server' = 0 /\ forgotten' = forgotten \union active /\ active' = {}
        /\ UNCHANGED <<started, seen, pc, open, late>>
    BY <1>5 DEF Forget
  <2>2. NoStop \in Ctl
    BY ChannelAssumption DEF NoStop
  <2>3. ctl' \in [Controller -> Ctl] /\ \A q \in Controller : q # k => ctl'[q] = ctl[q]
    BY <2>1, <2>2 DEF IInv
  <2>4. \A j \in seen' \intersect open' : \E q \in Controller : Closing(q, j)'
    BY <2>1, <2>3 DEF IInv, Closing
  <2>5. ActiveExact'
    BY <2>1 DEF IInv, ActiveExact
  <2>6. forgotten' \subseteq {i \in Connection : pc'[i] \in InLoop \union {"done"}}
    BY <2>1 DEF IInv, ActiveExact
  <2> QED
    BY <2>1, <2>3, <2>4, <2>5, <2>6, ChannelAssumption DEF IInv, PhaseOK
<1> QED
  BY <1>1, <1>2, <1>3, <1>4, <1>5

LEMMA StepKeeps == IInv /\ [Next]_vars => IInv'
<1> SUFFICES ASSUME IInv, [Next]_vars PROVE IInv'
  OBVIOUS
<1>1. CASE Connect
  BY <1>1, ConnectKeeps
<1>2. ASSUME NEW i \in Connection, NEW f \in Frame, ReadFrame(i, f) PROVE IInv'
  BY <1>2, ReadKeeps
<1>3. ASSUME NEW i \in Connection, Register(i) PROVE IInv'
  BY <1>3, RegisterKeeps
<1>4. ASSUME NEW i \in Connection, Leave(i) PROVE IInv'
  BY <1>4, LeaveKeeps
<1>5. ASSUME NEW i \in Connection,
             \/ Refuse(i) \/ Upgrade(i) \/ ReadEnds(i) \/ Succeeds(i) \/ Fails(i)
             \/ Reply(i) \/ ReplyFails(i)
      PROVE  IInv'
  BY <1>5, OtherHandlerSteps
<1>6. ASSUME NEW k \in Controller,
             Start(k) \/ BeginStop(k) \/ CloseConnection(k) \/ CloseListener(k) \/ Forget(k)
      PROVE  IInv'
  BY <1>6, ControlKeeps
<1>7. CASE UNCHANGED vars
  BY <1>7 DEF vars, serverVars, connVars, IInv, PhaseOK, ActiveExact, Closing
<1> QED
  BY <1>1, <1>2, <1>3, <1>4, <1>5, <1>6, <1>7 DEF Next

LEMMA AlwaysInvariant == Spec => []IInv
BY InitEstablishes, StepKeeps, PTL DEF Spec

(* _connections is always exact, for any number of connections and of      *)
(* overlapping starts and stops.                                           *)
THEOREM ActiveAlwaysExact == Spec => []ActiveExact
<1>1. IInv => ActiveExact
  BY DEF IInv
<1> QED
  BY <1>1, AlwaysInvariant, PTL

(* At most one command begins on a connection after it was shut, for any   *)
(* number of frames that had arrived.                                      *)
THEOREM AtMostOneAfterShut == Spec => []OneAfterShut
<1>1. IInv => OneAfterShut
  BY DEF IInv, OneAfterShut
<1> QED
  BY <1>1, AlwaysInvariant, PTL

(* When no stop is under way, everything a stop saw is shut, however many  *)
(* starts and stops overlapped.                                            *)
THEOREM StopAlwaysShuts == Spec => []StopShutsWhatItSaw
<1>1. IInv => StopShutsWhatItSaw
  BY DEF IInv, StopShutsWhatItSaw, Closing, Idle
<1> QED
  BY <1>1, AlwaysInvariant, PTL
=============================================================================
