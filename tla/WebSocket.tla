------------------------------ MODULE WebSocket ------------------------------
(***************************************************************************)
(* The command channel, api/websocket.py.                                  *)
(*                                                                         *)
(* start creates a listener with a thread that accepts connections; each   *)
(* accepted connection is handled by a daemon thread of its own: the       *)
(* handshake, the registration in _connections, and the loop that reads    *)
(* frames and executes commands.  stop, called by another thread, takes a  *)
(* snapshot of _connections, shuts their sockets, ends the listener and    *)
(* forgets both; it does not wait for the handlers.                        *)
(*                                                                         *)
(* Connections and listeners are numbered in the order of their creation.  *)
(* A frame is one of: "command" (allowlisted), "approval", "query" (a text *)
(* message answered without executing anything: ping, status, every error),*)
(* "ping" (a control frame that is answered), "pong" (a control frame that *)
(* is not), "last" (close, binary, unknown opcode, protocol violation: the *)
(* handler leaves whether or not its farewell can be sent).                *)
(***************************************************************************)
EXTENDS Integers, FiniteSets

CONSTANTS
    Controller,     \* threads that call start and stop
    Frame,          \* the kinds of frames that clients send
    MaxListeners,   \* bound: listeners ever started
    MaxConnections, \* bound: connections ever accepted
    MaxFrames       \* bound: frames read on one connection

ASSUME ChannelAssumption ==
    /\ MaxListeners \in Nat /\ MaxConnections \in Nat /\ MaxFrames \in Nat
    /\ Frame \subseteq {"command", "approval", "query", "ping", "pong", "last"}

VARIABLES
    server,     \* _server: the current listener, or 0
    listening,  \* the listeners that accept connections
    started,    \* listeners started so far
    active,     \* _connections
    counts,     \* _total_connections and the three message counters
    pc,         \* where the handler of each connection is
    read,       \* how many frames the handler of each connection has read
    open,       \* the connections that no stop has shut
    late,       \* commands begun on a connection after it was shut
    seen,       \* connections that some stop found in _connections when it began
    forgotten,  \* connections that were active when a stop cleared _connections
    ctl         \* what each controller is doing

connVars == <<active, counts, pc, read, open, late>>
serverVars == <<server, listening, started, seen, forgotten, ctl>>
vars == <<serverVars, connVars>>

Connection == 1..MaxConnections
Listener == 1..MaxListeners
NoStop == [at |-> "idle", server |-> 0, toClose |-> {}]

InLoop == {"reading", "executing", "approving", "replying", "leaving"}
Running == server \in listening
Accepted == {i \in Connection : pc[i] # "new"}
Goto(i, l) == pc' = [pc EXCEPT ![i] = l]

Init ==
    /\ server = 0 /\ started = 0 /\ listening = {}
    /\ active = {} /\ open = {} /\ seen = {} /\ forgotten = {}
    /\ counts = [total |-> 0, messages |-> 0, commands |-> 0, approvals |-> 0]
    /\ pc = [i \in Connection |-> "new"]
    /\ read = [i \in Connection |-> 0]
    /\ late = [i \in Connection |-> 0]
    /\ ctl = [k \in Controller |-> NoStop]

----------------------------------------------------------------------------
(* Clients                                                                 *)

Connect ==
    /\ listening # {}
    /\ \E i \in Connection \ Accepted :
         /\ \A j \in Connection \ Accepted : i <= j
         /\ Goto(i, "handshake")
         /\ open' = open \union {i}
    /\ UNCHANGED <<serverVars, active, counts, read, late>>

----------------------------------------------------------------------------
(* The handler of connection i                                             *)

(* Every early return before the 101 reply, for a request that is malformed *)
(* or not authorised, a timeout, a client that left.                       *)
Refuse(i) ==
    /\ pc[i] = "handshake"
    /\ Goto(i, "done")
    /\ UNCHANGED <<serverVars, active, counts, read, open, late>>

(* The request passed every check; the 101 reply is sent, but the           *)
(* connection is not registered yet.                                       *)
Upgrade(i) ==
    /\ pc[i] = "handshake"
    /\ Goto(i, "upgraded")
    /\ UNCHANGED <<serverVars, active, counts, read, open, late>>

Register(i) ==
    /\ pc[i] = "upgraded"
    /\ active' = active \union {i}
    /\ counts' = [counts EXCEPT !.total = @ + 1]
    /\ Goto(i, "reading")
    /\ UNCHANGED <<serverVars, read, open, late>>

Executes(f) == f \in {"command", "approval"}
Text(f) == f \in {"command", "approval", "query"}

Received == [counts EXCEPT !.messages = @ + 1]

After(f) == CASE f = "command" -> "executing"
              [] f = "approval" -> "approving"
              [] f \in {"query", "ping"} -> "replying"
              [] f = "pong" -> "reading"
              [] f = "last" -> "leaving"

(* One frame, up to the call of the command or approval handler.  What has *)
(* arrived can be read even after the socket was shut.                     *)
ReadFrame(i, f) ==
    /\ pc[i] = "reading"
    /\ read[i] < MaxFrames
    /\ read' = [read EXCEPT ![i] = @ + 1]
    /\ counts' = IF Text(f) THEN Received ELSE counts
    /\ late' = IF Executes(f) /\ i \notin open THEN [late EXCEPT ![i] = @ + 1] ELSE late
    /\ Goto(i, After(f))
    /\ UNCHANGED <<serverVars, active, open>>

(* The socket was shut, the client is gone, or it was idle for too long.   *)
ReadEnds(i) ==
    /\ pc[i] = "reading"
    /\ Goto(i, "leaving")
    /\ UNCHANGED <<serverVars, active, counts, read, open, late>>

Executed(i) == [counts EXCEPT
    !.commands = IF pc[i] = "executing" THEN @ + 1 ELSE @,
    !.approvals = IF pc[i] = "approving" THEN @ + 1 ELSE @]

Succeeds(i) ==
    /\ pc[i] \in {"executing", "approving"}
    /\ counts' = Executed(i)
    /\ Goto(i, "replying")
    /\ UNCHANGED <<serverVars, active, read, open, late>>

(* The handler raises, or the approval is denied: an error is answered.    *)
Fails(i) ==
    /\ pc[i] \in {"executing", "approving"}
    /\ Goto(i, "replying")
    /\ UNCHANGED <<serverVars, active, counts, read, open, late>>

AfterReply_Swallowed(i) == "reading"
AfterReply(i) == IF i \in open THEN "reading" ELSE "leaving"

(* A reply on a socket that was shut raises, which ends the loop.          *)
Reply(i) ==
    /\ pc[i] = "replying"
    /\ Goto(i, AfterReply(i))
    /\ UNCHANGED <<serverVars, active, counts, read, open, late>>

(* A reply that fails because the client is gone.                          *)
ReplyFails(i) ==
    /\ pc[i] = "replying"
    /\ i \in open
    /\ Goto(i, "leaving")
    /\ UNCHANGED <<serverVars, active, counts, read, open, late>>

Remaining_Kept(i) == IF i \in open THEN active \ {i} ELSE active
Remaining(i) == active \ {i}

Leave(i) ==
    /\ pc[i] = "leaving"
    /\ active' = Remaining(i)
    /\ Goto(i, "done")
    /\ UNCHANGED <<serverVars, counts, read, open, late>>

----------------------------------------------------------------------------
(* start and stop                                                          *)

Idle(k) == ctl[k].at = "idle"

(* With a listener on the port the bind raises and nothing changes.        *)
Start(k) ==
    /\ Idle(k)
    /\ ~Running
    /\ listening = {}
    /\ started < MaxListeners
    /\ started' = started + 1
    /\ server' = started + 1
    /\ listening' = listening \union {started + 1}
    /\ UNCHANGED <<seen, forgotten, ctl, connVars>>

BeginStop(k) ==
    /\ Idle(k)
    /\ server # 0
    /\ ctl' = [ctl EXCEPT ![k] = [at |-> "closing", server |-> server, toClose |-> active]]
    /\ seen' = seen \union active
    /\ UNCHANGED <<server, listening, started, forgotten, connVars>>

Shut_Forgotten(i) == open
Shut(i) == open \ {i}

CloseConnection(k) ==
    /\ ctl[k].at = "closing"
    /\ \E i \in ctl[k].toClose :
         /\ ctl' = [ctl EXCEPT ![k].toClose = @ \ {i}]
         /\ open' = Shut(i)
    /\ UNCHANGED <<server, listening, started, seen, forgotten, active, counts, pc,
                   read, late>>

(* shutdown, server_close and the join of the accepting thread.            *)
CloseListener(k) ==
    /\ ctl[k].at = "closing" /\ ctl[k].toClose = {}
    /\ listening' = listening \ {ctl[k].server}
    /\ ctl' = [ctl EXCEPT ![k].at = "forgetting"]
    /\ UNCHANGED <<server, started, seen, forgotten, connVars>>

Forget(k) ==
    /\ ctl[k].at = "forgetting"
    /\ server' = 0
    /\ forgotten' = forgotten \union active
    /\ active' = {}
    /\ ctl' = [ctl EXCEPT ![k] = NoStop]
    /\ UNCHANGED <<listening, started, seen, counts, pc, read, open, late>>

Next ==
    \/ Connect
    \/ \E i \in Connection :
         \/ \E f \in Frame : ReadFrame(i, f)
         \/ Refuse(i) \/ Upgrade(i) \/ Register(i) \/ ReadEnds(i) \/ Succeeds(i) \/ Fails(i) \/ Reply(i) \/ ReplyFails(i) \/ Leave(i)
    \/ \E k \in Controller :
         \/ Start(k) \/ BeginStop(k) \/ CloseConnection(k) \/ CloseListener(k)
         \/ Forget(k)

Spec == Init /\ [][Next]_vars

----------------------------------------------------------------------------
TypeOK ==
    /\ server \in 0..MaxListeners /\ started \in 0..MaxListeners
    /\ listening \subseteq Listener
    /\ active \subseteq Connection /\ open \subseteq Connection
    /\ seen \subseteq Connection /\ forgotten \subseteq Connection
    /\ counts \in [total : 0..Cardinality(Accepted), messages : Nat, commands : Nat,
                   approvals : Nat]
    /\ pc \in [Connection -> {"new", "handshake", "upgraded", "done"} \union InLoop]
    /\ read \in [Connection -> 0..MaxFrames] /\ late \in [Connection -> Nat]
    /\ ctl \in [Controller -> [at : {"idle", "closing", "forgetting"},
                               server : 0..MaxListeners, toClose : SUBSET Connection]]

(* _connections holds exactly the connections whose handler is between its *)
(* registration and its finally clause, but for those a stop has cleared.  *)
ActiveExact ==
    active = {i \in Connection : pc[i] \in InLoop} \ forgotten

(* Once stop has shut a connection, the handler may finish the message it  *)
(* is at and at most one more that had arrived: the first reply it cannot  *)
(* send ends it.                                                           *)
OneAfterShut == \A i \in Connection : late[i] <= 1

(* A connection that is registered when a stop begins is shut when no stop *)
(* is under way any more, however many stops and starts overlapped.        *)
StopShutsWhatItSaw == (\A k \in Controller : Idle(k)) => seen \intersect open = {}

(* "Stop the listener and close active client sockets." (stop): when the   *)
(* channel is down and nobody is starting or stopping it, no connection is *)
(* served.                                                                 *)
StopCloses ==
    server = 0 /\ (\A k \in Controller : Idle(k)) =>
        \A i \in open : pc[i] \notin {"reading", "executing", "approving"}
=============================================================================
