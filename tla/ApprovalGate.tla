---------------------------- MODULE ApprovalGate ----------------------------
(***************************************************************************)
(* The owner-controlled one-time approval gate, agents/approval.py.        *)
(*                                                                         *)
(* Several threads call the gate.  The code reads the clock BEFORE it      *)
(* takes the gate's lock (authorize_or_request, cancel, approve, deny), so *)
(* a call is two steps: Begin... samples the time, and the step that       *)
(* follows is the body under the lock.  The events a call produces are     *)
(* published after the lock is released, one by one, by Publish.           *)
(*                                                                         *)
(* An approval's identifier is a uuid in the code; here it is the sequence *)
(* number given to it in the same breath.  A fingerprint stands for the    *)
(* protected request it hashes.                                            *)
(***************************************************************************)
EXTENDS Integers, Sequences, FiniteSets

CONSTANTS
    Proc,           \* threads that call the gate
    Fingerprint,    \* the protected requests agents may ask for
    MaxPending,     \* max_pending
    HistoryLimit,   \* history_limit
    TTL,            \* approval_ttl_seconds
    MaxRequests,    \* bound: approvals ever created
    MaxTime         \* bound: the clock stops here

ASSUME GateAssumption ==
    /\ IsFiniteSet(Proc)
    /\ IsFiniteSet(Fingerprint)
    /\ MaxPending \in Nat \ {0}
    /\ HistoryLimit \in Nat \ {0}
    /\ TTL \in Nat \ {0}
    /\ MaxRequests \in Nat
    /\ MaxTime \in Nat

VARIABLES
    state,      \* "running" or "stopped"
    clock,      \* the wall clock, shared by every caller
    records,    \* identifier -> record, for the records the gate retains
    active,     \* fingerprint -> identifier (_active_by_fingerprint)
    sequence,   \* _sequence, and _request_count: they move together
    counts,     \* the approval, denial, consumption and expiry counters
    history,    \* the bounded deque of snapshots taken at each transition
    lastError,  \* _last_error
    call,       \* what each thread is about to do under the lock
    outbox,     \* events each thread has still to publish
    published   \* events the bus has been given

gateVars == <<records, active, sequence, counts, history>>
vars == <<state, clock, records, active, sequence, counts, history,
          lastError, call, outbox, published>>

Id == 1..MaxRequests
OpenStatus == {"pending", "approved", "denied"}
TerminalStatus == {"consumed", "cancelled", "expired"}
Status == OpenStatus \union TerminalStatus
Never == -1             \* a timestamp that is still None

Record == [fp : Fingerprint, status : Status, expires : Nat,
           decided : Nat \union {Never}, consumed : Nat \union {Never}]
Event == [id : Id, status : Status]

NoCall == [op |-> "none"]
Call == {NoCall}
        \union [op : {"authorize"}, fp : Fingerprint, now : Nat]
        \union [op : {"approved", "denied", "cancelled"}, id : Id, now : Nat]

-----------------------------------------------------------------------------
(* Operators on a table of records.  A definition X_y is a mutant of X: a  *)
(* mistake that would be easy to make in that code.  No action uses one;   *)
(* each is there to show that some property would notice it.               *)

Open(recs) == {i \in DOMAIN recs : recs[i].status \in OpenStatus}
Terminal(recs) == {i \in DOMAIN recs : recs[i].status \in TerminalStatus}
Pending(recs) == {i \in DOMAIN recs : recs[i].status = "pending"}

(* What lets authorize_or_request consume instead of report. *)
Usable_Undecided(rec) == rec.status # "denied"
Usable(rec) == rec.status = "approved"

(* _prune_locked: of the terminal records, only the HistoryLimit that were *)
(* created last stay.                                                      *)
Excess_OneLess(recs) ==
    {i \in Terminal(recs) :
        Cardinality({j \in Terminal(recs) : j > i}) > HistoryLimit}
Excess(recs) ==
    {i \in Terminal(recs) :
        Cardinality({j \in Terminal(recs) : j > i}) >= HistoryLimit}
Prune(recs) == [i \in DOMAIN recs \ Excess(recs) |-> recs[i]]

(* What _expire_locked(t) finds, and the table and index it leaves.        *)
Expirable_Late(t) ==
    {i \in {active[f] : f \in DOMAIN active} :
        /\ i \in DOMAIN records
        /\ records[i].status \in {"pending", "approved"}
        /\ t > records[i].expires}
Expirable_Denied(t) ==
    {i \in {active[f] : f \in DOMAIN active} :
        /\ i \in DOMAIN records
        /\ t >= records[i].expires}
Expirable(t) ==
    {i \in {active[f] : f \in DOMAIN active} :
        /\ i \in DOMAIN records
        /\ records[i].status \in {"pending", "approved"}
        /\ t >= records[i].expires}
Swept(t) ==
    Prune([i \in DOMAIN records |->
        IF i \in Expirable(t)
        THEN [records[i] EXCEPT !.status = "expired", !.decided = t]
        ELSE records[i]])
SweptIndex_Kept(t) == active
SweptIndex(t) ==
    [f \in {g \in DOMAIN active : active[g] \notin Expirable(t)} |-> active[f]]

(* Expired snapshots come in the order of the index, which is creation     *)
(* order: a fingerprint enters the dict with its new request.              *)
Ascending(S) ==
    [k \in 1..Cardinality(S) |-> CHOOSE i \in S : Cardinality({j \in S : j < i}) = k - 1]
ExpiredEvents(t) ==
    LET ids == Ascending(Expirable(t))
    IN  [k \in DOMAIN ids |-> [id |-> ids[k], status |-> "expired"]]

(* deque(maxlen = HistoryLimit).extend(events) *)
Remember(events) ==
    LET all == history \o events
        dropped == IF Len(all) > HistoryLimit THEN Len(all) - HistoryLimit ELSE 0
    IN  SubSeq(all, dropped + 1, Len(all))

Without(index, f) == [g \in DOMAIN index \ {f} |-> index[g]]
With(index, f, i) ==
    [g \in DOMAIN index \union {f} |-> IF g = f THEN i ELSE index[g]]

-----------------------------------------------------------------------------
Init ==
    /\ state = "stopped"
    /\ clock = 0
    /\ records = [i \in {} |-> 0]
    /\ active = [f \in {} |-> 0]
    /\ sequence = 0
    /\ counts = [approved |-> 0, denied |-> 0, consumed |-> 0, expired |-> 0]
    /\ history = <<>>
    /\ lastError = "none"
    /\ call = [p \in Proc |-> NoCall]
    /\ outbox = [p \in Proc |-> <<>>]
    /\ published = {}

Idle(p) == call[p] = NoCall /\ outbox[p] = <<>>

Tick ==
    /\ clock < MaxTime
    /\ clock' = clock + 1
    /\ UNCHANGED <<state, gateVars, lastError, call, outbox, published>>

Start(p) ==
    /\ Idle(p)
    /\ state = "stopped"
    /\ state' = "running"
    /\ lastError' = "none"
    /\ UNCHANGED <<clock, gateVars, call, outbox, published>>

Stop(p) ==
    /\ Idle(p)
    /\ state = "running"
    /\ state' = "stopped"
    /\ UNCHANGED <<clock, gateVars, lastError, call, outbox, published>>

(* The clock read that precedes the lock.  The first guard keeps the       *)
(* requests in flight within the bound MaxRequests.                        *)
BeginAuthorize(p, f) ==
    /\ Idle(p)
    /\ sequence + Cardinality({q \in Proc : call[q].op = "authorize"}) < MaxRequests
    /\ call' = [call EXCEPT ![p] = [op |-> "authorize", fp |-> f, now |-> clock]]
    /\ UNCHANGED <<state, clock, gateVars, lastError, outbox, published>>

BeginDecision(p, verdict, i) ==
    /\ Idle(p)
    /\ i <= sequence
    /\ call' = [call EXCEPT ![p] = [op |-> verdict, id |-> i, now |-> clock]]
    /\ UNCHANGED <<state, clock, gateVars, lastError, outbox, published>>

(* _validate_owner refuses any other identity before the clock is read.    *)
RejectIdentity(p) ==
    /\ Idle(p)
    /\ lastError' = "identity"
    /\ UNCHANGED <<state, clock, gateVars, call, outbox, published>>

(* _require_running_locked raises: nothing has been swept yet.             *)
RaiseStopped(p) ==
    /\ call[p] # NoCall
    /\ state = "stopped"
    /\ call' = [call EXCEPT ![p] = NoCall]
    /\ UNCHANGED <<state, clock, gateVars, lastError, outbox, published>>

(* A locked body that sweeps and then leaves normally: the expired events, *)
(* then its own, go to the history at once and to the bus afterwards.      *)
Leave(p, t, own) ==
    /\ history' = Remember(ExpiredEvents(t) \o own)
    /\ outbox' = [outbox EXCEPT ![p] = ExpiredEvents(t) \o own]
    /\ call' = [call EXCEPT ![p] = NoCall]
    /\ UNCHANGED <<state, clock, published>>

(* A locked body that sweeps and then raises: the expiry stays, and the    *)
(* events it returned are lost with the exception.                         *)
Abandon(p, t) ==
    /\ records' = Swept(t)
    /\ active' = SweptIndex(t)
    /\ counts' = [counts EXCEPT !.expired = @ + Cardinality(Expirable(t))]
    /\ history' = Remember(ExpiredEvents(t))
    /\ call' = [call EXCEPT ![p] = NoCall]
    /\ UNCHANGED <<state, clock, sequence, outbox, published>>

Expire(t) == [counts EXCEPT !.expired = @ + Cardinality(Expirable(t))]

-----------------------------------------------------------------------------
(* authorize_or_request under the lock: four outcomes. *)

Entered(p, op) == call[p].op = op /\ state = "running"

Consume(p) ==
    /\ Entered(p, "authorize")
    /\ LET t == call[p].now
           f == call[p].fp
           recs == Swept(t)
           index == SweptIndex(t)
       IN  /\ f \in DOMAIN index
           /\ Usable(recs[index[f]])
           /\ records' = Prune([recs EXCEPT ![index[f]].status = "consumed",
                                            ![index[f]].consumed = t])
           /\ active' = Without(index, f)
           /\ counts' = [Expire(t) EXCEPT !.consumed = @ + 1]
           /\ Leave(p, t, <<[id |-> index[f], status |-> "consumed"]>>)
    /\ UNCHANGED <<sequence, lastError>>

Replay(p) ==
    /\ Entered(p, "authorize")
    /\ LET t == call[p].now
           f == call[p].fp
       IN  /\ f \in DOMAIN SweptIndex(t)
           /\ ~Usable(Swept(t)[SweptIndex(t)[f]])
           /\ records' = Swept(t)
           /\ active' = SweptIndex(t)
           /\ counts' = Expire(t)
           /\ Leave(p, t, <<>>)
    /\ UNCHANGED <<sequence, lastError>>

Request(p) ==
    /\ Entered(p, "authorize")
    /\ LET t == call[p].now
           f == call[p].fp
           i == sequence + 1
           recs == Swept(t)
           index == SweptIndex(t)
           new == [fp |-> f, status |-> "pending", expires |-> t + TTL,
                   decided |-> Never, consumed |-> Never]
       IN  /\ f \notin DOMAIN index
           /\ Cardinality(Open(recs)) < MaxPending
           /\ sequence' = i
           /\ records' = Prune(With(recs, i, new))
           /\ active' = With(index, f, i)
           /\ counts' = Expire(t)
           /\ Leave(p, t, <<[id |-> i, status |-> "pending"]>>)
    /\ lastError' = "none"

RaiseFull(p) ==
    /\ Entered(p, "authorize")
    /\ LET t == call[p].now
       IN  /\ call[p].fp \notin DOMAIN SweptIndex(t)
           /\ Cardinality(Open(Swept(t))) >= MaxPending
           /\ Abandon(p, t)
    /\ lastError' = "capacity"

-----------------------------------------------------------------------------
(* approve and deny (_decide), and cancel. *)

Decide(p, verdict) ==
    /\ Entered(p, verdict)
    /\ LET t == call[p].now
           i == call[p].id
           recs == Swept(t)
       IN  /\ i \in DOMAIN recs
           /\ recs[i].status = "pending"
           /\ records' = Prune([recs EXCEPT ![i].status = verdict, ![i].decided = t])
           /\ active' = SweptIndex(t)
           /\ counts' = [Expire(t) EXCEPT ![verdict] = @ + 1]
           /\ Leave(p, t, <<[id |-> i, status |-> verdict]>>)
    /\ UNCHANGED <<sequence, lastError>>

RaiseUndecidable(p, verdict) ==
    /\ Entered(p, verdict)
    /\ LET t == call[p].now
       IN  /\ ~ \E i \in DOMAIN Swept(t) :
                    i = call[p].id /\ Swept(t)[i].status = "pending"
           /\ Abandon(p, t)
    /\ UNCHANGED lastError

Cancel(p) ==
    /\ Entered(p, "cancelled")
    /\ LET t == call[p].now
           i == call[p].id
           recs == Swept(t)
       IN  /\ i \in Open(recs)
           /\ records' = Prune([recs EXCEPT ![i].status = "cancelled", ![i].decided = t])
           /\ active' = Without(SweptIndex(t), recs[i].fp)
           /\ counts' = Expire(t)
           /\ Leave(p, t, <<[id |-> i, status |-> "cancelled"]>>)
    /\ UNCHANGED <<sequence, lastError>>

RaiseUncancellable(p) ==
    /\ Entered(p, "cancelled")
    /\ call[p].id \notin Open(Swept(call[p].now))
    /\ Abandon(p, call[p].now)
    /\ UNCHANGED lastError

-----------------------------------------------------------------------------
(* The readers sweep too, at the time they hold the lock, running or not.  *)

(* list_requests, snapshot, and a get that finds its record *)
ReadAndPublish(p) ==
    /\ Idle(p)
    /\ records' = Swept(clock)
    /\ active' = SweptIndex(clock)
    /\ counts' = Expire(clock)
    /\ Leave(p, clock, <<>>)
    /\ UNCHANGED <<sequence, lastError>>

(* pending_count, and a get whose record is not there (any more) *)
ReadSilently(p) ==
    /\ Idle(p)
    /\ Abandon(p, clock)
    /\ UNCHANGED lastError

Publish_FirstOnly(p) ==
    /\ outbox[p] # <<>>
    /\ published' = published \union {Head(outbox[p])}
    /\ outbox' = [outbox EXCEPT ![p] = <<>>]
    /\ UNCHANGED <<state, clock, gateVars, lastError, call>>

Publish(p) ==
    /\ outbox[p] # <<>>
    /\ published' = published \union {Head(outbox[p])}
    /\ outbox' = [outbox EXCEPT ![p] = Tail(@)]
    /\ UNCHANGED <<state, clock, gateVars, lastError, call>>

-----------------------------------------------------------------------------
Locked(p) ==
    \/ Consume(p) \/ Replay(p) \/ Request(p) \/ RaiseFull(p)
    \/ \E verdict \in {"approved", "denied"} :
          Decide(p, verdict) \/ RaiseUndecidable(p, verdict)
    \/ Cancel(p) \/ RaiseUncancellable(p)
    \/ RaiseStopped(p)

Next ==
    \/ Tick
    \/ \E p \in Proc :
        \/ Start(p) \/ Stop(p)
        \/ \E f \in Fingerprint : BeginAuthorize(p, f)
        \/ \E verdict \in {"approved", "denied", "cancelled"}, i \in Id :
              BeginDecision(p, verdict, i)
        \/ RejectIdentity(p)
        \/ Locked(p)
        \/ ReadAndPublish(p) \/ ReadSilently(p)
        \/ Publish(p)

Spec == Init /\ [][Next]_vars

-----------------------------------------------------------------------------
(* The types of the state, and that the deque of snapshots is bounded      *)
(* (approval.py:186).                                                      *)
TypeOK ==
    /\ state \in {"running", "stopped"}
    /\ clock \in 0..MaxTime
    /\ DOMAIN records \subseteq 1..sequence
    /\ \A i \in DOMAIN records : records[i] \in Record
    /\ DOMAIN active \subseteq Fingerprint
    /\ \A f \in DOMAIN active : active[f] \in 1..sequence
    /\ sequence \in 0..MaxRequests
    /\ counts \in [{"approved", "denied", "consumed", "expired"} -> Nat]
    /\ history \in Seq(Event) /\ Len(history) <= HistoryLimit
    /\ lastError \in {"none", "capacity", "identity"}
    /\ call \in [Proc -> Call]
    /\ outbox \in [Proc -> Seq(Event)]
    /\ published \subseteq Event

(* The fingerprint index and the table of records tell the same story: a   *)
(* fingerprint leads to an open record of its own, and every open record   *)
(* is found through its fingerprint, so a request has one approval at most *)
(* and no open approval is out of reach of a replay.                       *)
IndexExact ==
    /\ \A f \in DOMAIN active :
          /\ active[f] \in DOMAIN records
          /\ records[active[f]].fp = f
          /\ records[active[f]].status \notin TerminalStatus
    /\ \A i \in DOMAIN records :
          records[i].status \notin TerminalStatus =>
             records[i].fp \in DOMAIN active /\ active[records[i].fp] = i

(* No decision and no use bears a time at or after the expiry of what it   *)
(* decided or used, although each is stamped with a time read before the   *)
(* lock, when other calls may have run in between (approval.py:283, 559).  *)
DecidedInTime ==
    \A i \in DOMAIN records :
        /\ records[i].status \in {"approved", "denied"} =>
               records[i].decided # Never /\ records[i].decided < records[i].expires
        /\ records[i].status = "consumed" => records[i].consumed < records[i].expires

(* A finished record never changes again; a refusal ends only by the       *)
(* owner's cancellation, never by time.                                    *)
TerminalFinal ==
    [][\A i \in DOMAIN records :
        /\ records[i].status \in TerminalStatus =>
              i \notin DOMAIN records' \/ records'[i] = records[i]
        /\ records[i].status = "denied" /\ i \in DOMAIN records' =>
              records'[i].status \in {"denied", "cancelled"}]_vars

(* Pruning takes the oldest finished records, and no more than it must:    *)
(* nothing that stays finished is older than something that was dropped,   *)
(* and a step that drops anything leaves exactly HistoryLimit finished     *)
(* records, although it may prune twice (approval.py:752).                 *)
OldestPrunedFirst ==
    [][\A gone \in DOMAIN records \ DOMAIN records' :
        /\ \A kept \in DOMAIN records' :
              records'[kept].status \in TerminalStatus => gone < kept
        /\ Cardinality(Terminal(records')) = HistoryLimit]_vars

(* The gate implements the one-time grant of each protected request.       *)
Standing ==
    [f \in Fingerprint |->
        IF f \in DOMAIN active THEN records[active[f]].status ELSE "none"]
Grants == INSTANCE OneTimeGrant
            WITH Subject <- Fingerprint, standing <- Standing,
                 grants <- counts.approved, uses <- counts.consumed
ImplementsOneTimeGrant == Grants!Spec

(* Whatever the owner or an agent did to a request that is still on record *)
(* has been announced, or is still to be by the thread that did it, even   *)
(* when the same call first had other requests to expire                   *)
(* (approval.py:837).  What time alone did may be lost (Abandon).          *)
TransitionsAnnounced ==
    \A i \in DOMAIN records : records[i].status # "expired" =>
        LET event == [id |-> i, status |-> records[i].status]
        IN  \/ event \in published
            \/ \E p \in Proc : \E n \in DOMAIN outbox[p] : outbox[p][n] = event
=============================================================================
