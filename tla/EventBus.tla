------------------------------ MODULE EventBus ------------------------------
(***************************************************************************)
(* The synchronous event bus, core/eventbus.py.                            *)
(*                                                                         *)
(* emit copies the listeners of an event under the bus's lock and calls    *)
(* them after it has released it, in the thread that emits.  Meanwhile     *)
(* other threads, and the callbacks themselves, subscribe, unsubscribe,    *)
(* clear and emit: a thread has a stack of the emits it is inside.         *)
(* A listener's identifier is a uuid in the code; here it is its place in  *)
(* the order of subscription, which is the order of every dict bucket: the *)
(* buckets are the set of the listeners, read in the order of the ids.     *)
(*                                                                         *)
(* A definition X_y is a mutant of X that no action uses: it is there to   *)
(* show that a property notices the mistake.                               *)
(***************************************************************************)
EXTENDS Integers, Sequences, SequencesExt, FiniteSets

CONSTANTS
    Thread,         \* threads that emit
    Name,           \* event names other than the wildcard
    MaxListeners,   \* bound: subscriptions ever made
    MaxEvents,      \* bound: events ever emitted
    MaxDepth        \* bound: emits a thread is inside at once

ASSUME BusAssumption ==
    /\ MaxListeners \in Nat
    /\ MaxEvents \in Nat
    /\ MaxDepth \in Nat \ {0}
    /\ "*" \notin Name

VARIABLES
    listeners,      \* the subscribed listeners (_listeners)
    made,           \* every subscription ever made
    events,         \* for each event by sequence number: who is to hear it,
                    \* who was called, and who raised
    stack           \* the emits each thread is inside, innermost last

busVars == <<listeners, made, events, stack>>

WILDCARD == "*"
AnyName == Name \union {WILDCARD}
Id == 1..MaxListeners
Listener == [id : Id, name : AnyName, once : BOOLEAN]

-----------------------------------------------------------------------------
(* Who is to hear an event: the listeners of its name, then the wildcard's,*)
(* each in the order of subscription: the k-th has k - 1 before it.        *)
Hearing(n) == {l \in listeners : l.name \in {n, WILDCARD}}
Ahead(j, l) == IF j.name = l.name THEN j.id < l.id ELSE l.name = WILDCARD
Audience(n) ==
    [k \in 1..Cardinality(Hearing(n)) |->
        CHOOSE l \in Hearing(n) :
            Cardinality({j \in Hearing(n) : Ahead(j, l)}) = k - 1]

(* What is left of the listeners once an event has been copied out.        *)
Kept_All(n) == listeners
Kept(n) == {l \in listeners : ~(l.once /\ l \in Hearing(n))}

-----------------------------------------------------------------------------
BusInit ==
    /\ listeners = {}
    /\ made = <<>>
    /\ events = <<>>
    /\ stack = [t \in Thread |-> <<>>]

NewListener(n, once) == [id |-> Len(made) + 1, name |-> n, once |-> once]

Subscribe(n, once) ==
    /\ Len(made) < MaxListeners
    /\ made' = Append(made, NewListener(n, once))
    /\ listeners' = listeners \union {NewListener(n, once)}
    /\ UNCHANGED <<events, stack>>

Unsubscribe(i) ==
    /\ listeners' = {l \in listeners : l.id # i}
    /\ listeners' # listeners
    /\ UNCHANGED <<made, events, stack>>

(* clear(name), and clear() for every name. *)
ClearListeners(names) ==
    /\ listeners' = {l \in listeners : l.name \notin names}
    /\ UNCHANGED <<made, events, stack>>

-----------------------------------------------------------------------------
(* emit *)

Top(t) == Last(stack[t])
Inside(t) == stack[t] # <<>>
Quiet(t) == Inside(t) /\ ~Top(t).calling

(* A thread emits of its own accord, or in the callback it is in.          *)
Emit(t, n) ==
    /\ Inside(t) => Top(t).calling
    /\ Len(stack[t]) < MaxDepth
    /\ Len(events) < MaxEvents
    /\ LET audience == [k \in DOMAIN Audience(n) |-> Audience(n)[k].id]
       IN  /\ events' = Append(events, [audience |-> audience, called |-> <<>>,
                                        failed |-> {}, outcome |-> "open"])
           /\ stack' = [stack EXCEPT ![t] =
                  Append(@, [event |-> Len(events) + 1, todo |-> audience,
                             calling |-> FALSE])]
    /\ listeners' = Kept(n)
    /\ UNCHANGED made

CallListener(t) ==
    /\ Quiet(t) /\ Top(t).todo # <<>>
    /\ stack' = [stack EXCEPT ![t][Len(stack[t])].calling = TRUE]
    /\ events' = [events EXCEPT ![Top(t).event].called = Append(@, Head(Top(t).todo))]
    /\ UNCHANGED <<listeners, made>>

(* The next listener is called whether this one returned or raised.        *)
NextListener(t) ==
    [stack EXCEPT ![t][Len(stack[t])].calling = FALSE,
                  ![t][Len(stack[t])].todo = Tail(@)]

CallbackReturns(t) ==
    /\ Inside(t) /\ Top(t).calling
    /\ stack' = NextListener(t)
    /\ UNCHANGED <<listeners, made, events>>

CallbackRaises_Last(t) ==
    /\ Inside(t) /\ Top(t).calling
    /\ stack' = [stack EXCEPT ![t][Len(stack[t])].calling = FALSE,
                              ![t][Len(stack[t])].todo = <<>>]
    /\ events' = [events EXCEPT ![Top(t).event].failed = @ \union {Head(Top(t).todo)}]
    /\ UNCHANGED <<listeners, made>>
CallbackRaises(t) ==
    /\ Inside(t) /\ Top(t).calling
    /\ stack' = NextListener(t)
    /\ events' = [events EXCEPT ![Top(t).event].failed = @ \union {Head(Top(t).todo)}]
    /\ UNCHANGED <<listeners, made>>

(* emit returns or, when a listener has raised and it was asked to (with   *)
(* raise_exceptions), raises EventDispatchError to who emitted: an outer   *)
(* callback then lets it through (CallbackRaises) or catches it.           *)
EndEmit(t, outcome) ==
    /\ Quiet(t) /\ Top(t).todo = <<>>
    /\ outcome = "raised" => events[Top(t).event].failed # {}
    /\ stack' = [stack EXCEPT ![t] = Front(@)]
    /\ events' = [events EXCEPT ![Top(t).event].outcome = outcome]
    /\ UNCHANGED <<listeners, made>>

-----------------------------------------------------------------------------
BusNext ==
    \/ \E n \in AnyName, once \in BOOLEAN : Subscribe(n, once)
    \/ \E i \in Id : Unsubscribe(i)
    \/ \E n \in AnyName : ClearListeners({n})
    \/ ClearListeners(AnyName)
    \/ \E t \in Thread :
        \/ \E n \in AnyName : Emit(t, n)
        \/ CallListener(t) \/ CallbackReturns(t) \/ CallbackRaises(t)
        \/ \E outcome \in {"returned", "raised"} : EndEmit(t, outcome)

BusSpec == BusInit /\ [][BusNext]_busVars

-----------------------------------------------------------------------------
(* The types of the state: a listener on the bus has been subscribed, and  *)
(* its identifier is its own.                                              *)
BusTypeOK ==
    /\ made \in Seq(Listener) /\ Len(made) <= MaxListeners
    /\ listeners \subseteq Range(made)
    /\ \A k \in DOMAIN made : made[k].id = k
    /\ \A e \in DOMAIN events :
          /\ events[e].audience \in Seq(Id) /\ events[e].called \in Seq(Id)
          /\ events[e].failed \subseteq Range(events[e].called)
          /\ events[e].outcome \in {"open", "returned", "raised"}
    /\ \A t \in Thread : \A d \in DOMAIN stack[t] :
          /\ stack[t][d].event \in DOMAIN events
          /\ stack[t][d].todo \in Seq(Id)

(* A listener subscribed with once is called once at most, however many    *)
(* threads emit, and even when its own callback emits the event again      *)
(* (eventbus.py:145).                                                      *)
OnceAtMostOnce ==
    \A l \in {k \in DOMAIN made : made[k].once} :
        /\ Cardinality({e \in DOMAIN events : l \in Range(events[e].called)}) <= 1
        /\ \A e \in DOMAIN events : \A j, k \in DOMAIN events[e].called :
              events[e].called[j] = l /\ events[e].called[k] = l => j = k

(* Every listener that was subscribed when an event was emitted is called  *)
(* for it, in the order it was copied out, whichever listeners raise and   *)
(* whatever is unsubscribed or emitted meanwhile (eventbus.py:65).         *)
EveryoneHears ==
    \A e \in DOMAIN events :
        /\ events[e].called = SubSeq(events[e].audience, 1, Len(events[e].called))
        /\ events[e].outcome # "open" => events[e].called = events[e].audience
=============================================================================
