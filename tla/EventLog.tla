------------------------------ MODULE EventLog ------------------------------
(***************************************************************************)
(* The structured logger, core/logging.py, as a listener of the event bus. *)
(*                                                                         *)
(* attach_event_bus subscribes with the logger's lock held.                *)
(* detach_event_bus forgets the subscription with the lock held and        *)
(* withdraws it from the bus afterwards; shutdown detaches first, without  *)
(* the lock, and closes the logger when that is done.  Events are recorded *)
(* all the while by the threads that emit them, in emits that copied the   *)
(* listeners earlier, so the logger may hear an event that it is no longer *)
(* subscribed to, or when it is closed already, which raises.              *)
(*                                                                         *)
(* What is written, and the logger's own two lines about attaching and     *)
(* detaching, are left out.                                                *)
(***************************************************************************)
EXTENDS EventBus

VARIABLES
    remembered,     \* _event_subscription, or 0
    leaving,        \* subscriptions that a detach still has to withdraw
    own,            \* every subscription the logger ever made
    closer,         \* where shutdown is: "idle", "detaching" or "closing"
    closing,        \* the subscription it withdraws, or 0
    closed          \* _closed

logVars == <<remembered, leaving, own, closer, closing, closed>>
allVars == <<busVars, logVars>>

LogInit ==
    /\ BusInit
    /\ remembered = 0 /\ leaving = {} /\ own = {}
    /\ closer = "idle" /\ closing = 0 /\ closed = FALSE

-----------------------------------------------------------------------------
(* A second attachment is refused. *)
Attachable_Any == ~closed
Attachable == ~closed /\ remembered = 0

Attach ==
    /\ Attachable
    /\ Subscribe(WILDCARD, FALSE)
    /\ remembered' = Len(made) + 1
    /\ own' = own \union {Len(made) + 1}
    /\ UNCHANGED <<leaving, closer, closing, closed>>

Detach ==
    /\ remembered # 0
    /\ leaving' = leaving \union {remembered}
    /\ remembered' = 0
    /\ UNCHANGED <<busVars, own, closer, closing, closed>>

(* The bus may have been cleared in the meantime.                          *)
Withdraw(i) ==
    /\ listeners' = {l \in listeners : l.id # i}
    /\ UNCHANGED <<made, events, stack>>

EndDetach(i) ==
    /\ i \in leaving
    /\ Withdraw(i)
    /\ leaving' = leaving \ {i}
    /\ UNCHANGED <<remembered, own, closer, closing, closed>>

(* A shutdown while another is under way does what a detach does.          *)
BeginShutdown ==
    /\ closer = "idle" /\ ~closed
    /\ closer' = "detaching"
    /\ closing' = remembered
    /\ remembered' = 0
    /\ UNCHANGED <<busVars, leaving, own, closed>>

ShutdownDetached ==
    /\ closer = "detaching"
    /\ Withdraw(closing)
    /\ closer' = "closing" /\ closing' = 0
    /\ UNCHANGED <<remembered, leaving, own, closed>>

EndShutdown ==
    /\ closer = "closing"
    /\ closer' = "idle" /\ closed' = TRUE
    /\ UNCHANGED <<busVars, remembered, leaving, own, closing>>

-----------------------------------------------------------------------------
(* Emits, and the callbacks of the logger and of others.                   *)
OfLogger(t) == Inside(t) /\ Top(t).calling /\ Head(Top(t).todo) \in own

(* _record_event. *)
Record(t) ==
    /\ OfLogger(t) /\ ~closed
    /\ CallbackReturns(t)

RecordRaises(t) ==
    /\ OfLogger(t) /\ closed
    /\ CallbackRaises(t)

Bus ==
    /\ \/ \E n \in AnyName, once \in BOOLEAN : Subscribe(n, once)
       \/ \E i \in Id : Unsubscribe(i)
       \/ \E n \in AnyName : ClearListeners({n})
       \/ ClearListeners(AnyName)
       \/ \E t \in Thread :
            \/ Record(t) \/ RecordRaises(t)
            \/ CallListener(t)
            \/ \E outcome \in {"returned", "raised"} : EndEmit(t, outcome)
            \/ /\ ~OfLogger(t)
               /\ \/ \E n \in AnyName : Emit(t, n)
                  \/ CallbackReturns(t) \/ CallbackRaises(t)
    /\ UNCHANGED logVars

LogNext ==
    \/ Bus
    \/ Attach \/ Detach \/ BeginShutdown \/ ShutdownDetached \/ EndShutdown
    \/ \E i \in leaving : EndDetach(i)

LogSpec == LogInit /\ [][LogNext]_allVars

(* The bus calls the logger through the one subscription it remembers, or  *)
(* one that a detach under way is about to withdraw: none is forgotten on  *)
(* the bus, where nobody could withdraw it and every event would be        *)
(* recorded twice (logging.py:293).                                        *)
NoForgottenEar ==
    \A l \in listeners : l.id \in own =>
        l.id \in leaving \union {remembered, closing}
=============================================================================
