----------------------------- MODULE CoreProofs -----------------------------
(***************************************************************************)
(* Proofs about the scheduler (Scheduler) and about the event bus with the *)
(* logger on it (EventLog), for any threads, tasks, events and bounds.     *)
(*                                                                         *)
(* That the worker alive is the one _thread names is proved for one thread *)
(* at a time that starts and stops it, as the lock of the service manager  *)
(* sees to.  stop forgets whatever worker _thread names when its join is   *)
(* over (scheduler.py:296); that this is the worker it joined is what      *)
(* makes the proof, and what needs the one controller.                     *)
(*                                                                         *)
(* What becomes of a task is proved for any number of controllers: where   *)
(* each one-time task is (InOnePlace), which needs the listing of the due  *)
(* tasks to hold each once, and when a recurring one is due next (Spaced)  *)
(* after what its takers read, all of it past by the clock (RInv).         *)
(* How far a worker is from looking at the stop event, and from taking     *)
(* what is due, goes down with each of its steps and never up (WorkLeft,   *)
(* TakeLeft); that _thread names it is again what needs one controller.    *)
(*                                                                         *)
(* On the bus, what was copied out under the lock decides: who is in whose *)
(* audience (Copied), which again needs the listing to hold each listener  *)
(* once, and where each emit under way is in its own (Dispatched).         *)
(***************************************************************************)
EXTENDS Scheduler, EventLog, FiniteSetTheorems, SequenceTheorems, TLAPS

Place == {"idle", "take", "run", "calling", "wait", "loop", "new", "dead", "signal", "join"}

IInv ==
    /\ pc \in [Actor \union Controller -> Place]
    /\ target \in [Controller -> Nat]
    /\ thread \in Nat /\ created \in Nat
    /\ WorkerKnown
    \* what is being stopped is what _thread names
    /\ \A c \in Controller : pc[c] \in {"signal", "join"} => target[c] = thread

-----------------------------------------------------------------------------
LEMMA InitEstablishes == Init => IInv
<1> SUFFICES ASSUME Init PROVE IInv
  OBVIOUS
<1>1. pc \in [Actor \union Controller -> Place]
  BY DEF Init, Place
<1>2. \A c \in Controller : pc[c] = "idle"
  BY SchedulerAssumption DEF Init, Worker, Actor
<1>3. \A w \in Worker : pc[w] = "new"
  BY DEF Init, Actor
<1> QED
  BY <1>1, <1>2, <1>3 DEF Init, IInv, WorkerKnown, Alive

(* A step of run_pending or of the worker's loop starts nobody and stops   *)
(* nobody else.                                                            *)
LEMMA ActorStep ==
    ASSUME IInv, NEW a \in Actor,
           NEW l \in {"take", "run", "calling", "wait", "loop", "dead", "idle"},
           a \in Worker => pc[a] \notin {"new", "dead"},
           pc' = [pc EXCEPT ![a] = l],
           UNCHANGED <<target, thread, created>>
    PROVE  IInv'
<1>1. \A b \in Actor \union Controller : pc'[b] = IF b = a THEN l ELSE pc[b]
  BY DEF IInv
<1>2. pc' \in [Actor \union Controller -> Place]
  BY DEF IInv, Place
<1>3. Alive' \subseteq Alive
  BY <1>1 DEF Alive, Worker, Actor
<1> QED
  BY <1>1, <1>2, <1>3 DEF IInv, WorkerKnown

(* A step of stop that goes from one place to another.                     *)
LEMMA ControllerStep ==
    ASSUME IInv, NEW c \in Controller, NEW l \in {"idle", "join"},
           l = "join" => pc[c] = "signal",
           pc' = [pc EXCEPT ![c] = l],
           UNCHANGED <<target, thread, created>>
    PROVE  IInv'
<1>1. \A b \in Actor \union Controller : pc'[b] = IF b = c THEN l ELSE pc[b]
  BY DEF IInv
<1>2. pc' \in [Actor \union Controller -> Place]
  BY DEF IInv, Place
<1>3. c \notin Worker
  BY SchedulerAssumption DEF Worker
<1>4. Alive' = Alive
  BY <1>1, <1>3 DEF Alive, Worker, Actor
<1> QED
  BY <1>1, <1>2, <1>4 DEF IInv, WorkerKnown

LEMMA StepKeeps ==
    ASSUME \A c, d \in Controller : c = d, IInv, [Next]_vars
    PROVE  IInv'
<1>1. ASSUME UNCHANGED <<pc, target, thread, created>> PROVE IInv'
  BY <1>1 DEF IInv, WorkerKnown, Alive
<1>2. CASE Tick \/ ScheduleOnce \/ ScheduleEvery \/ Clear \/ UNCHANGED vars
  BY <1>1, <1>2 DEF Tick, ScheduleOnce, ScheduleEvery, Add, Clear, vars
<1>3. ASSUME NEW i \in Task, Cancel(i) PROVE IInv'
  BY <1>1, <1>3 DEF Cancel
<1>4. ASSUME NEW a \in Actor, Running(a) PROVE IInv'
  <2>1. PICK l \in {"run", "calling", "wait", "idle"} :
          /\ pc' = [pc EXCEPT ![a] = l]
          /\ pc[a] \notin {"new", "dead"}
          /\ UNCHANGED <<target, thread, created>>
    BY <1>4 DEF Running, TakeDue, StartTask, TaskEnds, EndRun
  <2> QED
    BY <2>1, ActorStep
<1>5. ASSUME NEW a \in Actor, ReadClock(a) PROVE IInv'
  <2>1. /\ pc' = [pc EXCEPT ![a] = "take"]
        /\ a \in Worker => pc[a] \notin {"new", "dead"}
        /\ UNCHANGED <<target, thread, created>>
    BY <1>5, SchedulerAssumption DEF ReadClock, Worker
  <2> QED
    BY <2>1, ActorStep
<1>6. ASSUME NEW w \in Worker, EndWait(w) \/ WorkerExits(w) PROVE IInv'
  <2>1. PICK l \in {"loop", "dead"} :
          /\ pc' = [pc EXCEPT ![w] = l]
          /\ pc[w] \notin {"new", "dead"}
          /\ UNCHANGED <<target, thread, created>>
    BY <1>6 DEF EndWait, WorkerExits
  <2> QED
    BY <2>1, ActorStep DEF Actor
<1>7. ASSUME NEW c \in Controller, Start(c) PROVE IInv'
  <2>1. Alive = {}
    BY <1>7 DEF Start, Startable, IInv, WorkerKnown
  <2>2. /\ thread' = created + 1 /\ created' = created + 1 /\ target' = target
        /\ pc' = [pc EXCEPT ![created + 1] = "loop"] /\ pc[c] = "idle"
    BY <1>7 DEF Start, Idle
  <2>3. created + 1 \in Worker
    BY <1>7, SchedulerAssumption DEF Start, IInv, Worker
  <2>4. /\ pc' \in [Actor \union Controller -> Place]
        /\ \A b \in Actor \union Controller : pc'[b] = IF b = created + 1 THEN "loop" ELSE pc[b]
    BY <2>2, <2>3 DEF IInv, Place, Actor
  <2>5. Alive' \subseteq {created + 1}
    BY <2>1, <2>4 DEF Alive, Actor, Worker
  <2>6. \A d \in Controller : pc'[d] = "idle"
    BY <2>2, <2>3, <2>4, SchedulerAssumption DEF Worker
  <2> QED
    BY <2>2, <2>4, <2>5, <2>6 DEF IInv, WorkerKnown
<1>8. ASSUME NEW c \in Controller, BeginStop(c) PROVE IInv'
  <2>1. /\ target' = [target EXCEPT ![c] = thread] /\ pc' = [pc EXCEPT ![c] = "signal"]
        /\ UNCHANGED <<thread, created>>
    BY <1>8 DEF BeginStop
  <2>2. /\ pc' \in [Actor \union Controller -> Place] /\ target' \in [Controller -> Nat]
        /\ target'[c] = thread
        /\ \A b \in Actor \union Controller : pc'[b] = IF b = c THEN "signal" ELSE pc[b]
    BY <2>1 DEF IInv, Place
  <2>3. Alive' = Alive
    BY <2>2, SchedulerAssumption DEF Alive, Actor, Worker
  <2> QED
    BY <2>1, <2>2, <2>3 DEF IInv, WorkerKnown
<1>9. ASSUME NEW c \in Controller, SignalStop(c) \/ JoinTimesOut(c) PROVE IInv'
  BY <1>9, ControllerStep DEF SignalStop, JoinTimesOut
<1>10. ASSUME NEW c \in Controller, EndStop(c) PROVE IInv'
  <2>1. Alive = {}
    BY <1>10 DEF EndStop, Joined, IInv, WorkerKnown
  <2>2. /\ pc' = [pc EXCEPT ![c] = "idle"] /\ thread' = 0
        /\ UNCHANGED <<target, created>>
    BY <1>10 DEF EndStop
  <2>3. /\ pc' \in [Actor \union Controller -> Place]
        /\ \A b \in Actor \union Controller : pc'[b] = IF b = c THEN "idle" ELSE pc[b]
    BY <2>2 DEF IInv, Place
  <2>4. Alive' = {}
    BY <2>1, <2>3, SchedulerAssumption DEF Alive, Actor, Worker
  <2>5. \A d \in Controller : pc'[d] = "idle"
    BY <2>3
  <2> QED
    BY <2>2, <2>3, <2>4, <2>5 DEF IInv, WorkerKnown
<1> QED
  BY <1>2, <1>3, <1>4, <1>5, <1>6, <1>7, <1>8, <1>9, <1>10 DEF Next, Working, Actor

(* With one thread at a time that starts and stops it, the worker that is  *)
(* alive is always the one _thread names, so is_running tells and a second *)
(* worker is never started, for any number of tasks, callers and workers.  *)
THEOREM WorkerAlwaysKnown ==
    ASSUME \A c, d \in Controller : c = d
    PROVE  Spec => []WorkerKnown
<1>1. IInv /\ [Next]_vars => IInv'
  BY StepKeeps
<1>2. IInv => WorkerKnown
  BY DEF IInv
<1> QED
  BY InitEstablishes, <1>1, <1>2, PTL DEF Spec

-----------------------------------------------------------------------------
(* The members of S in the order R, by their rank: how many come before.   *)
Listing(S, R) ==
    [k \in 1..Cardinality(S) |->
        CHOOSE i \in S : Cardinality({j \in S : <<j, i>> \in R}) = k - 1]

(* A strict total order lists a finite set: the rank tells its members     *)
(* apart, so it takes every value, and each member comes once.             *)
LEMMA ListingLists ==
    ASSUME NEW S, IsFiniteSet(S), NEW R,
           \A i \in S : <<i, i>> \notin R,
           \A i, j, k \in S : <<i, j>> \in R /\ <<j, k>> \in R => <<i, k>> \in R,
           \A i, j \in S : i # j => <<i, j>> \in R \/ <<j, i>> \in R
    PROVE  /\ Cardinality(S) \in Nat
           /\ Listing(S, R) \in [1..Cardinality(S) -> S]
           /\ \A i \in S : \E k \in 1..Cardinality(S) : Listing(S, R)[k] = i
           /\ \A k, l \in 1..Cardinality(S) : Listing(S, R)[k] = Listing(S, R)[l] => k = l
<1> DEFINE n == Cardinality(S)
           Below(i) == {j \in S : <<j, i>> \in R}
           rank == [i \in S |-> Cardinality(Below(i))]
           list == Listing(S, R)
<1>1. n \in Nat
  BY FS_CardinalityType
<1>2. \A i \in S : /\ IsFiniteSet(Below(i))
                   /\ Cardinality(Below(i)) \in 0..(n - 1)
  <2> SUFFICES ASSUME NEW i \in S
               PROVE  IsFiniteSet(Below(i)) /\ Cardinality(Below(i)) \in 0..(n - 1)
    OBVIOUS
  <2>1. Below(i) \subseteq S \ {i}
    OBVIOUS
  <2>2. IsFiniteSet(S \ {i}) /\ Cardinality(S \ {i}) = n - 1
    BY FS_RemoveElement
  <2> HIDE DEF Below, n
  <2>3. IsFiniteSet(Below(i)) /\ Cardinality(Below(i)) <= n - 1
    BY <2>1, <2>2, FS_Subset
  <2> QED
    BY <2>3, <1>1, FS_CardinalityType
<1>3. \A i, k \in S : <<i, k>> \in R => Cardinality(Below(i)) < Cardinality(Below(k))
  <2> SUFFICES ASSUME NEW i \in S, NEW k \in S, <<i, k>> \in R
               PROVE  Cardinality(Below(i)) < Cardinality(Below(k))
    OBVIOUS
  <2>1. Below(i) \union {i} \subseteq Below(k) /\ i \notin Below(i)
    OBVIOUS
  <2> HIDE DEF Below, n
  <2>2. Cardinality(Below(i) \union {i}) = Cardinality(Below(i)) + 1
    BY <1>2, <2>1, FS_AddElement
  <2>3. Cardinality(Below(i) \union {i}) <= Cardinality(Below(k))
    BY <1>2, <2>1, FS_Subset
  <2>4. Cardinality(Below(i)) \in Nat /\ Cardinality(Below(k)) \in Nat
    BY <1>1, <1>2
  <2> QED
    BY <2>2, <2>3, <2>4
<1> HIDE DEF Below, n
<1>4. rank \in [S -> 0..(n - 1)]
  BY <1>2
<1>5. \A i, k \in S : rank[i] = rank[k] => i = k
  <2> SUFFICES ASSUME NEW i \in S, NEW k \in S, i # k, rank[i] = rank[k] PROVE FALSE
    OBVIOUS
  <2>1. rank[i] = Cardinality(Below(i)) /\ rank[k] = Cardinality(Below(k))
    OBVIOUS
  <2>2. <<i, k>> \in R \/ <<k, i>> \in R
    OBVIOUS
  <2>3. /\ Cardinality(Below(i)) \in 0..(n - 1)
        /\ Cardinality(Below(k)) \in 0..(n - 1)
    BY <1>2
  <2> QED
    BY <2>1, <2>2, <2>3, <1>3, <1>1
<1>6. \A i \in S : rank[i] = Cardinality(Below(i))
  OBVIOUS
<1> HIDE DEF rank
<1>7. rank \in Injection(S, 0..(n - 1))
  BY <1>4, <1>5 DEF Injection, IsInjective
<1>8. IsFiniteSet(0..(n - 1)) /\ Cardinality(0..(n - 1)) = n
  BY <1>1, FS_Interval
<1>9. rank \in Surjection(S, 0..(n - 1))
  BY <1>7, <1>8, FS_Injection DEF n
<1>10. \A k \in 1..n : \E i \in S : rank[i] = k - 1
  <2> SUFFICES ASSUME NEW k \in 1..n PROVE \E i \in S : rank[i] = k - 1
    OBVIOUS
  <2>1. k - 1 \in 0..(n - 1)
    BY <1>1
  <2> QED
    BY <1>9, <2>1 DEF Surjection
<1>11. list = [k \in 1..n |-> CHOOSE i \in S : Cardinality(Below(i)) = k - 1]
  BY DEF Listing, Below, n
<1>12. \A k \in 1..n : list[k] \in S /\ rank[list[k]] = k - 1
  <2> SUFFICES ASSUME NEW k \in 1..n PROVE list[k] \in S /\ rank[list[k]] = k - 1
    OBVIOUS
  <2>1. \E i \in S : Cardinality(Below(i)) = k - 1
    BY <1>6, <1>10
  <2>2. /\ list[k] \in S
        /\ Cardinality(Below(list[k])) = k - 1
    BY <1>11, <2>1
  <2> QED
    BY <2>2, <1>6
<1>13. DOMAIN list = 1..n /\ list = [k \in 1..n |-> list[k]]
  BY <1>11
<1> HIDE DEF list
<1>14. list \in [1..n -> S]
  BY <1>12, <1>13
<1>15. \A i \in S : \E k \in 1..n : list[k] = i
  <2> SUFFICES ASSUME NEW i \in S PROVE \E k \in 1..n : list[k] = i
    OBVIOUS
  <2>1. rank[i] + 1 \in 1..n /\ (rank[i] + 1) - 1 = rank[i]
    BY <1>1, <1>4
  <2>2. rank[list[rank[i] + 1]] = rank[i] /\ list[rank[i] + 1] \in S
    BY <1>12, <2>1
  <2> QED
    BY <1>5, <2>1, <2>2
<1>16. \A k, l \in 1..n : list[k] = list[l] => k = l
  <2> SUFFICES ASSUME NEW k \in 1..n, NEW l \in 1..n, list[k] = list[l] PROVE k = l
    OBVIOUS
  <2>1. k - 1 = l - 1
    BY <1>12
  <2> QED
    BY <2>1
<1> QED
  BY <1>1, <1>14, <1>15, <1>16 DEF n, list

-----------------------------------------------------------------------------
(* What a thread has taken and not yet started.                            *)
Held(a) == IF pc[a] = "calling" THEN Tail(batch[a]) ELSE batch[a]
Holders(i) == {a \in Actor : i \in Range(Held(a))}

(* A one-time task is in one place: scheduled, held, started or dropped.   *)
InOnePlace(i) ==
    \/ i \in DOMAIN tasks /\ Holders(i) = {} /\ trail[i].starts = 0 /\ ~trail[i].dropped
    \/ /\ i \notin DOMAIN tasks
       /\ \/ /\ \E a \in Actor : Holders(i) = {a}
             /\ trail[i].starts = 0 /\ ~trail[i].dropped
          \/ Holders(i) = {} /\ trail[i].starts = 1 /\ ~trail[i].dropped
          \/ Holders(i) = {} /\ trail[i].starts = 0 /\ trail[i].dropped

(* A task that is scheduled and was taken before is a recurring one, and   *)
(* its due time is an interval for every take after what each taker read.  *)
Spaced == \A i \in DOMAIN tasks : \A k \in DOMAIN trail[i].read :
    /\ trail[i].every # Once
    /\ trail[i].read[k] + (Len(trail[i].read) + 1 - k) * trail[i].every <= tasks[i].due

Trail == [read : Seq(Nat), starts : Nat, every : Nat, dropped : BOOLEAN]

TInv ==
    /\ clock \in Nat
    /\ now \in [Actor -> Nat]
    /\ pc \in [Actor \union Controller -> Place]
    /\ created \in Nat
    /\ \A w \in Worker : w > created => pc[w] = "new"
    /\ sequence \in 0..MaxTasks
    /\ DOMAIN tasks \subseteq 1..sequence
    /\ trail \in [Task -> Trail]
    /\ \A i \in DOMAIN tasks : tasks[i] \in [due : Nat, every : Nat]
                               /\ tasks[i].every = trail[i].every
    /\ \A i \in Task : i > sequence => trail[i] = NoTrail

BInv ==
    /\ batch \in [Actor -> Seq(1..sequence)]
    /\ \A a \in Actor :
          /\ IsInjective(batch[a])
          /\ batch[a] # <<>> => pc[a] \in {"run", "calling"}
          /\ pc[a] = "calling" => batch[a] # <<>>

SInv ==
    /\ TInv
    /\ BInv
    /\ Spaced
    /\ \A i \in 1..sequence : trail[i].every = Once => InOnePlace(i)

-----------------------------------------------------------------------------
LEMMA SInvSuffices == SInv => OneTimeConserved
<1> SUFFICES ASSUME SInv, NEW i \in 1..sequence, trail[i].every = Once
             PROVE  Places(i) = 1
  BY DEF OneTimeConserved
<1>1. InOnePlace(i)
  BY DEF SInv
<1>2. Places(i) = (IF i \in DOMAIN tasks THEN 1 ELSE 0) + Cardinality(Holders(i))
                  + trail[i].starts + (IF trail[i].dropped THEN 1 ELSE 0)
  BY DEF Places, Holders, Held
<1>3. Cardinality({}) = 0 /\ \A a \in Actor : Cardinality({a}) = 1
  BY FS_EmptySet, FS_Singleton
<1> QED
  BY <1>1, <1>2, <1>3 DEF InOnePlace

LEMMA IsASequence ==
    ASSUME NEW S, NEW n \in Nat, NEW s \in [1..n -> S]
    PROVE  s \in Seq(S)
  OBVIOUS

(* The due tasks are listed once each (scheduler.py:183).                  *)
LEMMA DueListed ==
    ASSUME TInv, NEW t \in Nat
    PROVE  /\ DueInOrder(t) \in Seq(1..sequence)
           /\ IsInjective(DueInOrder(t))
           /\ Range(DueInOrder(t)) = {i \in DOMAIN tasks : Due(i, t)}
<1> DEFINE S == {i \in DOMAIN tasks : Due(i, t)}
           R == {ij \in S \X S : Before(ij[1], ij[2])}
           n == Cardinality(S)
<1>1. S \subseteq 1..sequence /\ IsFiniteSet(S)
  <2>1. IsFiniteSet(1..sequence)
    BY FS_Interval, SchedulerAssumption DEF TInv
  <2>2. S \subseteq 1..sequence
    BY DEF TInv
  <2> HIDE DEF S
  <2> QED
    BY <2>1, <2>2, FS_Subset
<1>2. \A i \in S : i \in Int /\ tasks[i].due \in Int
  BY SchedulerAssumption DEF TInv
<1>3. \A i, j \in S : <<i, j>> \in R <=> Before(i, j)
  OBVIOUS
<1> HIDE DEF S, R
<1>4. \A i \in S : <<i, i>> \notin R
  BY <1>2, <1>3 DEF Before
<1>5. \A i, j, k \in S : <<i, j>> \in R /\ <<j, k>> \in R => <<i, k>> \in R
  BY <1>2, <1>3 DEF Before
<1>6. \A i, j \in S : i # j => <<i, j>> \in R \/ <<j, i>> \in R
  BY <1>2, <1>3 DEF Before
<1>7. \A i \in S : {j \in S : <<j, i>> \in R} = {j \in S : Before(j, i)}
  BY <1>3
<1>8. DueInOrder(t) = [k \in 1..n |-> CHOOSE i \in S : Cardinality({j \in S : Before(j, i)}) = k - 1]
  BY DEF DueInOrder, S
<1>9. ASSUME NEW k
      PROVE  (CHOOSE i \in S : Cardinality({j \in S : Before(j, i)}) = k - 1)
             = (CHOOSE i \in S : Cardinality({j \in S : <<j, i>> \in R}) = k - 1)
  <2>1. \A i \in S : Cardinality({j \in S : Before(j, i)}) = k - 1
                       <=> Cardinality({j \in S : <<j, i>> \in R}) = k - 1
    BY <1>7
  <2> QED
    BY <2>1
<1>10. DueInOrder(t) = Listing(S, R)
  BY <1>8, <1>9 DEF Listing
<1>11. /\ n \in Nat
       /\ DueInOrder(t) \in [1..n -> S]
       /\ \A i \in S : \E k \in 1..n : DueInOrder(t)[k] = i
       /\ \A k, l \in 1..n : DueInOrder(t)[k] = DueInOrder(t)[l] => k = l
  BY <1>1, <1>4, <1>5, <1>6, <1>10, ListingLists
<1> HIDE DEF n
<1>12. DueInOrder(t) \in Seq(1..sequence)
  <2>1. DueInOrder(t) \in [1..n -> 1..sequence]
    BY <1>1, <1>11
  <2>2. n \in Nat
    BY <1>11
  <2> QED
    BY <2>1, <2>2, IsASequence
<1>13. IsInjective(DueInOrder(t))
  BY <1>11 DEF IsInjective
<1>14. Range(DueInOrder(t)) = S
  BY <1>11 DEF Range
<1> QED
  BY <1>12, <1>13, <1>14 DEF S

-----------------------------------------------------------------------------
LEMMA SInvInit == Init => SInv
<1> SUFFICES ASSUME Init PROVE SInv
  OBVIOUS
<1>1. sequence = 0 /\ DOMAIN tasks = {}
  BY DEF Init
<1>2. pc \in [Actor \union Controller -> Place]
  BY DEF Init, Place
<1>3. \A w \in Worker : pc[w] = "new"
  BY DEF Init, Actor
<1>4. trail \in [Task -> Trail]
  BY EmptySeq DEF Init, Trail, NoTrail, Once
<1>5. TInv
  <2>1. \A i \in Task : trail[i] = NoTrail
    BY DEF Init
  <2>2. now \in [Actor -> Nat] /\ clock \in Nat /\ created \in Nat
    BY DEF Init
  <2>3. sequence \in 0..MaxTasks
    BY <1>1, SchedulerAssumption
  <2> QED
    BY <1>1, <1>2, <1>3, <1>4, <2>1, <2>2, <2>3 DEF TInv
<1>6. \A a \in Actor : batch[a] = <<>> /\ pc[a] # "calling"
  BY DEF Init
<1>7. BInv
  BY <1>1, <1>6 DEF Init, BInv, IsInjective
<1> QED
  BY <1>1, <1>5, <1>7 DEF SInv, Spaced

(* A step that moves nobody into or out of a callback, and touches neither *)
(* the tasks nor the batches.                                              *)
LEMMA QuietStep ==
    ASSUME SInv, UNCHANGED <<tasks, sequence, batch, trail>>, TInv',
           \A a \in Actor : \/ pc'[a] = pc[a]
                            \/ batch[a] = <<>> /\ pc'[a] # "calling"
    PROVE  SInv'
<1>1. \A a \in Actor : pc[a] = "calling" => batch[a] # <<>>
  BY DEF SInv, BInv
<1>2. \A a \in Actor : Held(a)' = Held(a)
  BY <1>1 DEF Held
<1>3. \A i : Holders(i)' = Holders(i)
  BY <1>2 DEF Holders
<1>4. BInv'
  BY DEF SInv, BInv
<1>5. Spaced'
  BY DEF SInv, Spaced
<1>6. \A i \in 1..sequence : trail[i].every = Once => InOnePlace(i)'
  BY <1>3 DEF SInv, InOnePlace
<1> QED
  BY <1>4, <1>5, <1>6 DEF SInv

(* The steps of the control flow: the clock, the worker's loop, start and  *)
(* stop.                                                                   *)
LEMMA ControlKeeps ==
    ASSUME SInv,
           \/ Tick \/ UNCHANGED vars
           \/ \E a \in Actor : ReadClock(a) \/ EndRun(a)
           \/ \E w \in Worker : EndWait(w) \/ WorkerExits(w)
           \/ \E c \in Controller :
                 Start(c) \/ BeginStop(c) \/ SignalStop(c) \/ JoinTimesOut(c) \/ EndStop(c)
    PROVE  SInv'
<1> DEFINE Elsewhere == Place \ {"calling"}
<1>1. \A a \in Actor : pc[a] \notin {"run", "calling"} => batch[a] = <<>>
  BY DEF SInv, BInv
<1>0. /\ clock \in Nat /\ now \in [Actor -> Nat] /\ created \in Nat /\ created <= created
      /\ {"idle", "take", "wait", "loop", "dead", "signal", "join"} \subseteq Elsewhere
  BY DEF SInv, TInv, Place
<1>2. ASSUME NEW a \in Actor \union Controller, NEW l \in Elsewhere,
             pc' = [pc EXCEPT ![a] = l],
             a \in Actor => batch[a] = <<>>,
             a \in Worker => pc[a] # "new" \/ a <= created',
             clock' \in Nat, now' \in [Actor -> Nat], created' \in Nat, created <= created',
             UNCHANGED <<tasks, sequence, batch, trail>>
      PROVE  SInv'
  <2>1. \A b \in Actor \union Controller : pc'[b] = IF b = a THEN l ELSE pc[b]
    BY <1>2 DEF SInv, TInv
  <2>2. pc' \in [Actor \union Controller -> Place]
    BY <1>2 DEF SInv, TInv
  <2>3. \A w \in Worker : w > created' => pc'[w] = "new"
    <3> SUFFICES ASSUME NEW w \in Worker, w > created' PROVE pc'[w] = "new"
      OBVIOUS
    <3>1. w \in Int /\ created \in Int /\ created' \in Int
      BY <1>2, SchedulerAssumption DEF Worker, SInv, TInv
    <3>2. w > created /\ ~ (w <= created')
      BY <3>1, <1>2
    <3>3. pc[w] = "new" /\ w # a
      BY <3>2, <1>2 DEF SInv, TInv
    <3> QED
      BY <2>1, <3>3 DEF Actor
  <2>4. TInv'
    BY <1>2, <2>2, <2>3 DEF SInv, TInv
  <2> QED
    BY <1>2, <2>1, <2>4, QuietStep
<1>3. ASSUME UNCHANGED <<tasks, sequence, batch, trail, pc, created, now>>, clock' \in Nat
      PROVE  SInv'
  <2>1. TInv'
    BY <1>3 DEF SInv, TInv
  <2> QED
    BY <1>3, <2>1, QuietStep
<1>4. CASE Tick
  BY <1>3, <1>4 DEF Tick, runVars, SInv, TInv
<1>5. CASE UNCHANGED vars
  BY <1>3, <1>5 DEF vars, SInv, TInv
<1>6. ASSUME NEW a \in Actor, ReadClock(a) PROVE SInv'
  <2>1. /\ pc' = [pc EXCEPT ![a] = "take"] /\ pc[a] \in {"idle", "loop"}
        /\ now' = [now EXCEPT ![a] = clock]
        /\ UNCHANGED <<clock, tasks, sequence, created, batch, trail>>
    BY <1>6 DEF ReadClock, Idle
  <2>2. now' \in [Actor -> Nat]
    BY <2>1 DEF SInv, TInv
  <2>3. "take" \in Elsewhere /\ batch[a] = <<>> /\ pc[a] # "new"
    BY <1>0, <1>1, <2>1
  <2> HIDE DEF Elsewhere
  <2>4. /\ clock' \in Nat /\ created' \in Nat /\ created <= created'
        /\ a \in Actor \union Controller
    BY <1>0, <2>1
  <2> QED
    BY <1>2, <2>1, <2>2, <2>3, <2>4
<1>7. ASSUME NEW a \in Actor, EndRun(a) PROVE SInv'
  <2>1. PICK l \in {"wait", "idle"} :
          /\ pc' = [pc EXCEPT ![a] = l] /\ pc[a] = "run" /\ batch[a] = <<>>
          /\ UNCHANGED <<clock, tasks, sequence, created, now, batch, trail>>
    BY <1>7 DEF EndRun, runVars
  <2>2. l \in Elsewhere /\ batch[a] = <<>> /\ pc[a] # "new" /\ a \in Actor \union Controller
    BY <1>0, <1>1, <2>1 DEF Actor
  <2> HIDE DEF Elsewhere
  <2>3. /\ clock' \in Nat /\ now' \in [Actor -> Nat]
        /\ created' \in Nat /\ created <= created'
    BY <1>0, <2>1
  <2> QED
    BY <1>2, <2>1, <2>2, <2>3
<1>8. ASSUME NEW w \in Worker, EndWait(w) \/ WorkerExits(w) PROVE SInv'
  <2>1. PICK l \in {"loop", "dead"} :
          /\ pc' = [pc EXCEPT ![w] = l] /\ pc[w] \in {"wait", "loop"}
          /\ UNCHANGED <<clock, tasks, sequence, created, now, batch, trail>>
    BY <1>8 DEF EndWait, WorkerExits, runVars
  <2>2. l \in Elsewhere /\ batch[w] = <<>> /\ pc[w] # "new" /\ w \in Actor \union Controller
    BY <1>0, <1>1, <2>1 DEF Actor
  <2> HIDE DEF Elsewhere
  <2>3. /\ clock' \in Nat /\ now' \in [Actor -> Nat]
        /\ created' \in Nat /\ created <= created'
    BY <1>0, <2>1
  <2> QED
    BY <1>2, <2>1, <2>2, <2>3
<1>9. ASSUME NEW c \in Controller, Start(c) PROVE SInv'
  <2>1. /\ pc' = [pc EXCEPT ![created + 1] = "loop"]
        /\ created' = created + 1 /\ created < MaxWorkers
        /\ UNCHANGED <<clock, tasks, sequence, now, batch, trail>>
    BY <1>9 DEF Start, runVars
  <2>2. created + 1 \in Worker /\ created + 1 > created /\ created \in Nat
    BY <2>1, SchedulerAssumption DEF Worker, SInv, TInv
  <2>3. pc[created + 1] = "new"
    BY <2>2 DEF SInv, TInv
  <2>4. /\ "loop" \in Elsewhere /\ batch[created + 1] = <<>>
        /\ created + 1 \in Actor \union Controller
    BY <1>0, <1>1, <2>2, <2>3 DEF Actor
  <2> HIDE DEF Elsewhere
  <2>5. /\ clock' \in Nat /\ now' \in [Actor -> Nat]
        /\ created' \in Nat /\ created <= created' /\ created + 1 <= created'
    BY <1>0, <2>1
  <2> QED
    BY <1>2, <2>1, <2>2, <2>4, <2>5
<1>10. ASSUME NEW c \in Controller,
              BeginStop(c) \/ SignalStop(c) \/ JoinTimesOut(c) \/ EndStop(c)
       PROVE  SInv'
  <2>1. PICK l \in {"signal", "join", "idle"} :
          /\ pc' = [pc EXCEPT ![c] = l] /\ pc[c] \in {"idle", "signal", "join"}
          /\ UNCHANGED <<clock, tasks, sequence, created, now, batch, trail>>
    BY <1>10 DEF BeginStop, SignalStop, JoinTimesOut, EndStop, Idle, runVars
  <2>2. l \in Elsewhere /\ pc[c] # "new" /\ (c \in Actor => batch[c] = <<>>) /\ c \in Actor \union Controller
    BY <1>0, <1>1, <2>1 DEF Actor
  <2> HIDE DEF Elsewhere
  <2>3. /\ clock' \in Nat /\ now' \in [Actor -> Nat]
        /\ created' \in Nat /\ created <= created'
    BY <1>0, <2>1
  <2> QED
    BY <1>2, <2>1, <2>2, <2>3
<1> QED
  BY <1>4, <1>5, <1>6, <1>7, <1>8, <1>9, <1>10

(* A task scheduled for the first time is nowhere else.                    *)
LEMMA AddKeeps ==
    ASSUME SInv, NEW due \in Nat, NEW every \in Nat, Add(due, every)
    PROVE  SInv'
<1>0. PICK n : n = sequence + 1
  OBVIOUS
<1>1. /\ sequence \in Nat /\ sequence < MaxTasks /\ sequence' = n
      /\ n \in Task /\ n \notin DOMAIN tasks /\ n > sequence
  BY <1>0, SchedulerAssumption DEF Add, SInv, TInv, Task
<1>2. /\ DOMAIN tasks' = DOMAIN tasks \union {n}
      /\ tasks'[n] = [due |-> due, every |-> every]
      /\ \A i \in DOMAIN tasks : tasks'[i] = tasks[i]
  BY <1>0, <1>1 DEF Add
<1>3. /\ trail' = [trail EXCEPT ![n].every = every]
      /\ UNCHANGED <<clock, created, pc, now, batch>>
  BY <1>0 DEF Add, runVars
<1>4. trail[n] = NoTrail
  BY <1>1 DEF SInv, TInv
<1>5. /\ trail'[n] = [NoTrail EXCEPT !.every = every]
      /\ \A i \in Task \ {n} : trail'[i] = trail[i]
  <2>1. trail'[n] = [trail[n] EXCEPT !.every = every]
    BY <1>1, <1>3 DEF SInv, TInv
  <2>2. \A i \in Task \ {n} : trail'[i] = trail[i]
    BY <1>3 DEF SInv, TInv
  <2> QED
    BY <2>1, <2>2, <1>4
<1>6. /\ trail'[n].every = every /\ trail'[n].starts = 0 /\ trail'[n].read = <<>>
      /\ trail'[n].dropped = FALSE /\ trail'[n] \in Trail
  <2>1. /\ NoTrail \in Trail /\ NoTrail.starts = 0 /\ NoTrail.dropped = FALSE
        /\ NoTrail.read = <<>>
    BY EmptySeq DEF NoTrail, Trail, Once
  <2> QED
    BY <1>5, <2>1 DEF Trail
<1>7. trail' \in [Task -> Trail]
  BY <1>3, <1>5, <1>6 DEF SInv, TInv
<1>8. TInv'
  <2>1. DOMAIN tasks' \subseteq 1..n /\ n \in 0..MaxTasks /\ 1..sequence \subseteq 1..n
    BY <1>0, <1>1, <1>2, SchedulerAssumption DEF SInv, TInv, Task
  <2>2. \A i \in DOMAIN tasks' : tasks'[i] \in [due : Nat, every : Nat]
                                 /\ tasks'[i].every = trail'[i].every
    <3>1. DOMAIN tasks \subseteq Task \ {n}
      BY <1>1, SchedulerAssumption DEF SInv, TInv, Task
    <3>2. tasks'[n] \in [due : Nat, every : Nat] /\ tasks'[n].every = trail'[n].every
      BY <1>2, <1>6
    <3>3. \A i \in DOMAIN tasks : tasks'[i] \in [due : Nat, every : Nat]
                                 /\ tasks'[i].every = trail'[i].every
      BY <1>2, <1>5, <3>1 DEF SInv, TInv
    <3> QED
      BY <1>2, <3>2, <3>3
  <2>3. \A i \in Task : i > n => trail'[i] = NoTrail
    BY <1>0, <1>1, <1>5, SchedulerAssumption DEF SInv, TInv, Task
  <2> QED
    BY <1>1, <1>3, <1>7, <2>1, <2>2, <2>3 DEF SInv, TInv
<1>9. \A a \in Actor : Held(a)' = Held(a)
  BY <1>3 DEF Held
<1>10. \A i : Holders(i)' = Holders(i)
  BY <1>9 DEF Holders
<1>11. BInv'
  <2>1. 1..sequence \subseteq 1..n
    BY <1>1, <1>0
  <2>2. \A a \in Actor : batch[a] \in Seq(1..n)
    BY <2>1, SeqMonotonic DEF SInv, BInv
  <2>3. batch' \in [Actor -> Seq(1..sequence')]
    BY <1>1, <1>3, <2>2 DEF SInv, BInv
  <2> QED
    BY <1>3, <2>3 DEF SInv, BInv
<1>12. Holders(n) = {}
  <2>1. ASSUME NEW a \in Actor, n \in Range(Held(a)) PROVE FALSE
    <3>1. batch[a] \in Seq(1..sequence) /\ (pc[a] = "calling" => batch[a] # <<>>)
      BY DEF SInv, BInv
    <3>2. Held(a) \in Seq(1..sequence)
      BY <3>1, HeadTailProperties DEF Held
    <3>3. Range(Held(a)) \subseteq 1..sequence
      <4>1. Range(Held(a)) = {Held(a)[k] : k \in 1..Len(Held(a))}
        BY <3>2 DEF Range
      <4>2. \A k \in 1..Len(Held(a)) : Held(a)[k] \in 1..sequence
        BY <3>2, ElementOfSeq
      <4> QED
        BY <4>1, <4>2
    <3> QED
      BY <1>1, <2>1, <3>3, <1>0
  <2> QED
    BY <2>1 DEF Holders
<1>13. \A i \in 1..sequence : i \in Task \ {n}
  BY <1>0, <1>1, SchedulerAssumption DEF Task
<1>14. Spaced'
  <2>1. DOMAIN tasks \subseteq Task \ {n}
    BY <1>13 DEF SInv, TInv
  <2>2. DOMAIN trail'[n].read = {}
    BY <1>6
  <2>3. \A i \in DOMAIN tasks : tasks'[i] = tasks[i] /\ trail'[i] = trail[i]
    BY <1>2, <1>5, <2>1
  <2> QED
    BY <1>2, <2>2, <2>3 DEF SInv, Spaced
<1>15. \A i \in 1..sequence : trail'[i].every = Once => InOnePlace(i)'
  <2> SUFFICES ASSUME NEW i \in 1..sequence, trail'[i].every = Once PROVE InOnePlace(i)'
    OBVIOUS
  <2>1. trail'[i] = trail[i] /\ i # n
    BY <1>5, <1>13
  <2>2. InOnePlace(i)
    BY <2>1 DEF SInv
  <2> QED
    BY <2>1, <2>2, <1>2, <1>10 DEF InOnePlace
<1>16. InOnePlace(n)'
  <2>1. Holders(n)' = {} /\ n \in DOMAIN tasks'
    BY <1>2, <1>10, <1>12
  <2>2. trail'[n].starts = 0 /\ ~trail'[n].dropped
    BY <1>6
  <2> QED
    BY <2>1, <2>2 DEF InOnePlace
<1>17. \A i \in 1..sequence' : i \in 1..sequence \/ i = n
  BY <1>1, <1>0
<1> QED
  BY <1>8, <1>11, <1>14, <1>15, <1>16, <1>17 DEF SInv

(* cancel and clear drop what they take from the table.                    *)
LEMMA DropKeeps ==
    ASSUME SInv, NEW S \in SUBSET DOMAIN tasks,
           tasks' = [j \in DOMAIN tasks \ S |-> tasks[j]],
           trail' = Dropping(S),
           UNCHANGED <<clock, sequence, created, pc, now, batch>>
    PROVE  SInv'
<1>1. DOMAIN tasks \subseteq Task /\ 1..sequence \subseteq Task /\ DOMAIN tasks \subseteq 1..sequence
  BY SchedulerAssumption DEF SInv, TInv, Task
<1>2. \A i \in Task : /\ trail[i] \in Trail
                      /\ i \in S => trail'[i] = [trail[i] EXCEPT !.dropped = TRUE]
                      /\ i \notin S => trail'[i] = trail[i]
  BY DEF Dropping, SInv, TInv
<1>3. \A i \in Task : /\ trail'[i] \in Trail
                      /\ trail'[i].every = trail[i].every
                      /\ trail'[i].starts = trail[i].starts
                      /\ trail'[i].read = trail[i].read
                      /\ i \in S => trail'[i].dropped
  <2> SUFFICES ASSUME NEW i \in Task, i \in S
               PROVE  /\ trail'[i] \in Trail
                      /\ trail'[i].every = trail[i].every
                      /\ trail'[i].starts = trail[i].starts
                      /\ trail'[i].read = trail[i].read
                      /\ trail'[i].dropped
    BY <1>2
  <2> DEFINE r == trail[i]
  <2>1. r \in Trail /\ trail'[i] = [r EXCEPT !.dropped = TRUE]
    BY <1>2
  <2> HIDE DEF r
  <2>2. /\ [r EXCEPT !.dropped = TRUE] \in Trail
        /\ [r EXCEPT !.dropped = TRUE].every = r.every
        /\ [r EXCEPT !.dropped = TRUE].starts = r.starts
        /\ [r EXCEPT !.dropped = TRUE].read = r.read
        /\ [r EXCEPT !.dropped = TRUE].dropped
    BY <2>1 DEF Trail
  <2> QED
    BY <2>1, <2>2 DEF r
<1>4. DOMAIN tasks' = DOMAIN tasks \ S /\ \A i \in DOMAIN tasks' : tasks'[i] = tasks[i]
  OBVIOUS
<1>5. trail' \in [Task -> Trail]
  BY <1>3 DEF Dropping
<1>6. TInv'
  <2>1. \A i \in Task : i > sequence => trail'[i] = NoTrail
    <3>1. \A i \in Task : i > sequence => i \notin S
      BY <1>1, SchedulerAssumption DEF SInv, TInv, Task
    <3> QED
      BY <3>1, <1>2 DEF SInv, TInv
  <2> QED
    BY <1>1, <1>3, <1>4, <1>5, <2>1 DEF SInv, TInv
<1>7. \A i : Holders(i)' = Holders(i)
  BY DEF Holders, Held
<1>8. BInv'
  BY DEF SInv, BInv
<1>9. Spaced'
  BY <1>1, <1>3, <1>4 DEF SInv, Spaced
<1>10. ASSUME NEW i \in 1..sequence, trail'[i].every = Once PROVE InOnePlace(i)'
  <2>1. i \in Task /\ InOnePlace(i)
    BY <1>1, <1>3, <1>10 DEF SInv
  <2> QED
    BY <2>1, <1>2, <1>3, <1>4, <1>7 DEF InOnePlace
<1> QED
  BY <1>6, <1>8, <1>9, <1>10 DEF SInv

-----------------------------------------------------------------------------
(* A take at t of what was due by then: nobody before it gained on it, and *)
(* the next is due one interval later.                                     *)
LEMMA TakenOnPace ==
    ASSUME NEW s \in Seq(Nat), NEW e \in Nat, NEW d \in Nat, NEW t \in Nat, d <= t,
           \A k \in DOMAIN s : s[k] + (Len(s) + 1 - k) * e <= d
    PROVE  \A k \in DOMAIN Append(s, t) :
             /\ Append(s, t)[k] + (Len(Append(s, t)) - k) * e <= t
             /\ Append(s, t)[k] + (Len(Append(s, t)) + 1 - k) * e <= t + e
<1>1. /\ Len(s) \in Nat /\ Len(Append(s, t)) = Len(s) + 1
      /\ DOMAIN s = 1..Len(s) /\ DOMAIN Append(s, t) = 1..(Len(s) + 1)
      /\ Append(s, t)[Len(s) + 1] = t
      /\ \A k \in 1..Len(s) : Append(s, t)[k] = s[k] /\ s[k] \in Nat
  OBVIOUS
<1>2. \A n \in Int : n * e \in Int /\ (n + 1) * e = n * e + e
  OBVIOUS
<1>3. 0 * e = 0 /\ 1 * e = e
  OBVIOUS
<1>4. ASSUME NEW k \in DOMAIN Append(s, t), k = Len(s) + 1
      PROVE  /\ Append(s, t)[k] + (Len(Append(s, t)) - k) * e <= t
             /\ Append(s, t)[k] + (Len(Append(s, t)) + 1 - k) * e <= t + e
  <2>1. Len(Append(s, t)) - k = 0 /\ Len(Append(s, t)) + 1 - k = 1
    BY <1>1, <1>4
  <2> QED
    BY <2>1, <1>1, <1>3, <1>4
<1>5. ASSUME NEW k \in DOMAIN Append(s, t), k \in 1..Len(s)
      PROVE  /\ Append(s, t)[k] + (Len(Append(s, t)) - k) * e <= t
             /\ Append(s, t)[k] + (Len(Append(s, t)) + 1 - k) * e <= t + e
  <2>1. PICK n \in Int : n = Len(s) + 1 - k
    BY <1>1, <1>5
  <2>2. Len(Append(s, t)) - k = n /\ Len(Append(s, t)) + 1 - k = n + 1
    BY <1>1, <1>5, <2>1
  <2>3. s[k] \in Nat /\ Append(s, t)[k] = s[k] /\ s[k] + n * e <= d
    BY <1>1, <1>5, <2>1
  <2>4. PICK m \in Int : m = n * e /\ (n + 1) * e = m + e
    BY <1>2
  <2>5. s[k] + m <= t /\ s[k] + (m + e) <= t + e
    <3>1. PICK c \in Nat : c = s[k]
      BY <2>3
    <3>2. c + m <= d
      BY <2>3, <2>4, <3>1
    <3>3. c + m <= t /\ c + (m + e) <= t + e
      BY <3>2
    <3> QED
      BY <3>1, <3>3
  <2> QED
    BY <2>2, <2>3, <2>4, <2>5
<1> QED
  BY <1>1, <1>4, <1>5

(* What a thread takes becomes its batch, and leaves the table if it is    *)
(* due once only.                                                          *)
LEMMA TakeKeeps ==
    ASSUME SInv, NEW a \in Actor, TakeDue(a)
    PROVE  SInv'
<1> DEFINE t == now[a]
           D == {i \in DOMAIN tasks : Due(i, t)}
<1>1. t \in Nat /\ TInv
  BY DEF SInv, TInv
<1>2. PICK list : /\ list = DueInOrder(t)
                  /\ list \in Seq(1..sequence) /\ IsInjective(list) /\ Range(list) = D
  BY <1>1, DueListed
<1>3. /\ pc[a] = "take" /\ batch' = [batch EXCEPT ![a] = list]
      /\ pc' = [pc EXCEPT ![a] = "run"]
      /\ UNCHANGED <<clock, sequence, created, now>>
  BY <1>2 DEF TakeDue
<1>4. /\ DOMAIN tasks' = {j \in DOMAIN tasks : j \in D => tasks[j].every # Once}
      /\ \A i \in DOMAIN tasks' :
            /\ i \in D => tasks'[i] = [tasks[i] EXCEPT !.due = t + tasks[i].every]
            /\ i \notin D => tasks'[i] = tasks[i]
  BY DEF TakeDue, Remaining
<1>5. DOMAIN tasks \subseteq 1..sequence /\ 1..sequence \subseteq Task
  BY SchedulerAssumption DEF SInv, TInv, Task
<1>6. \A i \in Task : /\ i \in D => trail'[i] = [trail[i] EXCEPT !.read = Append(trail[i].read, t)]
                      /\ i \notin D => trail'[i] = trail[i]
  BY DEF TakeDue
<1>7. trail' = [i \in Task |-> trail'[i]]
  BY DEF TakeDue
<1>8. \A i \in D : i \in Task /\ trail[i] \in Trail /\ tasks[i] \in [due : Nat, every : Nat]
                  /\ tasks[i].every = trail[i].every
  BY <1>5 DEF SInv, TInv
<1> HIDE DEF D, t
<1>9. \A i \in D : /\ trail'[i] \in Trail /\ trail'[i].read = Append(trail[i].read, t)
                   /\ trail'[i].every = trail[i].every
                   /\ trail'[i].starts = trail[i].starts
                   /\ trail'[i].dropped = trail[i].dropped
  <2> SUFFICES ASSUME NEW i \in D
               PROVE  /\ trail'[i] \in Trail /\ trail'[i].read = Append(trail[i].read, t)
                      /\ trail'[i].every = trail[i].every
                      /\ trail'[i].starts = trail[i].starts
                      /\ trail'[i].dropped = trail[i].dropped
    OBVIOUS
  <2> DEFINE r == trail[i]
  <2>1. r \in Trail /\ trail'[i] = [r EXCEPT !.read = Append(r.read, t)]
    BY <1>6, <1>8
  <2> HIDE DEF r
  <2>2. r.read \in Seq(Nat) /\ Append(r.read, t) \in Seq(Nat)
    BY <2>1, <1>1 DEF Trail
  <2>3. PICK u \in Seq(Nat) : u = Append(r.read, t)
    BY <2>2
  <2>4. /\ [r EXCEPT !.read = u] \in Trail /\ [r EXCEPT !.read = u].read = u
        /\ [r EXCEPT !.read = u].every = r.every
        /\ [r EXCEPT !.read = u].starts = r.starts
        /\ [r EXCEPT !.read = u].dropped = r.dropped
    BY <2>1 DEF Trail
  <2> QED
    BY <2>1, <2>3, <2>4 DEF r
<1>10. trail' \in [Task -> Trail]
  <2>1. \A i \in Task : trail'[i] \in Trail
    BY <1>6, <1>9 DEF SInv, TInv
  <2> QED
    BY <2>1, <1>7
<1>11. \A i \in DOMAIN tasks' : i \in D =>
          /\ tasks'[i] \in [due : Nat, every : Nat]
          /\ tasks'[i].every = tasks[i].every
          /\ tasks'[i].due = t + tasks[i].every
          /\ tasks[i].every # Once
  <2> SUFFICES ASSUME NEW i \in DOMAIN tasks', i \in D
               PROVE  /\ tasks'[i] \in [due : Nat, every : Nat]
                      /\ tasks'[i].every = tasks[i].every
                      /\ tasks'[i].due = t + tasks[i].every
                      /\ tasks[i].every # Once
    OBVIOUS
  <2> DEFINE r == tasks[i]
  <2>1. /\ r \in [due : Nat, every : Nat] /\ r.every # Once
        /\ tasks'[i] = [r EXCEPT !.due = t + r.every]
    BY <1>4, <1>8
  <2> HIDE DEF r
  <2> QED
    BY <2>1, <1>1 DEF r
<1>12. TInv'
  <2>1. pc' \in [Actor \union Controller -> Place]
    BY <1>3 DEF SInv, TInv, Place
  <2>2. \A w \in Worker : w > created => pc'[w] = "new"
    BY <1>3 DEF SInv, TInv
  <2>3. \A i \in DOMAIN tasks' : tasks'[i] \in [due : Nat, every : Nat]
                                 /\ tasks'[i].every = trail'[i].every
    <3>1. \A i \in DOMAIN tasks' : i \in Task /\ i \in DOMAIN tasks
      BY <1>4, <1>5
    <3>2. \A i \in DOMAIN tasks' : i \notin D => tasks'[i] = tasks[i] /\ trail'[i] = trail[i]
      BY <1>4, <1>6, <3>1
    <3>3. \A i \in DOMAIN tasks' : i \in D => tasks'[i] \in [due : Nat, every : Nat]
                                            /\ tasks'[i].every = trail'[i].every
      BY <1>8, <1>9, <1>11
    <3> QED
      BY <3>1, <3>2, <3>3 DEF SInv, TInv
  <2>4. \A i \in Task : i > sequence => trail'[i] = NoTrail
    <3>1. \A i \in Task : i > sequence => i \notin D
      BY <1>5, SchedulerAssumption DEF D, Task, SInv, TInv
    <3> QED
      BY <3>1, <1>6 DEF SInv, TInv
  <2>5. DOMAIN tasks' \subseteq 1..sequence
    BY <1>4, <1>5
  <2> QED
    BY <1>3, <1>10, <2>1, <2>2, <2>3, <2>4, <2>5 DEF SInv, TInv
<1>13. BInv'
  <2>1. batch' \in [Actor -> Seq(1..sequence)]
    BY <1>2, <1>3 DEF SInv, BInv
  <2>2. \A b \in Actor : IF b = a THEN batch'[b] = list /\ pc'[b] = "run"
                                 ELSE batch'[b] = batch[b] /\ pc'[b] = pc[b]
    BY <1>3 DEF SInv, BInv, TInv
  <2> QED
    BY <1>2, <1>3, <2>1, <2>2 DEF SInv, BInv
<1>14. Spaced'
  <2> SUFFICES ASSUME NEW i \in DOMAIN tasks'
               PROVE  \A k \in DOMAIN trail'[i].read :
                        /\ trail'[i].every # Once
                        /\ trail'[i].read[k] + (Len(trail'[i].read) + 1 - k) * trail'[i].every
                             <= tasks'[i].due
    BY DEF Spaced
  <2>1. i \in DOMAIN tasks /\ i \in Task
    BY <1>4, <1>5
  <2>2. CASE i \in D
    <3>1. /\ trail[i].read \in Seq(Nat) /\ trail[i].every \in Nat /\ tasks[i].due \in Nat
          /\ tasks[i].due <= t
      BY <1>8, <2>2 DEF Trail, D, Due, t
    <3>2. \A k \in DOMAIN trail[i].read :
            trail[i].read[k] + (Len(trail[i].read) + 1 - k) * trail[i].every <= tasks[i].due
      BY <2>1 DEF SInv, Spaced
    <3>3. \A k \in DOMAIN Append(trail[i].read, t) :
            Append(trail[i].read, t)[k]
              + (Len(Append(trail[i].read, t)) + 1 - k) * trail[i].every <= t + trail[i].every
      BY <3>1, <3>2, <1>1, TakenOnPace
    <3>4. /\ trail'[i].read = Append(trail[i].read, t) /\ trail'[i].every = trail[i].every
          /\ tasks'[i].due = t + trail[i].every /\ trail[i].every # Once
      BY <2>2, <1>8, <1>9, <1>11
    <3> QED
      BY <3>3, <3>4
  <2>3. CASE i \notin D
    <3>1. tasks'[i] = tasks[i] /\ trail'[i] = trail[i]
      BY <1>4, <1>6, <2>1, <2>3
    <3> QED
      BY <3>1, <2>1 DEF SInv, Spaced
  <2> QED
    BY <2>2, <2>3
<1>15. \A b \in Actor : /\ b # a => Held(b)' = Held(b)
                        /\ b = a => Held(b)' = list /\ Held(b) = <<>>
  BY <1>3 DEF SInv, TInv, BInv, Held
<1>16. ASSUME NEW i \in 1..sequence, trail'[i].every = Once PROVE InOnePlace(i)'
  <2>1. trail[i].every = Once /\ trail'[i].starts = trail[i].starts
        /\ trail'[i].dropped = trail[i].dropped
    BY <1>5, <1>6, <1>9, <1>16
  <2>2. InOnePlace(i)
    BY <2>1 DEF SInv
  <2>3. CASE i \in D
    <3>1. i \in DOMAIN tasks /\ tasks[i].every = Once
      BY <1>8, <2>1, <2>3 DEF D
    <3>2. i \notin DOMAIN tasks'
      BY <1>4, <2>3, <3>1
    <3>3. Holders(i) = {} /\ trail[i].starts = 0 /\ ~trail[i].dropped
      BY <2>2, <3>1 DEF InOnePlace
    <3>4. \A b \in Actor \ {a} : i \notin Range(Held(b)')
      BY <1>15, <3>3 DEF Holders
    <3>5. i \in Range(Held(a)')
      BY <1>2, <1>15, <2>3
    <3>6. Holders(i)' = {a}
      BY <3>4, <3>5 DEF Holders
    <3> QED
      BY <2>1, <3>2, <3>3, <3>6 DEF InOnePlace
  <2>4. CASE i \notin D
    <3>1. \A b \in Actor : i \in Range(Held(b)') <=> i \in Range(Held(b))
      <4>1. i \notin Range(<<>>)
        BY DEF Range
      <4>2. i \notin Range(list)
        BY <1>2, <2>4
      <4> QED
        BY <1>15, <4>1, <4>2
    <3>2. Holders(i)' = Holders(i)
      BY <3>1 DEF Holders
    <3>3. i \in DOMAIN tasks' <=> i \in DOMAIN tasks
      BY <1>4, <2>4
    <3> QED
      BY <2>1, <2>2, <3>2, <3>3 DEF InOnePlace
  <2> QED
    BY <2>3, <2>4
<1> QED
  BY <1>3, <1>12, <1>13, <1>14, <1>16 DEF SInv

(* A task that starts leaves its thread's hands, and comes there once.     *)
LEMMA StartTaskKeeps ==
    ASSUME SInv, NEW a \in Actor, StartTask(a)
    PROVE  SInv'
<1>1. PICK h : h = Head(batch[a])
  OBVIOUS
<1>2. /\ pc[a] = "run" /\ batch[a] # <<>>
      /\ pc' = [pc EXCEPT ![a] = "calling"]
      /\ trail' = [trail EXCEPT ![h].starts = IF @ < 2 THEN @ + 1 ELSE @]
      /\ UNCHANGED <<clock, tasks, sequence, created, now, batch>>
  BY <1>1 DEF StartTask, runVars
<1>3. batch[a] \in Seq(1..sequence) /\ IsInjective(batch[a])
  BY DEF SInv, BInv
<1>4. h \in 1..sequence /\ h \in Task /\ 1..sequence \subseteq Task
  BY <1>1, <1>2, <1>3, HeadTailProperties, SchedulerAssumption DEF SInv, TInv, Task
<1>5. /\ Range(batch[a]) = Range(Tail(batch[a])) \union {h}
      /\ h \notin Range(Tail(batch[a]))
  <2> DEFINE s == batch[a]
  <2>1. /\ s \in Seq(1..sequence) /\ s # <<>> /\ h = s[1] /\ Len(s) \in Nat /\ Len(s) >= 1
        /\ \A k, l \in 1..Len(s) : s[k] = s[l] => k = l
    BY <1>1, <1>2, <1>3 DEF IsInjective
  <2> HIDE DEF s
  <2>2. /\ Tail(s) \in Seq(1..sequence) /\ Len(Tail(s)) = Len(s) - 1
        /\ \A k \in 1..Len(Tail(s)) : Tail(s)[k] = s[k + 1]
    BY <2>1, HeadTailProperties
  <2>3. Range(s) = {s[k] : k \in 1..Len(s)}
    BY <2>1 DEF Range
  <2>4. Range(Tail(s)) = {Tail(s)[k] : k \in 1..Len(Tail(s))}
    <3>1. DOMAIN Tail(s) = 1..Len(Tail(s))
      BY <2>2, LenProperties
    <3> QED
      BY <3>1 DEF Range
  <2>5. \A k \in 1..Len(s) : k = 1 \/ (k - 1 \in 1..Len(Tail(s)) /\ Tail(s)[k - 1] = s[k])
    BY <2>1, <2>2
  <2>6. \A k \in 1..Len(Tail(s)) : k + 1 \in 1..Len(s) /\ Tail(s)[k] = s[k + 1] /\ k + 1 # 1
    BY <2>1, <2>2
  <2>7. 1 \in 1..Len(s)
    BY <2>1
  <2>8. Range(s) \subseteq Range(Tail(s)) \union {h}
    BY <2>1, <2>3, <2>4, <2>5
  <2>9. Range(Tail(s)) \union {h} \subseteq Range(s)
    BY <2>1, <2>3, <2>4, <2>6, <2>7
  <2>10. h \notin Range(Tail(s))
    BY <2>1, <2>4, <2>6, <2>7
  <2> QED
    BY <2>8, <2>9, <2>10 DEF s
<1>6. \A b \in Actor : /\ b # a => Held(b)' = Held(b)
                       /\ b = a => Held(b)' = Tail(batch[a]) /\ Held(b) = batch[a]
  BY <1>2 DEF Held, SInv, TInv
<1>7. \A i \in Task \ {h} : trail'[i] = trail[i]
  BY <1>2 DEF SInv, TInv
<1>8. /\ trail'[h] \in Trail
      /\ trail'[h].read = trail[h].read /\ trail'[h].every = trail[h].every
      /\ trail'[h].dropped = trail[h].dropped
      /\ trail[h].starts = 0 => trail'[h].starts = 1
  <2> DEFINE r == trail[h]
  <2>1. r \in Trail /\ trail'[h] = [r EXCEPT !.starts = IF @ < 2 THEN @ + 1 ELSE @]
    BY <1>2, <1>4 DEF SInv, TInv
  <2> HIDE DEF r
  <2> QED
    BY <2>1 DEF Trail, r
<1>9. TInv'
  <2>1. pc' \in [Actor \union Controller -> Place]
    BY <1>2 DEF SInv, TInv, Place
  <2>2. \A w \in Worker : w > created => pc'[w] = "new"
    BY <1>2 DEF SInv, TInv
  <2>3. trail' \in [Task -> Trail]
    BY <1>2, <1>7, <1>8 DEF SInv, TInv
  <2>4. \A i \in DOMAIN tasks : tasks[i].every = trail'[i].every
    BY <1>4, <1>7, <1>8 DEF SInv, TInv
  <2>5. \A i \in Task : i > sequence => trail'[i] = NoTrail
    <3>1. ~ (h > sequence)
      BY <1>4, SchedulerAssumption DEF SInv, TInv
    <3> QED
      BY <1>7, <3>1 DEF SInv, TInv
  <2> QED
    BY <1>2, <2>1, <2>2, <2>3, <2>4, <2>5 DEF SInv, TInv
<1>10. BInv'
  BY <1>2 DEF SInv, BInv, TInv
<1>11. Spaced'
  BY <1>2, <1>4, <1>7, <1>8 DEF SInv, TInv, Spaced
<1>12. ASSUME NEW i \in 1..sequence, trail'[i].every = Once PROVE InOnePlace(i)'
  <2>1. i \in Task
    BY <1>4
  <2>2. trail[i].every = Once
    BY <1>7, <1>8, <1>12, <2>1
  <2>3. InOnePlace(i)
    BY <2>2 DEF SInv
  <2>4. CASE i # h
    <3>1. \A b \in Actor : i \in Range(Held(b)') <=> i \in Range(Held(b))
      BY <1>5, <1>6, <2>4
    <3>2. Holders(i)' = Holders(i)
      BY <3>1 DEF Holders
    <3> QED
      BY <1>2, <1>7, <2>1, <2>3, <2>4, <3>2 DEF InOnePlace
  <2>5. CASE i = h
    <3>1. a \in Holders(i)
      BY <1>5, <1>6, <2>5 DEF Holders
    <3>2. /\ Holders(i) = {a} /\ trail[i].starts = 0 /\ ~trail[i].dropped
          /\ i \notin DOMAIN tasks
      BY <2>3, <3>1 DEF InOnePlace
    <3>3. \A b \in Actor : i \notin Range(Held(b)')
      BY <1>5, <1>6, <2>5, <3>2 DEF Holders
    <3>4. Holders(i)' = {}
      BY <3>3 DEF Holders
    <3>5. trail'[i].starts = 1 /\ ~trail'[i].dropped
      BY <1>8, <2>5, <3>2
    <3> QED
      BY <1>2, <3>2, <3>4, <3>5 DEF InOnePlace
  <2> QED
    BY <2>4, <2>5
<1> QED
  BY <1>2, <1>9, <1>10, <1>11, <1>12 DEF SInv

(* A callback that ends, or raises, gives its thread the rest of the batch.*)
LEMMA TaskEndsKeeps ==
    ASSUME SInv, NEW a \in Actor, TaskEnds(a)
    PROVE  SInv'
<1>1. /\ pc[a] = "calling" /\ batch' = [batch EXCEPT ![a] = Tail(batch[a])]
      /\ pc' = [pc EXCEPT ![a] = "run"]
      /\ UNCHANGED <<clock, tasks, sequence, created, now, trail>>
  BY DEF TaskEnds
<1>2. batch[a] \in Seq(1..sequence) /\ IsInjective(batch[a]) /\ batch[a] # <<>>
  BY <1>1 DEF SInv, BInv
<1>3. Tail(batch[a]) \in Seq(1..sequence) /\ IsInjective(Tail(batch[a]))
  <2> DEFINE s == batch[a]
  <2>1. /\ s \in Seq(1..sequence) /\ s # <<>> /\ Len(s) \in Nat
        /\ \A k, l \in 1..Len(s) : s[k] = s[l] => k = l
    BY <1>2 DEF IsInjective
  <2> HIDE DEF s
  <2>2. /\ Tail(s) \in Seq(1..sequence) /\ Len(Tail(s)) = Len(s) - 1
        /\ \A k \in 1..Len(Tail(s)) : Tail(s)[k] = s[k + 1]
    BY <2>1, HeadTailProperties
  <2>3. \A k, l \in 1..Len(Tail(s)) : Tail(s)[k] = Tail(s)[l] => k = l
    <3> SUFFICES ASSUME NEW k \in 1..Len(Tail(s)), NEW l \in 1..Len(Tail(s)),
                        Tail(s)[k] = Tail(s)[l]
                 PROVE  k = l
      OBVIOUS
    <3>1. k + 1 \in 1..Len(s) /\ l + 1 \in 1..Len(s) /\ s[k + 1] = s[l + 1]
      BY <2>1, <2>2
    <3>2. k + 1 = l + 1
      BY <2>1, <3>1
    <3> QED
      BY <3>2
  <2> QED
    BY <2>2, <2>3 DEF IsInjective, s
<1>4. \A b \in Actor : Held(b)' = Held(b)
  BY <1>1 DEF Held, SInv, TInv, BInv
<1>5. \A i : Holders(i)' = Holders(i)
  BY <1>4 DEF Holders
<1>6. TInv'
  <2>1. pc' \in [Actor \union Controller -> Place]
    BY <1>1 DEF SInv, TInv, Place
  <2>2. \A w \in Worker : w > created => pc'[w] = "new"
    BY <1>1 DEF SInv, TInv
  <2> QED
    BY <1>1, <2>1, <2>2 DEF SInv, TInv
<1>7. BInv'
  BY <1>1, <1>3 DEF SInv, TInv, BInv
<1>8. Spaced'
  BY <1>1 DEF SInv, Spaced
<1>9. \A i \in 1..sequence : trail[i].every = Once => InOnePlace(i)'
  BY <1>1, <1>5 DEF SInv, InOnePlace
<1> QED
  BY <1>1, <1>6, <1>7, <1>8, <1>9 DEF SInv

LEMMA SInvStep == SInv /\ [Next]_vars => SInv'
<1> SUFFICES ASSUME SInv, [Next]_vars PROVE SInv'
  OBVIOUS
<1>1. CASE ScheduleOnce
  <2>1. PICK t \in 0..clock, d \in Delay : Add(t + d, Once)
    BY <1>1 DEF ScheduleOnce
  <2>2. t + d \in Nat /\ Once \in Nat
    BY SchedulerAssumption DEF SInv, TInv, Once
  <2> QED
    BY <2>1, <2>2, AddKeeps
<1>2. CASE ScheduleEvery
  <2>1. PICK t \in 0..clock, every \in Interval :
          \E initial \in {0, every} : Add(t + initial, every)
    BY <1>2 DEF ScheduleEvery
  <2>2. PICK initial \in {0, every} : Add(t + initial, every)
    BY <2>1
  <2>3. t + initial \in Nat /\ every \in Nat
    BY SchedulerAssumption DEF SInv, TInv
  <2> QED
    BY <2>2, <2>3, AddKeeps
<1>3. ASSUME NEW i \in Task, Cancel(i) PROVE SInv'
  BY <1>3, DropKeeps DEF Cancel, runVars
<1>4. CASE Clear
  <2>1. tasks' = [j \in DOMAIN tasks \ DOMAIN tasks |-> tasks[j]]
    BY <1>4 DEF Clear
  <2> QED
    BY <1>4, <2>1, DropKeeps DEF Clear, runVars
<1>5. ASSUME NEW a \in Actor, Running(a) PROVE SInv'
  BY <1>5, TakeKeeps, StartTaskKeeps, TaskEndsKeeps, ControlKeeps DEF Running
<1>6. ASSUME NEW a \in Actor, ReadClock(a) PROVE SInv'
  BY <1>6, ControlKeeps
<1>7. ASSUME NEW w \in Worker, EndWait(w) \/ WorkerExits(w) PROVE SInv'
  BY <1>7, ControlKeeps
<1>8. ASSUME NEW c \in Controller,
             Start(c) \/ BeginStop(c) \/ SignalStop(c) \/ JoinTimesOut(c) \/ EndStop(c)
      PROVE  SInv'
  BY <1>8, ControlKeeps
<1>9. CASE Tick \/ UNCHANGED vars
  BY <1>9, ControlKeeps
<1> QED
  BY <1>1, <1>2, <1>3, <1>4, <1>5, <1>6, <1>7, <1>8, <1>9 DEF Next, Working, Actor

(* For any number of threads that run, start and stop the scheduler, and   *)
(* any tasks, a one-time task is in one place: it starts once at most, and *)
(* not at all once it was dropped, and none is lost (scheduler.py:183).    *)
THEOREM OneTimeAlwaysConserved == Spec => []OneTimeConserved
  BY SInvInit, SInvStep, SInvSuffices, PTL DEF Spec

(* With what each thread read: it is past, and what was taken was in pace. *)
RInv ==
    /\ SInv
    /\ \A a \in Actor : now[a] <= clock
    /\ PaceKept

(* A step that takes nothing, and reads no time but the clock's.           *)
LEMMA UntakenStep ==
    ASSUME RInv, SInv', clock' \in Nat, clock <= clock',
           \A a \in Actor : now'[a] = now[a] \/ now'[a] = clock,
           \A i \in Task : \/ trail[i].read = trail'[i].read
                              /\ trail[i].every = trail'[i].every
                           \/ trail'[i].read = <<>>
    PROVE  RInv'
<1>1. clock \in Nat /\ now \in [Actor -> Nat] /\ trail \in [Task -> Trail]
  BY DEF RInv, SInv, TInv
<1>2. \A a \in Actor : now'[a] <= clock'
  <2> SUFFICES ASSUME NEW a \in Actor PROVE now'[a] <= clock'
    OBVIOUS
  <2>1. now[a] \in Nat /\ now[a] <= clock
    BY <1>1 DEF RInv
  <2> QED
    BY <2>1, <1>1
<1>3. ASSUME NEW i \in Task, NEW k \in DOMAIN trail'[i].read
      PROVE  trail'[i].read[k] + (Len(trail'[i].read) - k) * trail'[i].every <= clock'
  <2>1. trail[i].read = trail'[i].read /\ trail[i].every = trail'[i].every
    BY <1>3
  <2>2. trail[i].read[k] + (Len(trail[i].read) - k) * trail[i].every <= clock
    BY <1>3, <2>1 DEF RInv, PaceKept
  <2>3. trail[i].read \in Seq(Nat) /\ trail[i].every \in Nat /\ k \in DOMAIN trail[i].read
    BY <1>1, <1>3, <2>1 DEF Trail
  <2>4. trail[i].read[k] \in Int /\ (Len(trail[i].read) - k) * trail[i].every \in Int
    BY <2>3
  <2> QED
    BY <2>1, <2>2, <2>4, <1>1
<1> QED
  BY <1>2, <1>3 DEF RInv, PaceKept

(* A take is of what is due by the time the thread read, which is past.    *)
LEMMA TakeOnPace ==
    ASSUME RInv, SInv', NEW a \in Actor, TakeDue(a)
    PROVE  RInv'
<1>1. /\ clock' = clock /\ now' = now /\ clock \in Nat /\ now[a] \in Nat /\ now[a] <= clock
      /\ trail \in [Task -> Trail]
  BY DEF RInv, SInv, TInv, TakeDue
<1>2. ASSUME NEW i \in Task, NEW k \in DOMAIN trail'[i].read
      PROVE  trail'[i].read[k] + (Len(trail'[i].read) - k) * trail'[i].every <= clock
  <2>1. CASE i \in DOMAIN tasks /\ Due(i, now[a])
    <3>1. trail'[i] = [trail[i] EXCEPT !.read = Append(trail[i].read, now[a])]
      BY <2>1 DEF TakeDue
    <3>2. /\ trail'[i].read = Append(trail[i].read, now[a])
          /\ trail'[i].every = trail[i].every
      BY <3>1, <1>1 DEF Trail
    <3>3. /\ trail[i].read \in Seq(Nat) /\ trail[i].every \in Nat /\ tasks[i].due \in Nat
          /\ tasks[i].due <= now[a]
      BY <1>1, <2>1 DEF Trail, RInv, SInv, TInv, Due
    <3>4. \A l \in DOMAIN trail[i].read :
            trail[i].read[l] + (Len(trail[i].read) + 1 - l) * trail[i].every <= tasks[i].due
      BY <2>1 DEF RInv, SInv, Spaced
    <3> DEFINE s == Append(trail[i].read, now[a])
    <3>5. s[k] + (Len(s) - k) * trail[i].every <= now[a]
      BY <1>1, <1>2, <3>2, <3>3, <3>4, TakenOnPace
    <3>6. s \in Seq(Nat) /\ k \in DOMAIN s
      BY <1>1, <1>2, <3>2, <3>3
    <3> HIDE DEF s
    <3>7. s[k] \in Int /\ (Len(s) - k) * trail[i].every \in Int
      BY <3>3, <3>6
    <3>8. s[k] + (Len(s) - k) * trail[i].every <= clock
      BY <3>5, <3>7, <1>1
    <3> QED
      BY <3>2, <3>8 DEF s
  <2>2. CASE ~ (i \in DOMAIN tasks /\ Due(i, now[a]))
    <3>1. trail'[i] = trail[i]
      BY <2>2 DEF TakeDue
    <3> QED
      BY <3>1, <1>2 DEF RInv, PaceKept
  <2> QED
    BY <2>1, <2>2
<1> QED
  BY <1>1, <1>2 DEF RInv, PaceKept

(* Nothing but a take lengthens what was read of a task.                   *)
LEMMA RInvStep == RInv /\ [Next]_vars => RInv'
<1> SUFFICES ASSUME RInv, [Next]_vars PROVE RInv'
  OBVIOUS
<1>1. SInv'
  BY SInvStep DEF RInv
<1>2. clock \in Nat /\ now \in [Actor -> Nat] /\ trail \in [Task -> Trail]
  BY DEF RInv, SInv, TInv
<1>3. ASSUME trail' = trail, clock' = clock \/ clock' = clock + 1, now' = now
      PROVE  RInv'
  BY <1>1, <1>2, <1>3, UntakenStep
<1>4. ASSUME NEW due, NEW every, Add(due, every) PROVE RInv'
  <2>1. PICK n : n = sequence + 1
    OBVIOUS
  <2>2. /\ trail' = [trail EXCEPT ![n].every = every] /\ UNCHANGED <<clock, now>>
        /\ sequence \in Int /\ n > sequence
    BY <1>4, <2>1, SchedulerAssumption DEF Add, runVars, RInv, SInv, TInv
  <2>3. \A i \in Task : i # n => trail'[i] = trail[i]
    BY <1>2, <2>2
  <2>4. n \in Task => trail'[n].read = <<>>
    <3>1. n \in Task => trail[n] = NoTrail /\ trail[n] \in Trail
      BY <2>2, <1>2 DEF RInv, SInv, TInv
    <3>2. n \in Task => trail'[n].read = trail[n].read
      BY <1>2, <2>2, <3>1 DEF Trail
    <3> QED
      BY <3>1, <3>2 DEF NoTrail
  <2> QED
    BY <1>1, <1>2, <2>2, <2>3, <2>4, UntakenStep
<1>5. ASSUME NEW S, trail' = Dropping(S), UNCHANGED <<clock, now>> PROVE RInv'
  <2>1. \A i \in Task : trail'[i].read = trail[i].read /\ trail'[i].every = trail[i].every
    BY <1>2, <1>5 DEF Dropping, Trail
  <2> QED
    BY <1>1, <1>2, <1>5, <2>1, UntakenStep
<1>6. ASSUME NEW a \in Actor, ReadClock(a) PROVE RInv'
  <2>1. now' = [now EXCEPT ![a] = clock] /\ UNCHANGED <<clock, trail>>
    BY <1>6 DEF ReadClock
  <2> QED
    BY <1>1, <1>2, <2>1, UntakenStep
<1>7. ASSUME NEW a \in Actor, StartTask(a) PROVE RInv'
  <2>1. PICK h : trail' = [trail EXCEPT ![h].starts = IF @ < 2 THEN @ + 1 ELSE @]
    BY <1>7 DEF StartTask
  <2>2. UNCHANGED <<clock, now>>
    BY <1>7 DEF StartTask, runVars
  <2>3. \A i \in Task : trail'[i].read = trail[i].read /\ trail'[i].every = trail[i].every
    BY <1>2, <2>1 DEF Trail
  <2> QED
    BY <1>1, <1>2, <2>2, <2>3, UntakenStep
<1>8. CASE Tick \/ UNCHANGED vars
  BY <1>3, <1>8 DEF Tick, vars, runVars
<1>9. ASSUME NEW a \in Actor, TaskEnds(a) \/ EndRun(a) PROVE RInv'
  BY <1>3, <1>9 DEF TaskEnds, EndRun, runVars
<1>10. ASSUME NEW w \in Worker, EndWait(w) \/ WorkerExits(w) PROVE RInv'
  BY <1>3, <1>10 DEF EndWait, WorkerExits, runVars
<1>11. ASSUME NEW c \in Controller,
              Start(c) \/ BeginStop(c) \/ SignalStop(c) \/ JoinTimesOut(c) \/ EndStop(c)
       PROVE  RInv'
  BY <1>3, <1>11 DEF Start, BeginStop, SignalStop, JoinTimesOut, EndStop, runVars
<1>12. ASSUME NEW a \in Actor, TakeDue(a) PROVE RInv'
  BY <1>1, <1>12, TakeOnPace
<1>13. CASE ScheduleOnce \/ ScheduleEvery
  BY <1>4, <1>13 DEF ScheduleOnce, ScheduleEvery
<1>14. ASSUME NEW i \in Task, Cancel(i) PROVE RInv'
  BY <1>5, <1>14 DEF Cancel, runVars
<1>15. CASE Clear
  BY <1>5, <1>15 DEF Clear, runVars
<1> QED
  BY <1>6, <1>7, <1>8, <1>9, <1>10, <1>11, <1>12, <1>13, <1>14, <1>15
     DEF Next, Running, Working, Actor

(* For any number of threads that run the scheduler, and however late the  *)
(* times they read: since any of its takers read the clock, a recurring    *)
(* task was taken again once per interval at most, so what the stale times *)
(* gain does not add up (scheduler.py:167, :191).                          *)
THEOREM PaceAlwaysKept == Spec => []PaceKept
<1>1. Init => RInv
  <2> SUFFICES ASSUME Init PROVE RInv
    OBVIOUS
  <2>1. \A a \in Actor : now[a] <= clock
    BY DEF Init
  <2>2. \A i \in Task : DOMAIN trail[i].read = {}
    BY DEF Init, NoTrail
  <2> QED
    BY <2>1, <2>2, SInvInit DEF RInv, PaceKept
<1>2. RInv => PaceKept
  BY DEF RInv
<1> QED
  BY <1>1, <1>2, RInvStep, PTL DEF Spec

-----------------------------------------------------------------------------
(* The event bus, and the logger on it.                                    *)

Event == [audience : Seq(Nat), called : Seq(Nat), failed : SUBSET Nat,
          outcome : {"open", "returned", "raised"}]
Frame == [event : Nat, todo : Seq(Nat), calling : BOOLEAN]

(* A listener on the bus is the one that was subscribed with its id. *)
Registered ==
    /\ made \in Seq(Listener)
    /\ \A k \in DOMAIN made : made[k].id = k
    /\ \A l \in listeners : l.id \in DOMAIN made /\ made[l.id] = l

Hears(k, e) == k \in Range(events[e].audience)

(* What emit copies out under the lock: each listener once, and one that   *)
(* was subscribed with once is in one event's audience at most, off the    *)
(* bus from then on.                                                       *)
Copied ==
    /\ events \in Seq(Event)
    /\ \A e \in DOMAIN events : /\ IsInjective(events[e].audience)
                                /\ Range(events[e].audience) \subseteq DOMAIN made
    /\ \A k \in DOMAIN made : made[k].once =>
          /\ \A e \in DOMAIN events : Hears(k, e) => made[k] \notin listeners
          /\ \A e, f \in DOMAIN events : Hears(k, e) /\ Hears(k, f) => e = f

(* The listeners called so far are the first of the audience. *)
Followed(v) ==
    /\ Len(v.called) <= Len(v.audience)
    /\ \A k \in 1..Len(v.called) : v.called[k] = v.audience[k]
    /\ v.outcome # "open" => Len(v.called) = Len(v.audience)

(* How many have been called and have ended; the emit has the others to do.*)
Heard(f, v) == IF f.calling THEN Len(v.called) - 1 ELSE Len(v.called)
InStep(f, v) ==
    /\ f.calling => Len(v.called) > 0
    /\ Len(f.todo) = Len(v.audience) - Heard(f, v)
    /\ \A k \in 1..Len(f.todo) : f.todo[k] = v.audience[Heard(f, v) + k]

(* Every emit under way is at its place in its own event. *)
Dispatched ==
    /\ \A e \in DOMAIN events : Followed(events[e])
    /\ stack \in [Thread -> Seq(Frame)]
    /\ \A t \in Thread : \A d \in DOMAIN stack[t] :
          /\ stack[t][d].event \in DOMAIN events
          /\ InStep(stack[t][d], events[stack[t][d].event])
    /\ \A t, u \in Thread : \A d \in DOMAIN stack[t], f \in DOMAIN stack[u] :
          stack[t][d].event = stack[u][f].event => t = u /\ d = f

BusInv == Registered /\ Copied /\ Dispatched

LEMMA BusInitEstablishes == BusInit => BusInv
<1> SUFFICES ASSUME BusInit PROVE BusInv
  OBVIOUS
<1>1. Registered
  BY DEF BusInit, Registered
<1>2. Copied
  BY DEF BusInit, Copied
<1>3. Dispatched
  BY DEF BusInit, Dispatched
<1> QED
  BY <1>1, <1>2, <1>3 DEF BusInv

(* Taking listeners off the bus touches no event: that has its copy. *)
LEMMA ListenersLeave ==
    ASSUME BusInv, listeners' \subseteq listeners, UNCHANGED <<made, events, stack>>
    PROVE  BusInv'
<1>1. Registered'
  BY DEF BusInv, Registered
<1>2. Copied'
  BY DEF BusInv, Copied, Hears
<1>3. Dispatched'
  BY DEF BusInv, Dispatched
<1> QED
  BY <1>1, <1>2, <1>3 DEF BusInv

LEMMA SubscribeKeeps ==
    ASSUME BusInv, NEW n \in AnyName, NEW once \in BOOLEAN, Subscribe(n, once)
    PROVE  BusInv'
<1> DEFINE m == Len(made)
           new == NewListener(n, once)
<1>0. m \in Nat /\ DOMAIN made = 1..m /\ made \in Seq(Listener)
  BY DEF BusInv, Registered
<1>1. new \in Listener /\ new.id = m + 1
  BY <1>0, BusAssumption DEF Subscribe, NewListener, Listener, Id
<1>2. /\ made' = Append(made, new)
      /\ listeners' = listeners \union {new}
      /\ UNCHANGED <<events, stack>>
  BY DEF Subscribe
<1> HIDE DEF new
<1>3. /\ made' \in Seq(Listener)
      /\ DOMAIN made' = 1..(m + 1)
      /\ \A k \in 1..m : made'[k] = made[k]
      /\ made'[m + 1] = new
  BY <1>0, <1>1, <1>2
<1> HIDE DEF m
<1>4. Registered'
  <2>1. \A k \in 1..(m + 1) : k \in 1..m \/ k = m + 1
    BY <1>0
  <2>2. \A k \in DOMAIN made' : made'[k].id = k
    BY <1>0, <1>1, <1>3, <2>1 DEF BusInv, Registered
  <2>3. \A l \in listeners' : l.id \in DOMAIN made' /\ made'[l.id] = l
    BY <1>0, <1>1, <1>2, <1>3 DEF BusInv, Registered
  <2> QED
    BY <1>3, <2>2, <2>3 DEF Registered
<1>5. Copied'
  <2>1. \A e \in DOMAIN events : \A k : Hears(k, e)' <=> Hears(k, e)
    BY <1>2 DEF Hears
  <2>2. \A e \in DOMAIN events : \A k : Hears(k, e) => k \in 1..m
    BY <1>0 DEF BusInv, Copied, Hears
  <2>3. \A k \in 1..m : made[k] # new
    BY <1>0, <1>1 DEF BusInv, Registered
  <2>4. 1..m \subseteq DOMAIN made'
    BY <1>0, <1>3
  <2>5. \A e \in DOMAIN events' : /\ IsInjective(events'[e].audience)
                                  /\ Range(events'[e].audience) \subseteq DOMAIN made'
    BY <1>0, <1>2, <2>4 DEF BusInv, Copied
  <2>6. \A k \in DOMAIN made' : made'[k].once =>
          /\ \A e \in DOMAIN events : Hears(k, e) => made'[k] \notin listeners'
          /\ \A e, f \in DOMAIN events : Hears(k, e) /\ Hears(k, f) => e = f
    <3> SUFFICES ASSUME NEW k \in DOMAIN made', made'[k].once, k \in 1..m
                 PROVE  /\ \A e \in DOMAIN events : Hears(k, e) => made'[k] \notin listeners'
                        /\ \A e, f \in DOMAIN events : Hears(k, e) /\ Hears(k, f) => e = f
      BY <2>2
    <3>1. made'[k] = made[k] /\ k \in DOMAIN made
      BY <1>0, <1>3
    <3> QED
      BY <3>1, <2>3, <1>2 DEF BusInv, Copied
  <2>7. events' \in Seq(Event)
    BY <1>2 DEF BusInv, Copied
  <2> QED
    BY <1>2, <2>1, <2>5, <2>6, <2>7 DEF Copied
<1>6. Dispatched'
  BY <1>2 DEF BusInv, Dispatched
<1> QED
  BY <1>4, <1>5, <1>6 DEF BusInv

(* The audience lists whom it should, each once: subscription order, the   *)
(* name's own before the wildcard's, is a strict total order of them.      *)
LEMMA AudienceListed ==
    ASSUME Registered, NEW n \in AnyName
    PROVE  \E N \in Nat :
             /\ Audience(n) \in [1..N -> Hearing(n)]
             /\ \A k, l \in 1..N : Audience(n)[k] = Audience(n)[l] => k = l
<1> DEFINE S == Hearing(n)
           R == {jl \in S \X S : Ahead(jl[1], jl[2])}
           N == Cardinality(S)
<1>1. IsFiniteSet(S)
  <2>1. Len(made) \in Nat /\ DOMAIN made = 1..Len(made)
    BY DEF Registered
  <2>2. IsFiniteSet(1..Len(made))
    BY <2>1, FS_Interval
  <2>3. PICK id : id = [l \in S |-> l.id]
    OBVIOUS
  <2>4. \A l \in S : l.id \in 1..Len(made) /\ made[l.id] = l
    BY <2>1 DEF Registered, Hearing
  <2> HIDE DEF S
  <2>5. id \in Injection(S, 1..Len(made))
    BY <2>3, <2>4 DEF Injection, IsInjective
  <2> QED
    BY <2>2, <2>5, FS_Injection
<1>2. \A l \in S : /\ l.id \in Int /\ l.name \in {n, WILDCARD}
                   /\ made[l.id] = l
  BY DEF Registered, Hearing
<1>3. \A j, l \in S : <<j, l>> \in R <=> Ahead(j, l)
  OBVIOUS
<1> HIDE DEF S, R
<1>4. \A l \in S : <<l, l>> \notin R
  BY <1>2, <1>3 DEF Ahead
<1>5. \A i, j, l \in S : <<i, j>> \in R /\ <<j, l>> \in R => <<i, l>> \in R
  BY <1>2, <1>3 DEF Ahead
<1>6. \A j, l \in S : j # l => <<j, l>> \in R \/ <<l, j>> \in R
  BY <1>2, <1>3 DEF Ahead
<1>7. \A l \in S : {j \in S : <<j, l>> \in R} = {j \in S : Ahead(j, l)}
  BY <1>3
<1>8. Audience(n) = [k \in 1..N |-> CHOOSE l \in S : Cardinality({j \in S : Ahead(j, l)}) = k - 1]
  BY DEF Audience, S
<1>9. ASSUME NEW k
      PROVE  (CHOOSE l \in S : Cardinality({j \in S : Ahead(j, l)}) = k - 1)
             = (CHOOSE l \in S : Cardinality({j \in S : <<j, l>> \in R}) = k - 1)
  <2>1. \A l \in S : Cardinality({j \in S : Ahead(j, l)}) = k - 1
                       <=> Cardinality({j \in S : <<j, l>> \in R}) = k - 1
    BY <1>7
  <2> QED
    BY <2>1
<1>10. Audience(n) = Listing(S, R)
  BY <1>8, <1>9 DEF Listing
<1>11. /\ N \in Nat
       /\ Audience(n) \in [1..N -> S]
       /\ \A k, l \in 1..N : Audience(n)[k] = Audience(n)[l] => k = l
  BY <1>1, <1>4, <1>5, <1>6, <1>10, ListingLists
<1> QED
  BY <1>11 DEF S

(* emit copies and removes in one section: whoever of the audience was     *)
(* subscribed with once had not been copied before, and is not again.      *)
LEMMA EmitKeeps ==
    ASSUME BusInv, NEW t \in Thread, NEW n \in AnyName, Emit(t, n)
    PROVE  BusInv'
<1>1. PICK a : a = [k \in DOMAIN Audience(n) |-> Audience(n)[k].id]
  OBVIOUS
<1>2. PICK new : new = [audience |-> a, called |-> <<>>, failed |-> {}, outcome |-> "open"]
  OBVIOUS
<1>3. PICK m : m = Len(events)
  OBVIOUS
<1>4. PICK frame : frame = [event |-> m + 1, todo |-> a, calling |-> FALSE]
  OBVIOUS
<1>5. /\ events' = Append(events, new)
      /\ stack' = [stack EXCEPT ![t] = Append(@, frame)]
      /\ listeners' = Kept(n)
      /\ made' = made
  BY <1>1, <1>2, <1>3, <1>4 DEF Emit
<1>6. /\ m \in Nat /\ DOMAIN events = 1..m /\ events \in Seq(Event)
      /\ stack \in [Thread -> Seq(Frame)]
  BY <1>3 DEF BusInv, Copied, Dispatched
<1>7. /\ a \in Seq(Nat) /\ IsInjective(a) /\ Range(a) \subseteq DOMAIN made
      /\ \A k \in Range(a) : made[k] \in Hearing(n)
  <2>1. PICK N \in Nat : /\ Audience(n) \in [1..N -> Hearing(n)]
                         /\ \A k, l \in 1..N : Audience(n)[k] = Audience(n)[l] => k = l
    BY AudienceListed DEF BusInv
  <2>2. \A l \in Hearing(n) : l.id \in DOMAIN made /\ made[l.id] = l /\ l.id \in Nat
    BY DEF BusInv, Registered, Hearing
  <2>3. a \in [1..N -> Nat] /\ \A k \in 1..N : a[k] = Audience(n)[k].id
    BY <1>1, <2>1, <2>2
  <2>4. a \in Seq(Nat)
    BY <2>1, <2>3
  <2>5. \A k \in 1..N : a[k] \in DOMAIN made /\ made[a[k]] = Audience(n)[k] /\ Audience(n)[k] \in Hearing(n)
    BY <2>1, <2>2, <2>3
  <2>6. IsInjective(a)
    BY <2>1, <2>3, <2>5 DEF IsInjective
  <2> QED
    BY <2>3, <2>4, <2>5, <2>6 DEF Range
<1>8. new \in Event /\ new.audience = a /\ new.called = <<>> /\ new.outcome = "open"
  BY <1>2, <1>7 DEF Event
<1>9. /\ events' \in Seq(Event) /\ DOMAIN events' = 1..(m + 1)
      /\ \A e \in 1..m : events'[e] = events[e]
      /\ events'[m + 1] = new
  BY <1>3, <1>5, <1>6, <1>8
<1>10. \A e \in 1..(m + 1) : e \in 1..m \/ e = m + 1
  BY <1>6
<1>11. Registered'
  BY <1>5 DEF BusInv, Registered, Kept
<1>12. Copied'
  <2>1. \A e \in 1..m : \A k : Hears(k, e)' <=> Hears(k, e)
    BY <1>9 DEF Hears
  <2>2. \A k : Hears(k, m + 1)' <=> k \in Range(a)
    BY <1>8, <1>9 DEF Hears
  <2>3. \A e \in DOMAIN events' : /\ IsInjective(events'[e].audience)
                                  /\ Range(events'[e].audience) \subseteq DOMAIN made'
    <3> SUFFICES ASSUME NEW e \in DOMAIN events'
                 PROVE  /\ IsInjective(events'[e].audience)
                        /\ Range(events'[e].audience) \subseteq DOMAIN made'
      OBVIOUS
    <3>1. CASE e \in 1..m
      BY <3>1, <1>5, <1>6, <1>9 DEF BusInv, Copied
    <3>2. CASE e = m + 1
      BY <3>2, <1>5, <1>7, <1>8, <1>9
    <3> QED
      BY <3>1, <3>2, <1>9, <1>10
  <2>4. ASSUME NEW k \in DOMAIN made', made'[k].once
        PROVE  /\ \A e \in DOMAIN events' : Hears(k, e)' => made'[k] \notin listeners'
               /\ \A e, f \in DOMAIN events' : Hears(k, e)' /\ Hears(k, f)' => e = f
    <3>1. made[k] \in Hearing(n) => made[k] \in listeners /\ made[k] \notin listeners'
      BY <2>4, <1>5 DEF Kept, Hearing
    <3>2. listeners' \subseteq listeners
      BY <1>5 DEF Kept
    <3>3. /\ \A e \in 1..m : Hears(k, e) => made[k] \notin listeners
          /\ \A e, f \in 1..m : Hears(k, e) /\ Hears(k, f) => e = f
      BY <2>4, <1>5, <1>6 DEF BusInv, Copied
    <3>4. Hears(k, m + 1)' => made[k] \in Hearing(n)
      BY <2>2, <1>7
    <3>5. \A e \in DOMAIN events' : Hears(k, e)' => made'[k] \notin listeners'
      BY <3>1, <3>2, <3>3, <3>4, <2>1, <1>5, <1>9, <1>10
    <3>6. \A e \in 1..m : ~(Hears(k, e)' /\ Hears(k, m + 1)')
      BY <3>1, <3>3, <3>4, <2>1
    <3>7. \A e, f \in DOMAIN events' : Hears(k, e)' /\ Hears(k, f)' => e = f
      BY <3>3, <3>6, <2>1, <1>9, <1>10
    <3> QED
      BY <3>5, <3>7
  <2> QED
    BY <2>3, <2>4, <1>9 DEF Copied
<1>13. Dispatched'
  <2>1. PICK n0 : n0 = Len(stack[t])
    OBVIOUS
  <2>2. n0 \in Nat /\ stack[t] \in Seq(Frame) /\ DOMAIN stack[t] = 1..n0
    BY <2>1, <1>6
  <2>3. frame \in Frame
    BY <1>4, <1>6, <1>7 DEF Frame
  <2>4. /\ stack' \in [Thread -> Seq(Frame)]
        /\ \A u \in Thread \ {t} : stack'[u] = stack[u]
        /\ DOMAIN stack'[t] = 1..(n0 + 1)
        /\ \A d \in 1..n0 : stack'[t][d] = stack[t][d]
        /\ stack'[t][n0 + 1] = frame
    <3>1. Append(stack[t], frame) \in Seq(Frame)
      BY <2>2, <2>3
    <3>2. stack'[t] = Append(stack[t], frame)
      BY <1>5, <1>6
    <3>3. stack' \in [Thread -> Seq(Frame)] /\ \A u \in Thread \ {t} : stack'[u] = stack[u]
      BY <3>1, <1>5, <1>6
    <3> QED
      BY <3>2, <3>3, <2>1, <2>2, <2>3
  <2>5. \A d \in 1..(n0 + 1) : d \in 1..n0 \/ d = n0 + 1
    BY <2>2
  <2>6. \A e \in DOMAIN events' : Followed(events'[e])
    <3>1. Followed(new)
      BY <1>7, <1>8 DEF Followed
    <3> QED
      BY <3>1, <1>6, <1>9, <1>10 DEF BusInv, Dispatched
  <2>7. InStep(frame, new)
    BY <1>4, <1>7, <1>8 DEF InStep, Heard
  <2>8. \A u \in Thread : \A d \in DOMAIN stack[u] :
           /\ stack[u][d].event \in 1..m
           /\ InStep(stack[u][d], events[stack[u][d].event])
    BY <1>6 DEF BusInv, Dispatched
  <2>9. \A u \in Thread : \A d \in DOMAIN stack'[u] :
           IF u = t /\ d = n0 + 1 THEN stack'[u][d] = frame
           ELSE d \in DOMAIN stack[u] /\ stack'[u][d] = stack[u][d]
    BY <2>2, <2>4, <2>5
  <2>10. \A u \in Thread : \A d \in DOMAIN stack'[u] :
           /\ stack'[u][d].event \in DOMAIN events'
           /\ InStep(stack'[u][d], events'[stack'[u][d].event])
    <3> SUFFICES ASSUME NEW u \in Thread, NEW d \in DOMAIN stack'[u]
                 PROVE  /\ stack'[u][d].event \in DOMAIN events'
                        /\ InStep(stack'[u][d], events'[stack'[u][d].event])
      OBVIOUS
    <3>1. CASE u = t /\ d = n0 + 1
      <4>1. stack'[u][d] = frame /\ frame.event = m + 1
        BY <3>1, <2>9, <1>4
      <4>2. m + 1 \in DOMAIN events' /\ events'[m + 1] = new
        BY <1>6, <1>9
      <4> QED
        BY <4>1, <4>2, <2>7
    <3>2. CASE ~(u = t /\ d = n0 + 1)
      BY <3>2, <2>8, <2>9, <1>6, <1>9
    <3> QED
      BY <3>1, <3>2
  <2>11. frame.event = m + 1
    BY <1>4
  <2>12. \A u, v \in Thread : \A d \in DOMAIN stack'[u], f \in DOMAIN stack'[v] :
           stack'[u][d].event = stack'[v][f].event => u = v /\ d = f
    <3>1. \A u \in Thread : \A d \in DOMAIN stack'[u] :
             stack'[u][d].event = m + 1 => u = t /\ d = n0 + 1
      BY <2>8, <2>9, <1>6
    <3>2. \A u, v \in Thread : \A d \in DOMAIN stack[u], f \in DOMAIN stack[v] :
             stack[u][d].event = stack[v][f].event => u = v /\ d = f
      BY DEF BusInv, Dispatched
    <3> QED
      BY <3>1, <3>2, <2>9, <2>11
  <2> QED
    BY <2>4, <2>6, <2>10, <2>12 DEF Dispatched
<1> QED
  BY <1>11, <1>12, <1>13 DEF BusInv

(* The innermost emit of a thread goes on, and nobody else's.              *)
LEMMA FrameStep ==
    ASSUME BusInv, UNCHANGED <<listeners, made>>,
           NEW t \in Thread, stack[t] # <<>>,
           NEW g \in Frame, NEW w \in Event,
           stack' = [stack EXCEPT ![t][Len(stack[t])] = g],
           events' = [events EXCEPT ![Top(t).event] = w],
           g.event = Top(t).event,
           w.audience = events[Top(t).event].audience,
           Followed(w), InStep(g, w)
    PROVE  BusInv'
<1>1. PICK n : n = Len(stack[t])
  OBVIOUS
<1>2. PICK e : e = Top(t).event
  OBVIOUS
<1>3. /\ stack \in [Thread -> Seq(Frame)] /\ stack[t] \in Seq(Frame)
      /\ n \in Nat \ {0} /\ n \in DOMAIN stack[t]
      /\ Top(t) = stack[t][n] /\ e \in DOMAIN events
      /\ events \in Seq(Event)
  <2>1. stack \in [Thread -> Seq(Frame)] /\ stack[t] \in Seq(Frame)
    BY DEF BusInv, Dispatched
  <2>2. n \in Nat \ {0} /\ n \in DOMAIN stack[t]
    BY <1>1, <2>1, EmptySeq
  <2>3. Top(t) = stack[t][n]
    BY <1>1 DEF Top, Last
  <2> QED
    BY <2>1, <2>2, <2>3, <1>2 DEF BusInv, Dispatched, Copied
<1>4. /\ stack' \in [Thread -> Seq(Frame)]
      /\ \A u \in Thread : DOMAIN stack'[u] = DOMAIN stack[u]
      /\ \A u \in Thread : \A d \in DOMAIN stack[u] :
            stack'[u][d] = IF u = t /\ d = n THEN g ELSE stack[u][d]
  <2>1. stack' = [stack EXCEPT ![t] = [stack[t] EXCEPT ![n] = g]]
    BY <1>1, <1>3
  <2>2. [stack[t] EXCEPT ![n] = g] \in Seq(Frame)
    BY <1>3
  <2> QED
    BY <2>1, <2>2, <1>3
<1>5. /\ events' \in Seq(Event) /\ DOMAIN events' = DOMAIN events
      /\ \A f \in DOMAIN events : events'[f] = IF f = e THEN w ELSE events[f]
  BY <1>2, <1>3
<1>6. \A f \in DOMAIN events : events'[f].audience = events[f].audience
  BY <1>2, <1>5
<1>7. Registered'
  BY DEF BusInv, Registered
<1>8. Copied'
  <2>1. \A f \in DOMAIN events : \A k : Hears(k, f)' <=> Hears(k, f)
    BY <1>6 DEF Hears
  <2> QED
    BY <2>1, <1>5, <1>6 DEF BusInv, Copied
<1>9. Dispatched'
  <2>1. \A f \in DOMAIN events' : Followed(events'[f])
    BY <1>5 DEF BusInv, Dispatched
  <2>2. \A u \in Thread : \A d \in DOMAIN stack[u] : stack'[u][d].event = stack[u][d].event
    BY <1>2, <1>3, <1>4
  <2>3. \A u, v \in Thread : \A d \in DOMAIN stack[u], f \in DOMAIN stack[v] :
           stack[u][d].event = stack[v][f].event => u = v /\ d = f
    BY DEF BusInv, Dispatched
  <2>4. \A u \in Thread : \A d \in DOMAIN stack'[u] :
           /\ stack'[u][d].event \in DOMAIN events'
           /\ InStep(stack'[u][d], events'[stack'[u][d].event])
    <3> SUFFICES ASSUME NEW u \in Thread, NEW d \in DOMAIN stack[u]
                 PROVE  /\ stack'[u][d].event \in DOMAIN events
                        /\ InStep(stack'[u][d], events'[stack'[u][d].event])
      BY <1>4, <1>5
    <3>1. stack[u][d].event \in DOMAIN events /\ InStep(stack[u][d], events[stack[u][d].event])
      BY DEF BusInv, Dispatched
    <3>2. CASE u = t /\ d = n
      <4>1. stack'[u][d] = g /\ g.event = e /\ events'[e] = w
        BY <3>2, <1>2, <1>3, <1>4, <1>5
      <4> QED
        BY <4>1, <1>3
    <3>3. CASE ~(u = t /\ d = n)
      <4>1. stack[u][d].event # e
        BY <3>3, <2>3, <1>2, <1>3
      <4> QED
        BY <4>1, <3>1, <3>3, <1>4, <1>5
    <3> QED
      BY <3>2, <3>3
  <2> QED
    BY <2>1, <2>2, <2>3, <2>4, <1>4 DEF Dispatched
<1> QED
  BY <1>7, <1>8, <1>9 DEF BusInv

(* What a thread that is inside an emit is at. *)
LEMMA AtTop ==
    ASSUME BusInv, NEW t \in Thread, Inside(t)
    PROVE  /\ Top(t) \in Frame /\ Top(t) = stack[t][Len(stack[t])]
           /\ Len(stack[t]) \in DOMAIN stack[t]
           /\ Top(t).event \in DOMAIN events
           /\ events[Top(t).event] \in Event
           /\ Followed(events[Top(t).event])
           /\ InStep(Top(t), events[Top(t).event])
<1>1. stack[t] \in Seq(Frame) /\ stack[t] # <<>>
  BY DEF BusInv, Dispatched, Inside
<1>2. Len(stack[t]) \in DOMAIN stack[t]
  BY <1>1, EmptySeq
<1>3. Top(t) = stack[t][Len(stack[t])]
  BY DEF Top, Last
<1>4. Top(t) \in Frame
  BY <1>1, <1>2, <1>3
<1>5. Top(t).event \in DOMAIN events /\ InStep(Top(t), events[Top(t).event])
  BY <1>2, <1>3 DEF BusInv, Dispatched
<1> QED
  BY <1>2, <1>3, <1>4, <1>5 DEF BusInv, Copied, Dispatched

LEMMA CallKeeps ==
    ASSUME BusInv, NEW t \in Thread, CallListener(t)
    PROVE  BusInv'
<1>1. PICK f : f = Top(t)
  OBVIOUS
<1>2. PICK v : v = events[f.event]
  OBVIOUS
<1>3. Inside(t) /\ stack[t] # <<>> /\ ~f.calling /\ f.todo # <<>>
  BY <1>1 DEF CallListener, Quiet, Inside
<1>4. /\ f \in Frame /\ v \in Event /\ Followed(v) /\ InStep(f, v)
      /\ f.event \in DOMAIN events /\ f = stack[t][Len(stack[t])]
      /\ Len(stack[t]) \in DOMAIN stack[t]
  BY <1>1, <1>2, <1>3, AtTop
<1>5. PICK g : g = [f EXCEPT !.calling = TRUE]
  OBVIOUS
<1>6. PICK w : w = [v EXCEPT !.called = Append(@, Head(f.todo))]
  OBVIOUS
<1>7. g \in Frame /\ g.event = f.event /\ g.todo = f.todo /\ g.calling
  BY <1>4, <1>5 DEF Frame
<1>8. /\ f.todo \in Seq(Nat) /\ Len(f.todo) \in Nat \ {0} /\ Head(f.todo) = f.todo[1]
      /\ Head(f.todo) \in Nat
      /\ v.called \in Seq(Nat) /\ v.audience \in Seq(Nat)
  <2>1. f.todo \in Seq(Nat) /\ v.called \in Seq(Nat) /\ v.audience \in Seq(Nat)
    BY <1>4 DEF Frame, Event
  <2> QED
    BY <2>1, <1>3, EmptySeq
<1>9. /\ w \in Event /\ w.audience = v.audience /\ w.outcome = v.outcome
      /\ w.called = Append(v.called, Head(f.todo))
  <2>1. Append(v.called, Head(f.todo)) \in Seq(Nat)
    BY <1>8
  <2> QED
    BY <2>1, <1>4, <1>6 DEF Event
<1>10. PICK p : p = Len(v.called)
  OBVIOUS
<1>11. /\ p \in Nat /\ Len(w.called) = p + 1 /\ w.called[p + 1] = Head(f.todo)
       /\ \A k \in 1..p : w.called[k] = v.called[k]
  BY <1>8, <1>9, <1>10
<1>12. Heard(f, v) = p /\ Heard(g, w) = p
  BY <1>3, <1>7, <1>10, <1>11 DEF Heard
<1>13. /\ Len(f.todo) = Len(v.audience) - p
       /\ \A k \in 1..Len(f.todo) : f.todo[k] = v.audience[p + k]
  BY <1>4, <1>12 DEF InStep
<1>14. Head(f.todo) = v.audience[p + 1]
  BY <1>8, <1>13
<1>15. Len(v.audience) \in Nat
  BY <1>8
<1>16. Followed(w)
  BY <1>4, <1>8, <1>9, <1>10, <1>11, <1>13, <1>14, <1>15 DEF Followed
<1>17. InStep(g, w)
  BY <1>7, <1>9, <1>11, <1>12, <1>13 DEF InStep
<1>18. stack' = [stack EXCEPT ![t][Len(stack[t])] = g]
  BY <1>1, <1>4, <1>5 DEF CallListener
<1>19. events' = [events EXCEPT ![Top(t).event] = w]
  BY <1>1, <1>2, <1>6 DEF CallListener
<1> QED
  BY <1>1, <1>2, <1>3, <1>7, <1>9, <1>16, <1>17, <1>18, <1>19, FrameStep DEF CallListener

(* A callback has ended, with what it raised or without. *)
LEMMA CallbackEnds ==
    ASSUME BusInv, NEW t \in Thread, Inside(t), Top(t).calling,
           stack' = NextListener(t), UNCHANGED <<listeners, made>>,
           NEW failed \in SUBSET Nat,
           events' = [events EXCEPT ![Top(t).event].failed = failed]
    PROVE  BusInv'
<1>1. PICK f : f = Top(t)
  OBVIOUS
<1>2. PICK v : v = events[f.event]
  OBVIOUS
<1>3. stack[t] # <<>> /\ f.calling
  BY <1>1 DEF Inside
<1>4. /\ f \in Frame /\ v \in Event /\ Followed(v) /\ InStep(f, v)
      /\ f.event \in DOMAIN events /\ f = stack[t][Len(stack[t])]
      /\ Len(stack[t]) \in DOMAIN stack[t]
  BY <1>1, <1>2, AtTop
<1>5. PICK g : g = [f EXCEPT !.calling = FALSE, !.todo = Tail(@)]
  OBVIOUS
<1>6. PICK w : w = [v EXCEPT !.failed = failed]
  OBVIOUS
<1>7. f.todo \in Seq(Nat) /\ v.called \in Seq(Nat) /\ v.audience \in Seq(Nat)
  BY <1>4 DEF Frame, Event
<1>8. w \in Event /\ w.audience = v.audience /\ w.outcome = v.outcome /\ w.called = v.called
  BY <1>4, <1>6 DEF Event
<1>9. PICK p : p = Len(v.called)
  OBVIOUS
<1>10. p \in Nat \ {0} /\ Heard(f, v) = p - 1
  BY <1>3, <1>4, <1>7, <1>9 DEF Heard, InStep
<1>11. /\ Len(f.todo) = Len(v.audience) - (p - 1)
       /\ \A k \in 1..Len(f.todo) : f.todo[k] = v.audience[p - 1 + k]
  BY <1>4, <1>10 DEF InStep
<1>12. p <= Len(v.audience) /\ Len(v.audience) \in Nat /\ Len(f.todo) \in Nat
  BY <1>4, <1>7, <1>9 DEF Followed
<1>13. f.todo # <<>>
  BY <1>10, <1>11, <1>12
<1>14. /\ Tail(f.todo) \in Seq(Nat) /\ Len(Tail(f.todo)) = Len(f.todo) - 1
       /\ \A k \in 1..Len(Tail(f.todo)) : Tail(f.todo)[k] = f.todo[k + 1]
  BY <1>7, <1>13, HeadTailProperties
<1>15. g \in Frame /\ g.event = f.event /\ g.todo = Tail(f.todo) /\ ~g.calling
  BY <1>4, <1>5, <1>14 DEF Frame
<1>16. Heard(g, w) = p
  BY <1>8, <1>9, <1>15 DEF Heard
<1>17. /\ Len(g.todo) = Len(w.audience) - p
       /\ \A k \in 1..Len(g.todo) : g.todo[k] = w.audience[p + k]
  <2>1. Len(g.todo) = Len(f.todo) - 1 /\ Len(g.todo) = Len(v.audience) - p
    BY <1>10, <1>11, <1>12, <1>14, <1>15
  <2>2. ASSUME NEW k \in 1..Len(g.todo) PROVE g.todo[k] = w.audience[p + k]
    <3>1. k + 1 \in 1..Len(f.todo) /\ p - 1 + (k + 1) = p + k
      BY <2>1, <1>10, <1>12
    <3>2. g.todo[k] = f.todo[k + 1]
      BY <1>14, <1>15
    <3> QED
      BY <3>1, <3>2, <1>8, <1>11
  <2> QED
    BY <2>1, <2>2, <1>8
<1>18. InStep(g, w) /\ Followed(w)
  BY <1>4, <1>8, <1>15, <1>16, <1>17 DEF InStep, Followed
<1>19. stack' = [stack EXCEPT ![t][Len(stack[t])] = g]
  <2>1. PICK n : n = Len(stack[t])
    OBVIOUS
  <2>2. NextListener(t) = [stack EXCEPT ![t] = [stack[t] EXCEPT ![n].calling = FALSE, ![n].todo = Tail(@)]]
    BY <2>1 DEF NextListener
  <2> QED
    BY <2>1, <2>2, <1>1, <1>4, <1>5
<1>20. events' = [events EXCEPT ![Top(t).event] = w]
  BY <1>1, <1>2, <1>6
<1> QED
  BY <1>1, <1>2, <1>3, <1>8, <1>15, <1>18, <1>19, <1>20, FrameStep

LEMMA ReturnKeeps ==
    ASSUME BusInv, NEW t \in Thread, CallbackReturns(t)
    PROVE  BusInv'
<1>1. /\ Inside(t) /\ Top(t).calling /\ stack' = NextListener(t)
      /\ UNCHANGED <<listeners, made, events>>
  BY DEF CallbackReturns
<1>2. PICK v : v = events[Top(t).event]
  OBVIOUS
<1>3. v \in Event /\ Top(t).event \in DOMAIN events /\ events \in Seq(Event)
  BY <1>1, <1>2, AtTop DEF BusInv, Copied
<1>4. v.failed \in SUBSET Nat /\ [v EXCEPT !.failed = v.failed] = v
  BY <1>3 DEF Event
<1>5. events' = [events EXCEPT ![Top(t).event].failed = v.failed]
  BY <1>1, <1>2, <1>3, <1>4
<1> QED
  BY <1>1, <1>4, <1>5, CallbackEnds

LEMMA RaiseKeeps ==
    ASSUME BusInv, NEW t \in Thread, CallbackRaises(t)
    PROVE  BusInv'
<1>1. /\ Inside(t) /\ Top(t).calling /\ stack' = NextListener(t)
      /\ UNCHANGED <<listeners, made>>
      /\ events' = [events EXCEPT ![Top(t).event].failed = @ \union {Head(Top(t).todo)}]
  BY DEF CallbackRaises
<1>2. PICK v : v = events[Top(t).event]
  OBVIOUS
<1>3. PICK f : f = Top(t)
  OBVIOUS
<1>4. /\ v \in Event /\ f.event \in DOMAIN events /\ events \in Seq(Event)
      /\ f \in Frame /\ f.calling /\ InStep(f, v) /\ Followed(v)
  BY <1>1, <1>2, <1>3, AtTop DEF BusInv, Copied
<1>5. /\ f.todo \in Seq(Nat) /\ v.failed \in SUBSET Nat
      /\ Len(v.called) \in Nat /\ Len(v.audience) \in Nat
  BY <1>4 DEF Frame, Event
<1>6. f.todo # <<>>
  <2>1. Heard(f, v) = Len(v.called) - 1 /\ Len(f.todo) = Len(v.audience) - Heard(f, v)
    BY <1>4 DEF InStep, Heard
  <2>2. Len(v.called) <= Len(v.audience)
    BY <1>4 DEF Followed
  <2>3. Len(f.todo) # 0
    BY <2>1, <2>2, <1>5
  <2> QED
    BY <2>3
<1>7. v.failed \union {Head(f.todo)} \in SUBSET Nat
  BY <1>5, <1>6
<1>8. events' = [events EXCEPT ![Top(t).event].failed = v.failed \union {Head(f.todo)}]
  BY <1>1, <1>2, <1>3
<1> QED
  BY <1>1, <1>7, <1>8, CallbackEnds

(* emit ends when the whole audience has been called. *)
LEMMA EndKeeps ==
    ASSUME BusInv, NEW t \in Thread, NEW outcome \in {"returned", "raised"},
           EndEmit(t, outcome)
    PROVE  BusInv'
<1>1. PICK f : f = Top(t)
  OBVIOUS
<1>2. PICK e : e = f.event
  OBVIOUS
<1>3. PICK v : v = events[e]
  OBVIOUS
<1>4. PICK n : n = Len(stack[t])
  OBVIOUS
<1>5. /\ Inside(t) /\ ~f.calling /\ f.todo = <<>>
      /\ stack' = [stack EXCEPT ![t] = Front(@)]
      /\ events' = [events EXCEPT ![e].outcome = outcome]
      /\ UNCHANGED <<listeners, made>>
  BY <1>1, <1>2 DEF EndEmit, Quiet
<1>6. /\ f \in Frame /\ v \in Event /\ Followed(v) /\ InStep(f, v)
      /\ e \in DOMAIN events /\ f = stack[t][n] /\ n \in DOMAIN stack[t]
      /\ events \in Seq(Event)
  BY <1>1, <1>2, <1>3, <1>4, <1>5, AtTop DEF BusInv, Copied
<1>7. PICK w : w = [v EXCEPT !.outcome = outcome]
  OBVIOUS
<1>8. w \in Event /\ w.audience = v.audience /\ w.called = v.called
  BY <1>6, <1>7 DEF Event
<1>9. v.called \in Seq(Nat) /\ v.audience \in Seq(Nat)
  BY <1>6 DEF Event
<1>10. Followed(w)
  <2>1. Len(v.called) = Len(v.audience)
    BY <1>5, <1>6, <1>9 DEF InStep, Heard
  <2> QED
    BY <2>1, <1>6, <1>8 DEF Followed
<1>11. events' = [events EXCEPT ![e] = w]
  BY <1>3, <1>5, <1>7
<1>12. /\ events' \in Seq(Event) /\ DOMAIN events' = DOMAIN events
       /\ \A i \in DOMAIN events : events'[i] = IF i = e THEN w ELSE events[i]
  BY <1>6, <1>8, <1>11
<1>13. \A i \in DOMAIN events : events'[i].audience = events[i].audience
  BY <1>3, <1>8, <1>12
<1>14. Registered'
  BY <1>5 DEF BusInv, Registered
<1>15. Copied'
  <2>1. \A i \in DOMAIN events : \A k : Hears(k, i)' <=> Hears(k, i)
    BY <1>13 DEF Hears
  <2> QED
    BY <2>1, <1>5, <1>12, <1>13 DEF BusInv, Copied
<1>16. stack \in [Thread -> Seq(Frame)]
  BY DEF BusInv, Dispatched
<1>17. /\ stack' \in [Thread -> Seq(Frame)]
       /\ \A u \in Thread : \A d \in DOMAIN stack'[u] :
             /\ d \in DOMAIN stack[u] /\ stack'[u][d] = stack[u][d]
             /\ ~(u = t /\ d = n)
  <2>1. stack[t] \in Seq(Frame) /\ n \in Nat \ {0} /\ DOMAIN stack[t] = 1..n
    BY <1>4, <1>6, <1>16
  <2>2. Front(stack[t]) = SubSeq(stack[t], 1, n - 1)
    BY <1>4 DEF Front
  <2>3. /\ Front(stack[t]) \in Seq(Frame) /\ DOMAIN Front(stack[t]) = 1..(n - 1)
        /\ \A d \in 1..(n - 1) : Front(stack[t])[d] = stack[t][d]
    BY <2>1, <2>2
  <2>4. stack'[t] = Front(stack[t]) /\ \A u \in Thread \ {t} : stack'[u] = stack[u]
    BY <1>5, <1>16
  <2>5. \A d \in 1..(n - 1) : d \in 1..n /\ d # n
    BY <2>1
  <2>6. stack' \in [Thread -> Seq(Frame)]
    BY <1>5, <1>16, <2>3
  <2> QED
    BY <2>1, <2>3, <2>4, <2>5, <2>6
<1>18. Dispatched'
  <2>1. \A i \in DOMAIN events' : Followed(events'[i])
    BY <1>10, <1>12 DEF BusInv, Dispatched
  <2>2. \A u, x \in Thread : \A d \in DOMAIN stack[u], j \in DOMAIN stack[x] :
           stack[u][d].event = stack[x][j].event => u = x /\ d = j
    BY DEF BusInv, Dispatched
  <2>3. \A u \in Thread : \A d \in DOMAIN stack'[u] :
           /\ stack'[u][d].event \in DOMAIN events'
           /\ InStep(stack'[u][d], events'[stack'[u][d].event])
    <3> SUFFICES ASSUME NEW u \in Thread, NEW d \in DOMAIN stack'[u]
                 PROVE  /\ stack'[u][d].event \in DOMAIN events'
                        /\ InStep(stack'[u][d], events'[stack'[u][d].event])
      OBVIOUS
    <3>1. d \in DOMAIN stack[u] /\ stack'[u][d] = stack[u][d] /\ ~(u = t /\ d = n)
      BY <1>17
    <3>2. stack[u][d].event \in DOMAIN events /\ InStep(stack[u][d], events[stack[u][d].event])
      BY <3>1 DEF BusInv, Dispatched
    <3>3. stack[u][d].event # e
      BY <3>1, <2>2, <1>2, <1>6
    <3> QED
      BY <3>1, <3>2, <3>3, <1>12
  <2>4. \A u, x \in Thread : \A d \in DOMAIN stack'[u], j \in DOMAIN stack'[x] :
           stack'[u][d].event = stack'[x][j].event => u = x /\ d = j
    BY <2>2, <1>17
  <2> QED
    BY <2>1, <2>3, <2>4, <1>17 DEF Dispatched
<1> QED
  BY <1>14, <1>15, <1>18 DEF BusInv

(* What anybody does with the bus, the logger included. *)
LEMMA BusStepKeeps ==
    ASSUME BusInv, [LogNext]_allVars
    PROVE  BusInv'
<1>1. CASE Bus
  <2>1. CASE \E n \in AnyName, once \in BOOLEAN : Subscribe(n, once)
    BY <2>1, SubscribeKeeps
  <2>2. CASE \E i \in Id : Unsubscribe(i)
    <3>1. listeners' \subseteq listeners /\ UNCHANGED <<made, events, stack>>
      BY <2>2 DEF Unsubscribe
    <3> QED
      BY <3>1, ListenersLeave
  <2>3. ASSUME NEW names, ClearListeners(names) PROVE BusInv'
    <3>1. listeners' \subseteq listeners /\ UNCHANGED <<made, events, stack>>
      BY <2>3 DEF ClearListeners
    <3> QED
      BY <3>1, ListenersLeave
  <2>4. ASSUME NEW t \in Thread,
               \/ Record(t) \/ RecordRaises(t) \/ CallListener(t)
               \/ CallbackReturns(t) \/ CallbackRaises(t)
        PROVE  BusInv'
    BY <2>4, CallKeeps, ReturnKeeps, RaiseKeeps DEF Record, RecordRaises
  <2>5. ASSUME NEW t \in Thread, \E outcome \in {"returned", "raised"} : EndEmit(t, outcome)
        PROVE  BusInv'
    BY <2>5, EndKeeps
  <2>6. ASSUME NEW t \in Thread, \E n \in AnyName : Emit(t, n)
        PROVE  BusInv'
    BY <2>6, EmitKeeps
  <2> QED
    BY <1>1, <2>1, <2>2, <2>3, <2>4, <2>5, <2>6 DEF Bus
<1>2. CASE Attach
  <2>1. Subscribe(WILDCARD, FALSE)
    BY <1>2 DEF Attach
  <2>2. WILDCARD \in AnyName
    BY DEF AnyName
  <2> QED
    BY <2>1, <2>2, SubscribeKeeps
<1>3. ASSUME NEW i, Withdraw(i) PROVE BusInv'
  <2>1. listeners' \subseteq listeners /\ UNCHANGED <<made, events, stack>>
    BY <1>3 DEF Withdraw
  <2> QED
    BY <2>1, ListenersLeave
<1>4. CASE ShutdownDetached \/ \E i \in leaving : EndDetach(i)
  BY <1>3, <1>4 DEF ShutdownDetached, EndDetach
<1>5. CASE Detach \/ BeginShutdown \/ EndShutdown \/ UNCHANGED allVars
  <2>1. UNCHANGED <<listeners, made, events, stack>>
    BY <1>5 DEF Detach, BeginShutdown, EndShutdown, allVars, busVars
  <2> QED
    BY <2>1, ListenersLeave
<1> QED
  BY <1>1, <1>2, <1>4, <1>5 DEF LogNext

LEMMA BusInvariance == LogSpec => []BusInv
<1>1. LogInit => BusInv
  BY BusInitEstablishes DEF LogInit
<1> QED
  BY <1>1, BusStepKeeps, PTL DEF LogSpec

LEMMA CalledInOrder ==
    ASSUME BusInv, NEW e \in DOMAIN events
    PROVE  LET v == events[e]
           IN  /\ v.called \in Seq(Nat) /\ v.audience \in Seq(Nat)
               /\ Len(v.called) <= Len(v.audience)
               /\ \A k \in 1..Len(v.called) : v.called[k] = v.audience[k]
               /\ v.outcome # "open" => Len(v.called) = Len(v.audience)
<1>1. PICK v : v = events[e]
  OBVIOUS
<1>2. v \in Event /\ Followed(v)
  BY <1>1 DEF BusInv, Copied, Dispatched
<1> QED
  BY <1>1, <1>2 DEF Event, Followed

LEMMA HeardOnce ==
    ASSUME BusInv
    PROVE  OnceAtMostOnce
<1> SUFFICES ASSUME NEW l \in DOMAIN made, made[l].once
             PROVE  /\ Cardinality({e \in DOMAIN events : l \in Range(events[e].called)}) <= 1
                    /\ \A e \in DOMAIN events : \A j, k \in DOMAIN events[e].called :
                          events[e].called[j] = l /\ events[e].called[k] = l => j = k
  BY DEF OnceAtMostOnce
<1>1. \A e \in DOMAIN events : IsInjective(events[e].audience)
  BY DEF BusInv, Copied
<1>2. \A e \in DOMAIN events : \A k \in DOMAIN events[e].called :
         k \in DOMAIN events[e].audience /\ events[e].called[k] = events[e].audience[k]
  <2> SUFFICES ASSUME NEW e \in DOMAIN events, NEW k \in DOMAIN events[e].called
               PROVE  /\ k \in DOMAIN events[e].audience
                      /\ events[e].called[k] = events[e].audience[k]
    OBVIOUS
  <2>1. PICK c, a : c = events[e].called /\ a = events[e].audience
    OBVIOUS
  <2>2. c \in Seq(Nat) /\ a \in Seq(Nat) /\ Len(c) <= Len(a) /\ \A i \in 1..Len(c) : c[i] = a[i]
    BY <2>1, CalledInOrder
  <2>3. k \in 1..Len(c) /\ Len(c) \in Nat /\ Len(a) \in Nat
    BY <2>1, <2>2
  <2>4. k \in 1..Len(a)
    BY <2>2, <2>3
  <2> QED
    BY <2>1, <2>2, <2>3, <2>4
<1>3. \A e \in DOMAIN events : \A j, k \in DOMAIN events[e].called :
         events[e].called[j] = l /\ events[e].called[k] = l => j = k
  BY <1>1, <1>2 DEF IsInjective
<1>4. PICK S : S = {e \in DOMAIN events : l \in Range(events[e].called)}
  OBVIOUS
<1>5. \A e \in S : Hears(l, e)
  BY <1>2, <1>4 DEF Hears, Range
<1>6. \A e, f \in S : e = f
  BY <1>4, <1>5 DEF BusInv, Copied
<1>7. Cardinality(S) <= 1
  <2>1. CASE S = {}
    BY <2>1, FS_EmptySet
  <2>2. CASE S # {}
    <3>1. PICK e : S = {e}
      BY <2>2, <1>6
    <3> QED
      BY <3>1, FS_Singleton
  <2> QED
    BY <2>1, <2>2
<1> QED
  BY <1>3, <1>4, <1>7

LEMMA AllHear ==
    ASSUME BusInv
    PROVE  EveryoneHears
<1> SUFFICES ASSUME NEW e \in DOMAIN events
             PROVE  /\ events[e].called = SubSeq(events[e].audience, 1, Len(events[e].called))
                    /\ events[e].outcome # "open" => events[e].called = events[e].audience
  BY DEF EveryoneHears
<1>1. PICK c, a : c = events[e].called /\ a = events[e].audience
  OBVIOUS
<1>2. /\ c \in Seq(Nat) /\ a \in Seq(Nat) /\ Len(c) <= Len(a)
      /\ \A k \in 1..Len(c) : c[k] = a[k]
      /\ events[e].outcome # "open" => Len(c) = Len(a)
  BY <1>1, CalledInOrder
<1>3. c = SubSeq(a, 1, Len(c))
  BY <1>2
<1>4. Len(c) = Len(a) => c = a
  BY <1>2
<1> QED
  BY <1>1, <1>2, <1>3, <1>4

(* However many threads emit, and whatever their callbacks emit in turn, a *)
(* listener subscribed with once is called once at most (eventbus.py:145). *)
THEOREM AlwaysOnceAtMostOnce == LogSpec => []OnceAtMostOnce
BY BusInvariance, HeardOnce, PTL

(* Whoever was subscribed when an event was emitted is called for it, in   *)
(* order, whichever listeners raise or leave meanwhile (eventbus.py:65).   *)
THEOREM EveryoneAlwaysHears == LogSpec => []EveryoneHears
BY BusInvariance, AllHear, PTL

-----------------------------------------------------------------------------
(* The subscriptions the logger made are on record, and shutdown withdraws *)
(* one only while it is at it.                                             *)
EarInv ==
    /\ NoForgottenEar
    /\ own \subseteq DOMAIN made
    /\ closer # "detaching" => closing = 0

LEMMA EarStepKeeps ==
    ASSUME BusInv, EarInv, [LogNext]_allVars
    PROVE  EarInv'
<1>0. /\ made \in Seq(Listener) /\ Len(made) \in Nat /\ DOMAIN made = 1..Len(made)
      /\ \A l \in listeners : l.id \in 1..Len(made)
  BY DEF BusInv, Registered
<1>1. CASE Bus
  <2>1. UNCHANGED logVars
    BY <1>1 DEF Bus
  <2>2. ASSUME NEW n \in AnyName, NEW once \in BOOLEAN, Subscribe(n, once)
        PROVE  EarInv'
    <3>1. /\ listeners' = listeners \union {NewListener(n, once)}
          /\ made' = Append(made, NewListener(n, once))
          /\ NewListener(n, once).id = Len(made) + 1
      BY <2>2 DEF Subscribe, NewListener
    <3>2. Len(made) + 1 \notin own /\ DOMAIN made \subseteq DOMAIN made'
      BY <3>1, <1>0 DEF EarInv
    <3> QED
      BY <2>1, <3>1, <3>2 DEF EarInv, NoForgottenEar, logVars
  <2>3. CASE UNCHANGED made /\ listeners' \subseteq listeners
    BY <2>1, <2>3 DEF EarInv, NoForgottenEar, logVars
  <2>4. CASE \/ \E i \in Id : Unsubscribe(i)
             \/ \E n \in AnyName : ClearListeners({n})
             \/ ClearListeners(AnyName)
    BY <2>3, <2>4 DEF Unsubscribe, ClearListeners
  <2>5. ASSUME NEW t \in Thread,
               \/ Record(t) \/ RecordRaises(t) \/ CallListener(t)
               \/ CallbackReturns(t) \/ CallbackRaises(t)
               \/ \E outcome \in {"returned", "raised"} : EndEmit(t, outcome)
               \/ \E n \in AnyName : Emit(t, n)
        PROVE  EarInv'
    <3>1. UNCHANGED made /\ listeners' \subseteq listeners
      BY <2>5 DEF Record, RecordRaises, CallListener, CallbackReturns, CallbackRaises,
                  EndEmit, Emit, Kept
    <3> QED
      BY <2>3, <3>1
  <2> QED
    BY <1>1, <2>2, <2>4, <2>5 DEF Bus
<1>2. CASE Attach
  <2>1. /\ listeners' = listeners \union {NewListener(WILDCARD, FALSE)}
        /\ made' = Append(made, NewListener(WILDCARD, FALSE))
        /\ NewListener(WILDCARD, FALSE).id = Len(made) + 1
        /\ remembered = 0 /\ remembered' = Len(made) + 1
        /\ own' = own \union {Len(made) + 1}
        /\ UNCHANGED <<leaving, closer, closing>>
    BY <1>2 DEF Attach, Attachable, Subscribe, NewListener
  <2>2. own' \subseteq DOMAIN made'
    BY <2>1, <1>0 DEF EarInv
  <2>3. \A l \in listeners : l.id # Len(made) + 1 /\ l.id # 0
    BY <1>0
  <2> QED
    BY <2>1, <2>2, <2>3 DEF EarInv, NoForgottenEar
<1>3. CASE Detach
  BY <1>3 DEF Detach, EarInv, NoForgottenEar, busVars
<1>4. CASE BeginShutdown
  <2>1. \A l \in listeners : l.id # 0
    BY <1>0
  <2> QED
    BY <1>4, <2>1 DEF BeginShutdown, EarInv, NoForgottenEar, busVars
<1>5. CASE ShutdownDetached
  BY <1>5 DEF ShutdownDetached, Withdraw, EarInv, NoForgottenEar
<1>6. CASE EndShutdown
  BY <1>6 DEF EndShutdown, EarInv, NoForgottenEar, busVars
<1>7. ASSUME NEW i \in leaving, EndDetach(i) PROVE EarInv'
  BY <1>7 DEF EndDetach, Withdraw, EarInv, NoForgottenEar
<1>8. CASE UNCHANGED allVars
  BY <1>8 DEF allVars, busVars, logVars, EarInv, NoForgottenEar
<1> QED
  BY <1>1, <1>2, <1>3, <1>4, <1>5, <1>6, <1>7, <1>8 DEF LogNext

(* No subscription of the logger is on the bus that it has forgotten and   *)
(* that no detach or shutdown under way withdraws (logging.py:293).        *)
THEOREM NeverForgottenEar == LogSpec => []NoForgottenEar
<1>1. LogInit => EarInv
  BY DEF LogInit, BusInit, EarInv, NoForgottenEar
<1>2. EarInv => NoForgottenEar
  BY DEF EarInv
<1>3. BusInv /\ EarInv /\ [LogNext]_allVars => EarInv'
  BY EarStepKeeps
<1> QED
  BY <1>1, <1>2, <1>3, BusInvariance, PTL DEF LogSpec

-----------------------------------------------------------------------------
(* A worker is somewhere in its loop from its start to its end, and one    *)
(* that is waited for has been told to stop.                               *)
WorkerPlace == {"new", "loop", "take", "run", "calling", "wait", "dead"}

WInv ==
    /\ \A w \in Worker : pc[w] \in WorkerPlace
    /\ stopEvent \in BOOLEAN
    /\ \A c \in Controller : pc[c] = "join" => stopEvent

LEMMA WorkerStep ==
    ASSUME \A c, d \in Controller : c = d, IInv, WInv, [Next]_vars
    PROVE  WInv'
<1>1. ASSUME NEW a \in Actor, NEW l \in WorkerPlace \union {"idle"},
             a \in Worker => l # "idle",
             pc' = [pc EXCEPT ![a] = l], UNCHANGED stopEvent
      PROVE  WInv'
  <2>1. \A b \in Actor \union Controller : pc'[b] = IF b = a THEN l ELSE pc[b]
    BY <1>1 DEF IInv
  <2>2. \A c \in Controller : pc'[c] = "join" => pc[c] = "join"
    BY <1>1, <2>1 DEF WorkerPlace
  <2> QED
    BY <1>1, <2>1, <2>2 DEF WInv, Actor
<1>2. ASSUME NEW c \in Controller, NEW l \in {"idle", "signal", "join"},
             pc' = [pc EXCEPT ![c] = l], stopEvent' \in BOOLEAN,
             l = "join" => stopEvent', l # "join" => stopEvent' = stopEvent
      PROVE  WInv'
  <2>1. \A b \in Actor \union Controller : pc'[b] = IF b = c THEN l ELSE pc[b]
    BY <1>2 DEF IInv
  <2>2. c \notin Worker
    BY SchedulerAssumption DEF Worker
  <2> QED
    BY <1>2, <2>1, <2>2 DEF WInv, Actor
<1>3. CASE UNCHANGED <<pc, stopEvent>>
  BY <1>3 DEF WInv
<1>4. CASE Tick \/ ScheduleOnce \/ ScheduleEvery \/ Clear \/ UNCHANGED vars
  BY <1>3, <1>4 DEF Tick, ScheduleOnce, ScheduleEvery, Add, Clear, vars
<1>5. ASSUME NEW i \in Task, Cancel(i) PROVE WInv'
  BY <1>3, <1>5 DEF Cancel
<1>6. ASSUME NEW a \in Actor, Running(a) PROVE WInv'
  <2>1. PICK l \in {"run", "calling", "wait", "idle"} :
          /\ pc' = [pc EXCEPT ![a] = l]
          /\ a \in Worker => l # "idle"
          /\ UNCHANGED stopEvent
    BY <1>6 DEF Running, TakeDue, StartTask, TaskEnds, EndRun
  <2> QED
    BY <1>1, <2>1 DEF WorkerPlace
<1>7. ASSUME NEW a \in Actor, ReadClock(a) PROVE WInv'
  BY <1>1, <1>7 DEF ReadClock, WorkerPlace
<1>8. ASSUME NEW w \in Worker, EndWait(w) \/ WorkerExits(w) PROVE WInv'
  BY <1>1, <1>8 DEF EndWait, WorkerExits, WorkerPlace, Actor
<1>9. ASSUME NEW c \in Controller, Start(c) PROVE WInv'
  <2>1. /\ pc' = [pc EXCEPT ![created + 1] = "loop"] /\ pc[c] = "idle" /\ stopEvent' = FALSE
    BY <1>9 DEF Start, Idle
  <2>2. created + 1 \in Worker
    BY <1>9, SchedulerAssumption DEF Start, IInv, Worker
  <2>3. \A b \in Actor \union Controller : pc'[b] = IF b = created + 1 THEN "loop" ELSE pc[b]
    BY <2>1, <2>2 DEF IInv, Actor
  <2>4. \A d \in Controller : pc'[d] # "join"
    BY <2>1, <2>3
  <2> QED
    BY <2>1, <2>3, <2>4 DEF WInv, WorkerPlace, Actor
<1>10. ASSUME NEW c \in Controller,
              BeginStop(c) \/ SignalStop(c) \/ JoinTimesOut(c) \/ EndStop(c)
       PROVE  WInv'
  BY <1>2, <1>10 DEF BeginStop, SignalStop, JoinTimesOut, EndStop, WInv
<1> QED
  BY <1>4, <1>5, <1>6, <1>7, <1>8, <1>9, <1>10 DEF Next, Working, Actor

-----------------------------------------------------------------------------
(* How many steps a worker has before it looks at the stop event again and *)
(* ends if it is set.                                                      *)
WorkLeft(w) ==
    CASE pc[w] = "loop" -> 1
      [] pc[w] = "wait" -> 2
      [] pc[w] = "run" -> 3 + 2 * Len(batch[w])
      [] pc[w] = "calling" -> 2 + 2 * Len(batch[w])
      [] pc[w] = "take" -> 4 + 2 * MaxTasks
      [] OTHER -> 0

LEMMA WorkLeftIs ==
    ASSUME SInv, NEW a \in Actor
    PROVE  WorkLeft(a) \in Nat /\ Len(batch[a]) \in Nat
<1>1. batch[a] \in Seq(1..sequence)
  BY DEF SInv, BInv
<1>2. Len(batch[a]) \in Nat /\ MaxTasks \in Nat
  BY <1>1, SchedulerAssumption
<1>3. CASE pc[a] \in {"loop", "wait", "run", "calling", "take"}
  BY <1>2, <1>3 DEF WorkLeft
<1>4. CASE pc[a] \notin {"loop", "wait", "run", "calling", "take"}
  BY <1>2, <1>4 DEF WorkLeft
<1> QED
  BY <1>2, <1>3, <1>4

(* No more tasks are due than there can be.                                *)
LEMMA DueBounded ==
    ASSUME TInv, NEW t \in Nat
    PROVE  Len(DueInOrder(t)) \in 0..MaxTasks
<1>1. PICK S : S = {i \in DOMAIN tasks : Due(i, t)}
  OBVIOUS
<1>2. S \subseteq 1..MaxTasks
  BY <1>1, SchedulerAssumption DEF TInv
<1>3. IsFiniteSet(1..MaxTasks) /\ Cardinality(1..MaxTasks) = MaxTasks
  BY FS_Interval, SchedulerAssumption
<1>4. Cardinality(S) \in Nat /\ Cardinality(S) <= MaxTasks
  BY <1>2, <1>3, FS_Subset, FS_CardinalityType
<1>5. DOMAIN DueInOrder(t) = 1..Cardinality(S)
  BY <1>1 DEF DueInOrder
<1>6. DueInOrder(t) \in Seq(1..sequence)
  BY DueListed
<1>7. Len(DueInOrder(t)) = Cardinality(S)
  <2>1. PICK n : n = Cardinality(S)
    OBVIOUS
  <2>2. PICK q : q = DueInOrder(t)
    OBVIOUS
  <2>3. n \in Nat /\ DOMAIN q = 1..n /\ DOMAIN q = 1..Len(q) /\ Len(q) \in Nat
    BY <1>4, <1>5, <1>6, <2>1, <2>2
  <2>4. Len(q) = n
    BY <2>3
  <2> QED
    BY <2>1, <2>2, <2>4
<1> QED
  BY <1>4, <1>7, SchedulerAssumption

(* Each step of a worker that does not begin a round is one less.          *)
LEMMA RunningSpends ==
    ASSUME SInv, NEW a \in Worker, Running(a) \/ EndWait(a) \/ WorkerExits(a)
    PROVE  WorkLeft(a)' < WorkLeft(a)
<1>0. /\ a \in Actor /\ pc \in [Actor \union Controller -> Place]
      /\ batch \in [Actor -> Seq(1..sequence)]
  BY DEF SInv, TInv, BInv, Actor
<1>1. batch[a] \in Seq(1..sequence) /\ Len(batch[a]) \in Nat /\ MaxTasks \in Nat
  BY <1>0, SchedulerAssumption
<1>2. CASE TakeDue(a)
  <2>1. /\ pc[a] = "take" /\ pc'[a] = "run" /\ batch'[a] = DueInOrder(now[a])
    BY <1>0, <1>2 DEF TakeDue
  <2>2. now[a] \in Nat
    BY <1>0 DEF SInv, TInv
  <2>3. Len(batch'[a]) \in 0..MaxTasks
    BY <2>1, <2>2, DueBounded DEF SInv
  <2> QED
    BY <1>1, <2>1, <2>3 DEF WorkLeft
<1>3. CASE StartTask(a)
  <2>1. pc[a] = "run" /\ pc'[a] = "calling" /\ batch' = batch
    BY <1>0, <1>3 DEF StartTask, runVars
  <2> QED
    BY <1>1, <2>1 DEF WorkLeft
<1>4. CASE TaskEnds(a)
  <2>1. pc[a] = "calling" /\ pc'[a] = "run" /\ batch'[a] = Tail(batch[a])
    BY <1>0, <1>4 DEF TaskEnds
  <2>2. batch[a] # <<>>
    BY <1>0, <2>1 DEF SInv, BInv
  <2>3. Len(batch'[a]) = Len(batch[a]) - 1
    BY <1>1, <2>1, <2>2
  <2> QED
    BY <1>1, <2>1, <2>3 DEF WorkLeft
<1>5. CASE EndRun(a)
  <2>1. pc[a] = "run" /\ pc'[a] = "wait"
    BY <1>0, <1>5 DEF EndRun
  <2> QED
    BY <1>1, <2>1 DEF WorkLeft
<1>6. CASE EndWait(a)
  <2>1. pc[a] = "wait" /\ pc'[a] = "loop"
    BY <1>0, <1>6 DEF EndWait
  <2> QED
    BY <2>1 DEF WorkLeft
<1>7. CASE WorkerExits(a)
  <2>1. pc[a] = "loop" /\ pc'[a] = "dead"
    BY <1>0, <1>7 DEF WorkerExits
  <2> QED
    BY <2>1 DEF WorkLeft
<1> QED
  BY <1>2, <1>3, <1>4, <1>5, <1>6, <1>7 DEF Running

(* What a worker is at is its own business.                                *)
LEMMA OthersLeaveWorker ==
    ASSUME IInv, SInv, NEW w \in Worker, w \in Alive, [Next]_vars, ~Working(w)
    PROVE  pc'[w] = pc[w] /\ batch'[w] = batch[w] /\ now'[w] = now[w]
<1>0. /\ w \in Actor /\ pc \in [Actor \union Controller -> Place]
      /\ batch \in [Actor -> Seq(1..sequence)] /\ now \in [Actor -> Nat]
  BY DEF SInv, TInv, BInv, Actor
<1>1. CASE Tick \/ ScheduleOnce \/ ScheduleEvery \/ Clear \/ UNCHANGED vars
  BY <1>1 DEF Tick, ScheduleOnce, ScheduleEvery, Add, Clear, vars, runVars
<1>2. ASSUME NEW i \in Task, Cancel(i)
      PROVE  pc'[w] = pc[w] /\ batch'[w] = batch[w] /\ now'[w] = now[w]
  BY <1>2 DEF Cancel, runVars
<1>3. ASSUME NEW a \in Actor, a # w, Running(a) \/ ReadClock(a) \/ EndWait(a) \/ WorkerExits(a)
      PROVE  pc'[w] = pc[w] /\ batch'[w] = batch[w] /\ now'[w] = now[w]
  BY <1>0, <1>3 DEF Running, TakeDue, StartTask, TaskEnds, EndRun, ReadClock, EndWait,
                    WorkerExits, runVars
<1>4. ASSUME NEW c \in Controller,
             Start(c) \/ BeginStop(c) \/ SignalStop(c) \/ JoinTimesOut(c) \/ EndStop(c)
      PROVE  pc'[w] = pc[w] /\ batch'[w] = batch[w] /\ now'[w] = now[w]
  <2>1. UNCHANGED <<batch, now>>
    BY <1>4 DEF Start, BeginStop, SignalStop, JoinTimesOut, EndStop, runVars
  <2>2. c # w
    BY SchedulerAssumption DEF Worker
  <2>3. CASE Start(c)
    <3>1. Alive = {} \/ thread = w
      BY DEF IInv, WorkerKnown
    <3> QED
      BY <2>3, <3>1 DEF Start, Startable
  <2>4. CASE BeginStop(c) \/ SignalStop(c) \/ JoinTimesOut(c) \/ EndStop(c)
    BY <1>0, <2>1, <2>2, <2>4 DEF BeginStop, SignalStop, JoinTimesOut, EndStop
  <2> QED
    BY <1>4, <2>1, <2>3, <2>4
<1>5. ASSUME NEW a \in Caller, ReadClock(a) \/ Running(a)
      PROVE  a \in Actor /\ a # w
  BY <1>5, SchedulerAssumption DEF Actor, Worker
<1>6. ASSUME NEW v \in Worker, Working(v)
      PROVE  v \in Actor /\ v # w /\ (Running(v) \/ ReadClock(v) \/ EndWait(v) \/ WorkerExits(v))
  BY <1>6 DEF Actor, Working
<1> QED
  BY <1>1, <1>2, <1>3, <1>4, <1>5, <1>6 DEF Next

(* A worker that has been told to stop has fewer steps left with each one  *)
(* it takes; nothing takes the word back before it has ended, because no   *)
(* other worker is started meanwhile.                                      *)
StopAdvances(w) ==
    w \in Alive /\ stopEvent =>
        /\ stopEvent'
        /\ Working(w) => WorkLeft(w)' < WorkLeft(w)
        /\ ~Working(w) => WorkLeft(w)' = WorkLeft(w)

LEMMA StoppedSpends ==
    ASSUME IInv, SInv, NEW w \in Worker, w \in Alive, stopEvent, [Next]_vars
    PROVE  /\ stopEvent'
           /\ Working(w) => WorkLeft(w)' < WorkLeft(w)
           /\ ~Working(w) => WorkLeft(w)' = WorkLeft(w)
<1>1. stopEvent'
  <2>1. thread = w
    BY DEF IInv, WorkerKnown
  <2>2. CASE \E c \in Controller : Start(c)
    BY <2>1, <2>2 DEF Start, Startable
  <2>3. CASE \E c \in Controller : BeginStop(c) \/ SignalStop(c) \/ JoinTimesOut(c) \/ EndStop(c)
    BY <2>3 DEF BeginStop, SignalStop, JoinTimesOut, EndStop
  <2>4. CASE \E a \in Actor : Running(a) \/ ReadClock(a) \/ EndWait(a) \/ WorkerExits(a)
    BY <2>4 DEF Running, TakeDue, StartTask, TaskEnds, EndRun, ReadClock, EndWait, WorkerExits
  <2>5. CASE \/ Tick \/ ScheduleOnce \/ ScheduleEvery \/ Clear \/ UNCHANGED vars
             \/ \E i \in Task : Cancel(i)
    BY <2>5 DEF Tick, ScheduleOnce, ScheduleEvery, Add, Clear, Cancel, vars
  <2> QED
    BY <2>2, <2>3, <2>4, <2>5 DEF Next, Working, Actor
<1>2. ASSUME Working(w) PROVE WorkLeft(w)' < WorkLeft(w)
  <2>1. ~ReadClock(w)
    BY SchedulerAssumption DEF ReadClock, Worker
  <2> QED
    BY <1>2, <2>1, RunningSpends DEF Working
<1>3. ASSUME ~Working(w) PROVE WorkLeft(w)' = WorkLeft(w)
  BY <1>3, OthersLeaveWorker DEF WorkLeft
<1> QED
  BY <1>1, <1>2, <1>3

(* Whoever joins a worker has told it to stop, and from then on each of    *)
(* its steps brings its end nearer and no other step puts it off: what is  *)
(* left of StopEnds is that the worker is scheduled (scheduler.py:296).    *)
THEOREM StopsAdvance ==
    ASSUME \A c, d \in Controller : c = d
    PROVE  Spec => /\ [](\A c \in Controller : pc[c] = "join" => stopEvent)
                   /\ [][\A w \in Worker : StopAdvances(w)]_vars
<1>1. Init => IInv /\ SInv
  BY InitEstablishes, SInvInit
<1>2. Init => WInv
  BY SchedulerAssumption DEF Init, WInv, WorkerPlace, Worker, Actor
<1>3. IInv /\ SInv /\ WInv /\ [Next]_vars => (IInv /\ SInv /\ WInv)'
  BY StepKeeps, SInvStep, WorkerStep
<1>4. WInv => \A c \in Controller : pc[c] = "join" => stopEvent
  BY DEF WInv
<1>5. IInv /\ SInv /\ [Next]_vars => [\A w \in Worker : StopAdvances(w)]_vars
  BY StoppedSpends DEF StopAdvances
<1> QED
  BY <1>1, <1>2, <1>3, <1>4, <1>5, PTL DEF Spec

-----------------------------------------------------------------------------
(* How many steps a worker has before it takes the tasks due at d, when    *)
(* the clock is past d: none more if the time it read is past d too, and   *)
(* otherwise those of the round it is in and the reading of the clock.     *)
TakeLeft(w, d) == IF pc[w] = "take" /\ now[w] >= d THEN 0 ELSE WorkLeft(w)

(* A task that is due is gone or due later after the worker takes what is  *)
(* due.                                                                    *)
LEMMA TakenIsMoved ==
    ASSUME SInv, NEW w \in Worker, NEW i \in DOMAIN tasks, NEW d \in Nat,
           tasks[i].due = d, now[w] >= d, TakeDue(w)
    PROVE  i \notin DOMAIN tasks' \/ tasks'[i].due # d
<1>1. now[w] \in Nat /\ tasks[i] \in [due : Nat, every : Nat]
  BY DEF SInv, TInv, Actor
<1>2. tasks' = Remaining(now[w]) /\ Due(i, now[w])
  BY <1>1 DEF TakeDue, Due
<1>3. CASE tasks[i].every = Once
  BY <1>2, <1>3 DEF Remaining
<1>4. CASE tasks[i].every # Once
  <2>1. i \in DOMAIN tasks' /\ tasks'[i] = [tasks[i] EXCEPT !.due = now[w] + tasks[i].every]
    BY <1>2, <1>4 DEF Remaining
  <2>2. tasks'[i].due = now[w] + tasks[i].every
    BY <1>1, <2>1
  <2> QED
    BY <1>1, <1>4, <2>2 DEF Once
<1> QED
  BY <1>3, <1>4

(* The steps of a worker that nobody stops: each brings it nearer to the   *)
(* next taking of what is due, and none ends it.                           *)
LEMMA RoundAdvances ==
    ASSUME IInv, SInv, NEW w \in Worker, NEW i \in DOMAIN tasks, NEW d \in Nat,
           tasks[i].due = d, d <= clock, ~stopEvent, Working(w),
           i \in DOMAIN tasks', tasks'[i].due = d
    PROVE  TakeLeft(w, d)' < TakeLeft(w, d) /\ pc'[w] \notin {"new", "dead"}
<1>0. /\ w \in Actor /\ pc \in [Actor \union Controller -> Place]
      /\ now \in [Actor -> Nat] /\ clock \in Nat
  BY DEF SInv, TInv, Actor
<1>1. CASE ReadClock(w)
  <2>1. pc[w] = "loop" /\ pc'[w] = "take" /\ now'[w] = clock
    BY <1>0, <1>1, SchedulerAssumption DEF ReadClock, Worker
  <2> QED
    BY <1>0, <2>1 DEF TakeLeft, WorkLeft
<1>2. CASE TakeDue(w)
  <2>1. pc[w] = "take" /\ pc'[w] = "run"
    BY <1>0, <1>2 DEF TakeDue
  <2>2. ~(now[w] >= d)
    BY <1>2, TakenIsMoved
  <2>3. WorkLeft(w)' < WorkLeft(w)
    BY <1>2, RunningSpends DEF Running
  <2> QED
    BY <2>1, <2>2, <2>3 DEF TakeLeft
<1>3. CASE StartTask(w) \/ TaskEnds(w) \/ EndRun(w) \/ EndWait(w)
  <2>1. WorkLeft(w)' < WorkLeft(w)
    BY <1>3, RunningSpends DEF Running
  <2>2. pc[w] # "take" /\ pc'[w] \in {"calling", "run", "wait", "loop"}
    BY <1>0, <1>3 DEF StartTask, TaskEnds, EndRun, EndWait
  <2> QED
    BY <2>1, <2>2 DEF TakeLeft
<1>4. CASE WorkerExits(w)
  BY <1>4 DEF WorkerExits
<1> QED
  BY <1>1, <1>2, <1>3, <1>4 DEF Working, Running

(* The clock does not go back, and _thread names the worker that is alive  *)
(* as long as nobody stops it.                                             *)
LEMMA WorkerStays ==
    ASSUME IInv, SInv, WInv, [Next]_vars, thread \in Alive, ~stopEvent
    PROVE  thread' = thread /\ clock' >= clock
<1>0. clock \in Nat
  BY DEF SInv, TInv
<1>1. CASE \E c \in Controller : Start(c)
  BY <1>1 DEF Start, Startable
<1>2. CASE \E c \in Controller : EndStop(c)
  BY <1>2 DEF EndStop, WInv
<1>3. CASE \E c \in Controller : BeginStop(c) \/ SignalStop(c) \/ JoinTimesOut(c)
  BY <1>0, <1>3 DEF BeginStop, SignalStop, JoinTimesOut
<1>4. CASE \E a \in Actor : Running(a) \/ ReadClock(a) \/ EndWait(a) \/ WorkerExits(a)
  BY <1>0, <1>4 DEF Running, TakeDue, StartTask, TaskEnds, EndRun, ReadClock, EndWait, WorkerExits
<1>5. CASE \/ Tick \/ ScheduleOnce \/ ScheduleEvery \/ Clear \/ UNCHANGED vars
           \/ \E i \in Task : Cancel(i)
  <2>1. thread' = thread /\ clock' \in {clock, clock + 1}
    BY <1>5 DEF Tick, ScheduleOnce, ScheduleEvery, Add, Clear, Cancel, vars
  <2> QED
    BY <1>0, <2>1
<1> QED
  BY <1>1, <1>2, <1>3, <1>4, <1>5 DEF Next, Working, Actor

(* Task i is due at d, and there is a worker that nobody has told to stop. *)
Waits(i, d) ==
    /\ thread \in Alive /\ ~stopEvent
    /\ i \in DOMAIN tasks /\ tasks[i].due = d /\ d <= clock

(* It stays so until it is moved, and each step of the worker brings the   *)
(* taking of it nearer.                                                    *)
DueAdvances(i, d) ==
    Waits(i, d) =>
        \/ stopEvent' \/ i \notin DOMAIN tasks' \/ tasks'[i].due # d
        \/ /\ Waits(i, d)' /\ thread' = thread
           /\ Working(thread) => TakeLeft(thread, d)' < TakeLeft(thread, d)
           /\ ~Working(thread) => TakeLeft(thread, d)' = TakeLeft(thread, d)

LEMMA WaitingAdvances ==
    ASSUME IInv, SInv, WInv, [Next]_vars, NEW i \in Task, NEW d \in Nat
    PROVE  DueAdvances(i, d)
<1> SUFFICES ASSUME Waits(i, d), ~stopEvent', i \in DOMAIN tasks', tasks'[i].due = d
             PROVE  /\ Waits(i, d)' /\ thread' = thread
                    /\ Working(thread) => TakeLeft(thread, d)' < TakeLeft(thread, d)
                    /\ ~Working(thread) => TakeLeft(thread, d)' = TakeLeft(thread, d)
  BY DEF DueAdvances
<1>1. PICK w \in Worker : w = thread /\ w \in Alive
  BY DEF Waits, Alive
<1>2. /\ thread' = w /\ d <= clock' /\ ~stopEvent
      /\ i \in DOMAIN tasks /\ tasks[i].due = d /\ d <= clock
  <2>1. clock \in Nat /\ thread' = thread /\ clock' >= clock /\ d <= clock
    BY WorkerStays DEF Waits, SInv, TInv
  <2>2. clock' \in Nat
    BY SInvStep DEF SInv, TInv
  <2> QED
    BY <1>1, <2>1, <2>2 DEF Waits
<1>3. CASE Working(w)
  <2>1. TakeLeft(w, d)' < TakeLeft(w, d) /\ pc'[w] \notin {"new", "dead"}
    BY <1>2, <1>3, RoundAdvances
  <2> QED
    BY <1>1, <1>2, <1>3, <2>1 DEF Waits, Alive, TakeLeft, WorkLeft
<1>4. CASE ~Working(w)
  <2>1. pc'[w] = pc[w] /\ batch'[w] = batch[w] /\ now'[w] = now[w]
    BY <1>1, <1>4, OthersLeaveWorker
  <2>2. TakeLeft(w, d)' = TakeLeft(w, d) /\ pc'[w] \notin {"new", "dead"}
    BY <1>1, <2>1 DEF TakeLeft, WorkLeft, Alive
  <2> QED
    BY <1>1, <1>2, <1>4, <2>2 DEF Waits, Alive, TakeLeft, WorkLeft
<1> QED
  BY <1>3, <1>4

(* A task that is due is not passed over: as long as nobody stops the      *)
(* worker, no step of any thread ends it or puts off its next taking, and  *)
(* each step of its own brings that nearer (scheduler.py:405).             *)
THEOREM DueAlwaysAdvances ==
    ASSUME \A c, d \in Controller : c = d
    PROVE  Spec => [][\A i \in Task, d \in Nat : DueAdvances(i, d)]_vars
<1>1. Init => IInv /\ SInv /\ WInv
  BY InitEstablishes, SInvInit, SchedulerAssumption DEF Init, WInv, WorkerPlace, Worker, Actor
<1>2. IInv /\ SInv /\ WInv /\ [Next]_vars => (IInv /\ SInv /\ WInv)'
  BY StepKeeps, SInvStep, WorkerStep
<1>3. IInv /\ SInv /\ WInv /\ [Next]_vars => [\A i \in Task, d \in Nat : DueAdvances(i, d)]_vars
  BY WaitingAdvances
<1> QED
  BY <1>1, <1>2, <1>3, PTL DEF Spec
=============================================================================
