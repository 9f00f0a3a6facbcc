----------------------- MODULE TaskOrchestratorProofs -----------------------
(***************************************************************************)
(* Proofs about TaskOrchestrator, for every capacity and whether or not    *)
(* dispatch raises errors the run does not catch.  That a task runs only   *)
(* after its dependencies have completed is inductive once one also knows  *)
(* what the run has still to deal with: nothing that is running or has     *)
(* completed can be blocked when a run gives up (BlockRest).               *)
(*                                                                         *)
(* That a blocked task has a cause, and a finished one keeps its outcome,  *)
(* needs more: the dependencies of all plans have no circle, so a pass     *)
(* that deals with nothing finds nothing to wait for, and the run never    *)
(* has to give up (Calm).  An exception that cuts a run short breaks it.   *)
(*                                                                         *)
(* Then about OrchestratedApproval, for any choice of the tasks the owner  *)
(* has to approve.  Every step of it is a step of the orchestrator or      *)
(* none, so what was proved of the orchestrator is kept; and nothing       *)
(* stands at the gate for an attempt that has not asked yet.               *)
(*                                                                         *)
(* Last about how a run ends: it has dealt with all it took on (RInv), it  *)
(* has a next step wherever it is, and each of its steps lowers a variant  *)
(* that nobody else raises, with the gate in between or without.           *)
(***************************************************************************)
EXTENDS OrchestratedApproval, FiniteSetTheorems, SequenceTheorems,
        WellFoundedInduction, TLAPS

Rec == [deps : SUBSET Nat, max : Nat, state : TaskState, attempts : Nat]

(* Nothing but pending and cancelled tasks is left for the run.            *)
Untouched(S) == \A i \in S : tasks[i].state \in {"pending", "cancelled"}

IInv ==
    /\ tasks \in Seq(Rec)
    /\ \A i \in Number : tasks[i].deps \subseteq Number
    /\ unresolved \subseteq Number
    /\ runner \in {"scan", "stalled"} => Untouched(unresolved)
    /\ runner \in {"attempt", "dispatched"} =>
          /\ at \in Number
          /\ tasks[at].state = "running"
          /\ Untouched(unresolved \ {at})
    /\ DependenciesFirst

-----------------------------------------------------------------------------
(* Replacing the tasks by a table that only changes states of tasks that   *)
(* had not completed keeps dependencies first, if what the change starts   *)
(* or completes has its dependencies completed.                            *)
LEMMA ChangeKeepsDependencies ==
    ASSUME IInv, DOMAIN tasks' = Number,
           \A i \in Number : tasks'[i].deps = tasks[i].deps,
           \A i \in Number : tasks[i].state = "completed" => tasks'[i].state = "completed",
           \A i \in Number : tasks'[i].state \in {"running", "completed"} =>
               \A d \in tasks[i].deps : tasks[d].state = "completed"
    PROVE  DependenciesFirst'
  BY DEF IInv, DependenciesFirst, Number

(* One task changes its state, from one that is not completed.             *)
LEMMA SetKeepsTable ==
    ASSUME IInv, NEW i \in Number, NEW s \in TaskState, tasks' = Set(i, s),
           tasks[i].state # "completed",
           s \in {"running", "completed"} =>
               \A d \in tasks[i].deps : tasks[d].state = "completed"
    PROVE  /\ tasks' \in Seq(Rec)
           /\ DOMAIN tasks' = Number
           /\ \A j \in Number : tasks'[j].deps = tasks[j].deps
           /\ \A j \in Number \ {i} : tasks'[j] = tasks[j]
           /\ tasks'[i].state = s
           /\ DependenciesFirst'
<1>1. tasks \in Seq(Rec) /\ i \in 1..Len(tasks) /\ tasks[i] \in Rec
  BY DEF IInv, Number
<1>2. tasks' = [tasks EXCEPT ![i] = [tasks[i] EXCEPT !.state = s]]
  BY DEF Set
<1>3. /\ [tasks[i] EXCEPT !.state = s] \in Rec
      /\ [tasks[i] EXCEPT !.state = s].deps = tasks[i].deps
      /\ [tasks[i] EXCEPT !.state = s].state = s
  BY <1>1 DEF Rec
<1>4. /\ tasks' \in Seq(Rec)
      /\ DOMAIN tasks' = Number
      /\ tasks'[i] = [tasks[i] EXCEPT !.state = s]
      /\ \A j \in Number \ {i} : tasks'[j] = tasks[j]
  BY <1>1, <1>2, <1>3 DEF Number
<1>5. \A j \in Number : tasks'[j].deps = tasks[j].deps
  BY <1>3, <1>4
<1>6. \A j \in Number : tasks[j].state = "completed" => tasks'[j].state = "completed"
  BY <1>4
<1>7. \A j \in Number : tasks'[j].state \in {"running", "completed"} =>
         \A d \in tasks[j].deps : tasks[d].state = "completed"
  BY <1>3, <1>4 DEF IInv, DependenciesFirst
<1>8. DependenciesFirst'
  BY <1>4, <1>5, <1>6, <1>7, ChangeKeepsDependencies
<1> QED
  BY <1>3, <1>4, <1>5, <1>8

(* A table of the same tasks with the same dependencies and the same       *)
(* states satisfies what the table did (an attempt only counts).           *)
LEMMA AttemptStep ==
    ASSUME IInv, Attempt
    PROVE  IInv'
<1>1. /\ tasks \in Seq(Rec) /\ at \in 1..Len(tasks) /\ tasks[at] \in Rec
      /\ tasks[at].state = "running" /\ Untouched(unresolved \ {at})
  BY DEF IInv, Attempt, Number
<1>2. tasks' = [tasks EXCEPT ![at] = [tasks[at] EXCEPT !.attempts = tasks[at].attempts + 1]]
  BY DEF Attempt
<1> DEFINE r == [tasks[at] EXCEPT !.attempts = tasks[at].attempts + 1]
<1>3. r \in Rec /\ r.deps = tasks[at].deps /\ r.state = tasks[at].state
  <2>1. tasks[at] \in Rec
    BY <1>1
  <2>2. ASSUME NEW q \in Rec
        PROVE  LET n == [q EXCEPT !.attempts = q.attempts + 1]
               IN  n \in Rec /\ n.deps = q.deps /\ n.state = q.state
    BY DEF Rec
  <2> QED
    BY <2>1, <2>2
<1> HIDE DEF r
<1>4. /\ tasks' \in Seq(Rec)
      /\ DOMAIN tasks' = Number
      /\ tasks'[at] = r
      /\ \A j \in Number \ {at} : tasks'[j] = tasks[j]
  BY <1>1, <1>2, <1>3 DEF Number, r
<1>5. \A j \in Number : tasks'[j].deps = tasks[j].deps /\ tasks'[j].state = tasks[j].state
  BY <1>3, <1>4
<1>6. DependenciesFirst'
  BY <1>4, <1>5 DEF IInv, DependenciesFirst, Number
<1> QED
  BY <1>1, <1>4, <1>5, <1>6 DEF IInv, Attempt, Untouched, Number

LEMMA SubmitStep ==
    ASSUME IInv, SubmitPlan
    PROVE  IInv'
<1> DEFINE old == Len(tasks)
<1>1. PICK m \in 1..(MaxTasks - old), max \in 1..MaxAttempts :
         \E deps \in [(old + 1)..(old + m) -> SUBSET (1..(old + m))] :
            /\ tasks' = tasks \o [k \in 1..m |->
                        [deps |-> deps[old + k], max |-> max,
                         state |-> "pending", attempts |-> 0]]
            /\ UNCHANGED runVars
  BY DEF SubmitPlan
<1>2. PICK deps \in [(old + 1)..(old + m) -> SUBSET (1..(old + m))] :
            /\ tasks' = tasks \o [k \in 1..m |->
                        [deps |-> deps[old + k], max |-> max,
                         state |-> "pending", attempts |-> 0]]
            /\ UNCHANGED runVars
  BY <1>1
<1> DEFINE new == [k \in 1..m |-> [deps |-> deps[old + k], max |-> max,
                                   state |-> "pending", attempts |-> 0]]
<1>3. tasks \in Seq(Rec) /\ old \in Nat /\ m \in Nat /\ Number = 1..old
  BY OrchestratorAssumption DEF IInv, Number
<1>4. \A k \in 1..m : deps[old + k] \subseteq 1..(old + m)
  BY <1>3
<1>5. new \in Seq(Rec) /\ Len(new) = m
  <2>1. \A k \in 1..m : [deps |-> deps[old + k], max |-> max,
                          state |-> "pending", attempts |-> 0] \in Rec
    BY <1>3, <1>4, OrchestratorAssumption DEF Rec, TaskState
  <2>2. new \in [1..m -> Rec]
    BY <2>1
  <2> HIDE DEF new
  <2> QED
    BY <1>3, <2>2
<1>6. \A k \in 1..m : new[k].deps \subseteq 1..(old + m) /\ new[k].state = "pending"
  BY <1>4
<1> HIDE DEF new
<1>7. /\ tasks' \in Seq(Rec)
      /\ Len(tasks') = old + m
      /\ \A i \in 1..(old + m) : tasks'[i] = IF i <= old THEN tasks[i] ELSE new[i - old]
  BY <1>2, <1>3, <1>5, ConcatProperties DEF new
<1>8. DOMAIN tasks' = 1..(old + m)
  BY <1>7
<1>9. \A i \in 1..old : tasks'[i] = tasks[i]
  BY <1>3, <1>7
<1>10. \A i \in (old + 1)..(old + m) :
          tasks'[i].deps \subseteq 1..(old + m) /\ tasks'[i].state = "pending"
  <2> SUFFICES ASSUME NEW i \in (old + 1)..(old + m)
               PROVE  tasks'[i].deps \subseteq 1..(old + m) /\ tasks'[i].state = "pending"
    OBVIOUS
  <2>1. i - old \in 1..m /\ tasks'[i] = new[i - old]
    BY <1>3, <1>7
  <2> QED
    BY <2>1, <1>6
<1>11. \A i \in 1..(old + m) : i \in 1..old \/ i \in (old + 1)..(old + m)
  BY <1>3
<1>12. \A i \in 1..(old + m) : tasks'[i].deps \subseteq 1..(old + m)
  BY <1>3, <1>9, <1>10, <1>11 DEF IInv
<1>13. DependenciesFirst'
  BY <1>3, <1>8, <1>9, <1>10, <1>11 DEF IInv, DependenciesFirst, Number
<1>14. /\ unresolved' = unresolved /\ runner' = runner /\ at' = at
       /\ unresolved \subseteq 1..old
       /\ 1..old \subseteq 1..(old + m)
  BY <1>2, <1>3 DEF runVars, IInv
<1>15. unresolved' \subseteq Number'
  BY <1>8, <1>14 DEF Number
<1>16. /\ runner' \in {"scan", "stalled"} => Untouched(unresolved)'
       /\ runner' \in {"attempt", "dispatched"} =>
             at' \in Number' /\ tasks'[at'].state = "running" /\ Untouched(unresolved \ {at})'
  BY <1>3, <1>8, <1>9, <1>14 DEF IInv, Untouched, Number
<1> QED
  BY <1>7, <1>8, <1>12, <1>13, <1>15, <1>16 DEF IInv, Number

(* Several tasks that have not started are given a blocking state at once. *)
LEMMA SetAllKeepsTable ==
    ASSUME IInv, NEW T, Untouched(T \intersect Number), NEW s \in Blocking,
           tasks' = [j \in Number |-> IF j \in T
                                      THEN [tasks[j] EXCEPT !.state = s]
                                      ELSE tasks[j]]
    PROVE  /\ tasks' \in Seq(Rec)
           /\ DOMAIN tasks' = Number
           /\ \A j \in Number : tasks'[j].deps = tasks[j].deps
           /\ \A j \in Number \ T : tasks'[j] = tasks[j]
           /\ \A j \in Number \intersect T : tasks'[j].state = s
           /\ DependenciesFirst'
<1>1. tasks \in Seq(Rec) /\ \A j \in Number : tasks[j] \in Rec
  BY DEF IInv, Number
<1>2. Number = 1..Len(tasks) /\ Len(tasks) \in Nat
  BY <1>1 DEF Number
<1>3. \A j \in Number : /\ [tasks[j] EXCEPT !.state = s] \in Rec
                        /\ [tasks[j] EXCEPT !.state = s].deps = tasks[j].deps
                        /\ [tasks[j] EXCEPT !.state = s].state = s
  <2> SUFFICES ASSUME NEW j \in Number
               PROVE  /\ [tasks[j] EXCEPT !.state = s] \in Rec
                      /\ [tasks[j] EXCEPT !.state = s].deps = tasks[j].deps
                      /\ [tasks[j] EXCEPT !.state = s].state = s
    OBVIOUS
  <2>1. tasks[j] \in Rec /\ s \in TaskState
    BY <1>1 DEF TaskState, Finished, Blocking
  <2> QED
    BY <2>1 DEF Rec
<1>4. /\ \A j \in Number \ T : tasks'[j] = tasks[j]
      /\ \A j \in Number \intersect T : tasks'[j] = [tasks[j] EXCEPT !.state = s]
      /\ DOMAIN tasks' = Number
  OBVIOUS
<1>5. tasks' \in [1..Len(tasks) -> Rec]
  BY <1>1, <1>2, <1>3
<1>6. tasks' \in Seq(Rec)
  BY <1>2, <1>5
<1>7. \A j \in Number : tasks'[j].deps = tasks[j].deps
  BY <1>3, <1>4
<1>8. \A j \in Number \intersect T : tasks'[j].state = s
  BY <1>3, <1>4
<1>9. \A j \in Number : tasks[j].state = "completed" => tasks'[j].state = "completed"
  BY <1>4 DEF Untouched
<1>10. \A j \in Number : tasks'[j].state \in {"running", "completed"} =>
          tasks[j].state \in {"running", "completed"}
  BY <1>4, <1>8 DEF Blocking
<1>11. DependenciesFirst'
  BY <1>4, <1>7, <1>9, <1>10, ChangeKeepsDependencies DEF IInv, DependenciesFirst
<1> QED
  BY <1>4, <1>6, <1>7, <1>8, <1>11

LEMMA CancelStep ==
    ASSUME IInv, NEW i \in Number, Cancel(i)
    PROVE  IInv'
<1>1. PICK targets \in {{i}, Dependents(i)} :
         tasks' = [j \in Number |-> IF j \in targets
                                    THEN [tasks[j] EXCEPT !.state = "cancelled"]
                                    ELSE tasks[j]]
  BY DEF Cancel
<1>2. \A j \in targets : j \in Number /\ tasks[j].state = "pending"
  BY DEF Cancel, Cancellable, Dependents, InState
<1>3. Untouched(targets \intersect Number) /\ "cancelled" \in Blocking
  BY <1>2 DEF Untouched, Blocking
<1>4. /\ tasks' \in Seq(Rec)
      /\ DOMAIN tasks' = Number
      /\ \A j \in Number : tasks'[j].deps = tasks[j].deps
      /\ \A j \in Number \ targets : tasks'[j] = tasks[j]
      /\ \A j \in Number \intersect targets : tasks'[j].state = "cancelled"
      /\ DependenciesFirst'
  BY <1>1, <1>3, SetAllKeepsTable
<1>5. UNCHANGED <<unresolved, runner, at>>
  BY DEF Cancel, runVars
<1>6. /\ \A j \in Number : tasks[j].state = "running" => tasks'[j] = tasks[j]
      /\ \A j \in Number : tasks[j].state \in {"pending", "cancelled"} =>
            tasks'[j].state \in {"pending", "cancelled"}
  BY <1>2, <1>4
<1>7. /\ runner' \in {"scan", "stalled"} => Untouched(unresolved)'
      /\ runner' \in {"attempt", "dispatched"} =>
            at' \in Number' /\ tasks'[at'].state = "running" /\ Untouched(unresolved \ {at})'
  BY <1>4, <1>5, <1>6 DEF IInv, Untouched, Number
<1> QED
  BY <1>4, <1>5, <1>7 DEF IInv, Number

LEMMA BlockRestStep ==
    ASSUME IInv, BlockRest
    PROVE  IInv'
<1>1. Untouched(unresolved \intersect Number) /\ "blocked" \in Blocking
  BY DEF IInv, BlockRest, Untouched, Blocking
<1>2. /\ tasks' \in Seq(Rec)
      /\ DOMAIN tasks' = Number
      /\ \A j \in Number : tasks'[j].deps = tasks[j].deps
      /\ DependenciesFirst'
  BY <1>1, SetAllKeepsTable DEF BlockRest
<1> QED
  BY <1>2 DEF IInv, BlockRest, Untouched, Number

(* The steps that change the state of the one task the run is at.          *)
LEMMA OneTaskStep ==
    ASSUME IInv,
           \/ \E i \in Number : BlockTask(i) \/ StartTask(i)
           \/ Succeed \/ Fail
    PROVE  IInv'
<1>1. ASSUME NEW i \in Number, BlockTask(i)
      PROVE  IInv'
  <2>1. /\ tasks' = Set(i, "blocked") /\ "blocked" \in TaskState
        /\ tasks[i].state = "pending"
        /\ runner = "scan" /\ runner' = "scan" /\ unresolved' = unresolved \ {i}
    BY <1>1 DEF BlockTask, Reaches, Resolve, TaskState, Finished
  <2>2. /\ tasks' \in Seq(Rec)
        /\ DOMAIN tasks' = Number
        /\ \A j \in Number : tasks'[j].deps = tasks[j].deps
        /\ \A j \in Number \ {i} : tasks'[j] = tasks[j]
        /\ DependenciesFirst'
    BY <2>1, SetKeepsTable
  <2> QED
    BY <2>1, <2>2 DEF IInv, Untouched, Number
<1>2. ASSUME NEW i \in Number, StartTask(i)
      PROVE  IInv'
  <2>1. /\ tasks' = Set(i, "running") /\ "running" \in TaskState
        /\ tasks[i].state = "pending"
        /\ \A d \in tasks[i].deps : tasks[d].state = "completed"
        /\ runner = "scan" /\ runner' = "attempt" /\ at' = i
        /\ unresolved' = unresolved
    BY <1>2 DEF StartTask, Reaches, Ready, TaskState
  <2>2. /\ tasks' \in Seq(Rec)
        /\ DOMAIN tasks' = Number
        /\ \A j \in Number : tasks'[j].deps = tasks[j].deps
        /\ \A j \in Number \ {i} : tasks'[j] = tasks[j]
        /\ tasks'[i].state = "running"
        /\ DependenciesFirst'
    BY <2>1, SetKeepsTable
  <2> QED
    BY <2>1, <2>2 DEF IInv, Untouched, Number
<1>3. ASSUME NEW s \in {"completed", "failed"}, tasks' = Set(at, s),
             runner = "dispatched", runner' = "scan", Resolve(at)
      PROVE  IInv'
  <2>1. /\ at \in Number /\ tasks[at].state = "running" /\ s \in TaskState
        /\ \A d \in tasks[at].deps : tasks[d].state = "completed"
        /\ Untouched(unresolved \ {at})
    BY <1>3 DEF IInv, DependenciesFirst, TaskState, Finished
  <2>2. /\ tasks' \in Seq(Rec)
        /\ DOMAIN tasks' = Number
        /\ \A j \in Number : tasks'[j].deps = tasks[j].deps
        /\ \A j \in Number \ {at} : tasks'[j] = tasks[j]
        /\ DependenciesFirst'
    BY <1>3, <2>1, SetKeepsTable
  <2> QED
    BY <1>3, <2>1, <2>2 DEF IInv, Resolve, Untouched, Number
<1>4. CASE Succeed
  BY <1>3, <1>4 DEF Succeed
<1>5. CASE Fail
  BY <1>3, <1>5 DEF Fail
<1> QED
  BY <1>1, <1>2, <1>4, <1>5

-----------------------------------------------------------------------------
(* Every step keeps the invariant. *)
LEMMA StepPreserves == IInv /\ [Next]_vars => IInv'
<1> SUFFICES ASSUME IInv, [Next]_vars PROVE IInv'
  OBVIOUS
<1>1. ASSUME UNCHANGED <<tasks, unresolved, runner, at>>
      PROVE  IInv'
  BY <1>1 DEF IInv, DependenciesFirst, Untouched, Number
<1>2. CASE Start \/ Stop \/ BeginRefused
  BY <1>2, <1>1 DEF Start, Stop, BeginRefused, runVars
<1>3. CASE Begin
  BY <1>3 DEF Begin, IInv, DependenciesFirst, Untouched, Number, InState
<1>4. ASSUME NEW i \in Number, SkipTask(i) \/ PostponeTask(i)
      PROVE  IInv'
  BY <1>4 DEF SkipTask, PostponeTask, Reaches, Resolve, IInv, DependenciesFirst,
              Untouched, Number
<1>5. CASE EndPass
  BY <1>5 DEF EndPass, IInv, DependenciesFirst, Untouched, Number
<1>6. CASE Retry
  BY <1>6 DEF Retry, IInv, DependenciesFirst, Untouched, Number
<1>7. CASE Escape \/ Finish
  BY <1>7 DEF Escape, Finish, IInv, DependenciesFirst, Untouched, Number
<1>8. CASE UNCHANGED vars
  BY <1>8, <1>1 DEF vars
<1> QED
  BY <1>2, <1>3, <1>4, <1>5, <1>6, <1>7, <1>8, AttemptStep, SubmitStep,
     CancelStep, BlockRestStep, OneTaskStep DEF Next, RunStep

(* In every execution, whatever is submitted or cancelled during a run and *)
(* whatever dispatch raises, a task runs or has completed only if all it   *)
(* depends on has completed.                                               *)
THEOREM DependenciesAlwaysFirst == Spec => []DependenciesFirst
<1>1. Init => IInv
  BY DEF Init, IInv, DependenciesFirst, Untouched, Number
<1>2. IInv /\ [Next]_vars => IInv'
  BY StepPreserves
<1>3. IInv => DependenciesFirst
  BY DEF IInv
<1> QED
  BY <1>1, <1>2, <1>3, PTL DEF Spec

-----------------------------------------------------------------------------
(* What AttemptsMatchOutcome says of one task, with the ranges it needs.   *)
Sound(r) ==
    /\ r.max \in 1..MaxAttempts
    /\ r.attempts \in 0..r.max
    /\ r.state \in {"pending", "blocked", "cancelled"} => r.attempts = 0
    /\ r.state = "failed" => r.attempts = r.max
    /\ r.state = "completed" => r.attempts > 0

(* An attempt is made only while there is one left, and a dispatch under   *)
(* way has been counted.                                                   *)
AInv ==
    /\ \A i \in Number : Sound(tasks[i])
    /\ runner = "attempt" => tasks[at].attempts < tasks[at].max
    /\ runner = "dispatched" => tasks[at].attempts > 0

(* Steps that leave the tasks alone and are not about an attempt.          *)
LEMMA ElsewhereKeepsAttempts ==
    ASSUME AInv, tasks' = tasks, runner' \notin {"attempt", "dispatched"}
    PROVE  AInv'
  BY DEF AInv, Number

(* A task that changes only its state has the attempts of the new state.   *)
LEMMA ChangeOfState ==
    ASSUME NEW r \in Rec, Sound(r), NEW s \in TaskState,
           s \in {"pending", "blocked", "cancelled"} => r.attempts = 0,
           s = "failed" => r.attempts = r.max,
           s = "completed" => r.attempts > 0
    PROVE  /\ Sound([r EXCEPT !.state = s])
           /\ [r EXCEPT !.state = s].attempts = r.attempts
           /\ [r EXCEPT !.state = s].max = r.max
  BY DEF Sound, Rec

LEMMA SetKeepsAttempts ==
    ASSUME IInv, AInv, NEW i \in Number, NEW s \in TaskState, tasks' = Set(i, s),
           s \in {"pending", "blocked", "cancelled"} => tasks[i].attempts = 0,
           s = "failed" => tasks[i].attempts = tasks[i].max,
           s = "completed" => tasks[i].attempts > 0
    PROVE  /\ \A j \in Number' : Sound(tasks'[j])
           /\ tasks'[i].attempts = tasks[i].attempts
           /\ tasks'[i].max = tasks[i].max
<1>1. tasks \in Seq(Rec) /\ i \in 1..Len(tasks) /\ tasks[i] \in Rec /\ Sound(tasks[i])
  BY DEF IInv, AInv, Number
<1>2. tasks' = [tasks EXCEPT ![i] = [tasks[i] EXCEPT !.state = s]]
  BY DEF Set
<1>3. /\ Number' = Number
      /\ tasks'[i] = [tasks[i] EXCEPT !.state = s]
      /\ \A j \in Number \ {i} : tasks'[j] = tasks[j]
  BY <1>1, <1>2 DEF Number
<1>4. /\ Sound(tasks'[i])
      /\ tasks'[i].attempts = tasks[i].attempts
      /\ tasks'[i].max = tasks[i].max
  BY <1>1, <1>3, ChangeOfState
<1> QED
  BY <1>3, <1>4 DEF AInv

LEMMA SetAllKeepsAttempts ==
    ASSUME IInv, AInv, NEW T, Untouched(T \intersect Number), NEW s \in {"blocked", "cancelled"},
           tasks' = [j \in Number |-> IF j \in T
                                      THEN [tasks[j] EXCEPT !.state = s]
                                      ELSE tasks[j]]
    PROVE  /\ Number' = Number
           /\ \A j \in Number : Sound(tasks'[j])
           /\ \A j \in Number \ T : tasks'[j] = tasks[j]
<1>1. tasks \in Seq(Rec) /\ s \in TaskState
  BY DEF IInv, TaskState, Finished
<1>2. /\ Number' = Number
      /\ \A j \in Number \ T : tasks'[j] = tasks[j]
      /\ \A j \in Number \intersect T : tasks'[j] = [tasks[j] EXCEPT !.state = s]
  BY DEF Number
<1>3. ASSUME NEW j \in Number \intersect T
      PROVE  Sound(tasks'[j])
  <2>1. tasks[j] \in Rec /\ Sound(tasks[j]) /\ tasks[j].attempts = 0
    BY <1>1, <1>3 DEF AInv, Untouched, Sound, Number
  <2> QED
    BY <1>1, <1>2, <1>3, <2>1, ChangeOfState
<1> QED
  BY <1>2, <1>3 DEF AInv

LEMMA SubmitKeepsAttempts ==
    ASSUME IInv, AInv, SubmitPlan
    PROVE  AInv'
<1> DEFINE old == Len(tasks)
<1>1. PICK m \in 1..(MaxTasks - old), max \in 1..MaxAttempts :
         \E deps \in [(old + 1)..(old + m) -> SUBSET (1..(old + m))] :
            /\ tasks' = tasks \o [k \in 1..m |->
                        [deps |-> deps[old + k], max |-> max,
                         state |-> "pending", attempts |-> 0]]
            /\ UNCHANGED runVars
  BY DEF SubmitPlan
<1>2. PICK deps \in [(old + 1)..(old + m) -> SUBSET (1..(old + m))] :
            /\ tasks' = tasks \o [k \in 1..m |->
                        [deps |-> deps[old + k], max |-> max,
                         state |-> "pending", attempts |-> 0]]
            /\ UNCHANGED runVars
  BY <1>1
<1> DEFINE new == [k \in 1..m |-> [deps |-> deps[old + k], max |-> max,
                                   state |-> "pending", attempts |-> 0]]
<1>3. tasks \in Seq(Rec) /\ old \in Nat /\ m \in Nat /\ Number = 1..old
  BY OrchestratorAssumption DEF IInv, Number
<1>4. \A k \in 1..m : Sound(new[k])
  BY OrchestratorAssumption DEF Sound
<1>5. new \in [1..m -> {new[k] : k \in 1..m}]
  OBVIOUS
<1> HIDE DEF new
<1>6. new \in Seq({new[k] : k \in 1..m}) /\ Len(new) = m
  BY <1>3, <1>5
<1>7. /\ Len(tasks') = old + m
      /\ \A i \in 1..(old + m) : tasks'[i] = IF i <= old THEN tasks[i] ELSE new[i - old]
      /\ Number' = 1..(old + m)
  BY <1>2, <1>3, <1>6, ConcatProperties DEF new, Number
<1>8. ASSUME NEW i \in Number'
      PROVE  Sound(tasks'[i])
  <2>1. i \in 1..old \/ (i - old \in 1..m /\ ~(i <= old))
    BY <1>3, <1>7, <1>8
  <2> QED
    BY <1>3, <1>4, <1>7, <1>8, <2>1 DEF AInv
<1>9. runner' \in {"attempt", "dispatched"} => tasks'[at'] = tasks[at]
  BY <1>2, <1>3, <1>7 DEF IInv, runVars
<1> QED
  BY <1>2, <1>8, <1>9 DEF AInv, runVars

LEMMA AttemptsStep == IInv /\ AInv /\ [Next]_vars => AInv'
<1> SUFFICES ASSUME IInv, AInv, [Next]_vars PROVE AInv'
  OBVIOUS
<1>1. CASE Start \/ Stop \/ BeginRefused \/ UNCHANGED vars
  BY <1>1 DEF Start, Stop, BeginRefused, AInv, Number, vars, runVars
<1>2. CASE Begin \/ EndPass \/ Escape \/ Finish
  BY <1>2, ElsewhereKeepsAttempts DEF Begin, EndPass, Escape, Finish
<1>3. ASSUME NEW i \in Number, SkipTask(i) \/ PostponeTask(i)
      PROVE  AInv'
  BY <1>3, ElsewhereKeepsAttempts DEF SkipTask, PostponeTask, Reaches
<1>4. ASSUME NEW i \in Number, BlockTask(i)
      PROVE  AInv'
  BY <1>4, SetKeepsAttempts DEF BlockTask, Reaches, TaskState, Finished, AInv, Sound
<1>5. ASSUME NEW i \in Number, StartTask(i)
      PROVE  AInv'
  <2>1. /\ tasks' = Set(i, "running") /\ runner' = "attempt" /\ at' = i
        /\ tasks[i].attempts = 0 /\ tasks[i].max > 0
    BY <1>5, OrchestratorAssumption DEF StartTask, AInv, Sound
  <2>2. /\ \A j \in Number' : Sound(tasks'[j])
        /\ tasks'[i].attempts = tasks[i].attempts
        /\ tasks'[i].max = tasks[i].max
    BY <2>1, SetKeepsAttempts DEF TaskState
  <2> QED
    BY <2>1, <2>2 DEF AInv
<1>6. CASE Attempt
  <2>1. /\ tasks \in Seq(Rec) /\ at \in 1..Len(tasks) /\ tasks[at] \in Rec
        /\ tasks[at].state = "running" /\ Sound(tasks[at])
        /\ tasks[at].attempts < tasks[at].max
    BY <1>6 DEF IInv, AInv, Attempt, Number
  <2> DEFINE r == [tasks[at] EXCEPT !.attempts = tasks[at].attempts + 1]
  <2>2. /\ r.max = tasks[at].max /\ r.state = "running"
        /\ r.attempts = tasks[at].attempts + 1
    BY <2>1 DEF Rec
  <2> HIDE DEF r
  <2>5. Sound(r) /\ r.attempts > 0
    BY <2>1, <2>2, OrchestratorAssumption DEF Sound
  <2>3. tasks' = [tasks EXCEPT ![at] = r] /\ at' = at /\ runner' = "dispatched"
    BY <1>6 DEF Attempt, r
  <2>4. tasks'[at] = r /\ Number' = Number /\ \A j \in Number \ {at} : tasks'[j] = tasks[j]
    BY <2>1, <2>3 DEF Number
  <2> QED
    BY <2>3, <2>4, <2>5 DEF AInv
<1>7. CASE Retry
  BY <1>7 DEF Retry, MayRetry, AInv, Number
<1>8. CASE Succeed
  BY <1>8, SetKeepsAttempts DEF Succeed, TaskState, Finished, IInv, AInv
<1>9. CASE Fail
  <2>1. at \in Number /\ Sound(tasks[at]) /\ ~(tasks[at].attempts < tasks[at].max)
    BY <1>9 DEF Fail, MayRetry, IInv, AInv
  <2>2. tasks[at].attempts = tasks[at].max
    BY <2>1, OrchestratorAssumption DEF Sound
  <2> QED
    BY <1>9, <2>1, <2>2, SetKeepsAttempts DEF Fail, TaskState, Finished, AInv
<1>10. CASE BlockRest
  <2>1. Untouched(unresolved \intersect Number)
    BY <1>10 DEF BlockRest, IInv, Untouched
  <2>2. Number' = Number /\ \A j \in Number : Sound(tasks'[j])
    BY <1>10, <2>1, SetAllKeepsAttempts DEF BlockRest
  <2> QED
    BY <1>10, <2>2 DEF BlockRest, AInv
<1>11. ASSUME NEW i \in Number, Cancel(i)
       PROVE  AInv'
  <2>1. PICK targets \in {{i}, Dependents(i)} :
           tasks' = [j \in Number |-> IF j \in targets
                                      THEN [tasks[j] EXCEPT !.state = "cancelled"]
                                      ELSE tasks[j]]
    BY <1>11 DEF Cancel
  <2>2. \A j \in targets : j \in Number /\ tasks[j].state = "pending"
    BY <1>11 DEF Cancel, Cancellable, Dependents, InState
  <2>3. /\ Number' = Number
        /\ \A j \in Number : Sound(tasks'[j])
        /\ \A j \in Number \ targets : tasks'[j] = tasks[j]
    BY <2>1, <2>2, SetAllKeepsAttempts DEF Untouched
  <2>4. UNCHANGED <<runner, at>>
    BY <1>11 DEF Cancel, runVars
  <2>5. runner \in {"attempt", "dispatched"} => at \in Number \ targets
    BY <2>2 DEF IInv
  <2> QED
    BY <2>3, <2>4, <2>5 DEF AInv
<1> QED
  BY <1>1, <1>2, <1>3, <1>4, <1>5, <1>6, <1>7, <1>8, <1>9, <1>10, <1>11,
     SubmitKeepsAttempts DEF Next, RunStep

(* In every execution the attempts of a task agree with its outcome and    *)
(* never exceed its max_attempts.                                          *)
THEOREM AttemptsAlwaysMatch == Spec => []AttemptsMatchOutcome
<1>1. Init => IInv /\ AInv
  BY DEF Init, IInv, AInv, DependenciesFirst, Untouched, Number
<1>2. IInv /\ AInv /\ [Next]_vars => (IInv /\ AInv)'
  BY StepPreserves, AttemptsStep
<1>3. IInv /\ AInv => AttemptsMatchOutcome
  BY OrchestratorAssumption DEF AInv, Sound, AttemptsMatchOutcome
<1> QED
  BY <1>1, <1>2, <1>3, PTL DEF Spec

-----------------------------------------------------------------------------
(* A set of numbers that is not empty has a least member.                  *)
LEMMA Least ==
    ASSUME NEW T \in SUBSET Nat, T # {}
    PROVE  \E x \in T : \A y \in T : x <= y
<1> DEFINE R == {ss \in Nat \X Nat : ss[1] < ss[2]}
<1>1. IsWellFoundedOn(R, Nat)
  BY NatLessThanWellFounded DEF OpToRel
<1> HIDE DEF R
<1>2. PICK x \in T : \A y \in T : ~ (<<y, x>> \in R)
  BY <1>1, WFMin
<1>3. \A y \in T : ~ (y < x)
  BY <1>2 DEF R
<1> QED
  BY <1>3

(* The run still has something to do before task i can be dealt with.      *)
Waiting(i) == \E d \in tasks[i].deps : d \in unresolved

Deps == [i \in Number |-> tasks[i].deps]

(* A run no exception has cut short: what the tasks it has still to deal   *)
(* with depend on, and is not finished, it has still to deal with too; and *)
(* a pass that has dealt with nothing has found each of them waiting.      *)
(* Dependencies have no circle, so a pass always deals with something, and *)
(* the run never gives up.                                                 *)
Calm ==
    /\ at \in Nat
    /\ runner # "stalled"
    /\ \A i \in Number : tasks[i].state = "running" =>
          runner \in {"attempt", "dispatched"} /\ i = at
    /\ runner \in {"attempt", "dispatched"} => at \in unresolved
    /\ runner # "idle" => \A i \in unresolved : \A d \in tasks[i].deps :
          tasks[d].state \in {"pending", "running"} => d \in unresolved
    /\ runner = "scan" /\ ~progress =>
          \A i \in unresolved : i <= at => Waiting(i)
    /\ \A i \in Number : tasks[i].state = "blocked" =>
          \E d \in tasks[i].deps : tasks[d].state \in Blocking

CInv ==
    /\ Acyclic(Deps)
    /\ cut \/ Calm

(* In tasks that can be ranked above their dependencies, not every one of  *)
(* a set can wait for another of the set.                                  *)
LEMMA NoCircle ==
    ASSUME IInv, Acyclic(Deps), \A i \in unresolved : Waiting(i)
    PROVE  unresolved = {}
<1> SUFFICES ASSUME unresolved # {} PROVE FALSE
  OBVIOUS
<1>1. unresolved \subseteq Number /\ Number \subseteq Nat
  BY DEF IInv, Number
<1>2. PICK rank \in [Number -> Number] :
         \A i \in Number : \A d \in tasks[i].deps : rank[d] < rank[i]
  BY DEF Acyclic, Deps
<1> DEFINE T == {rank[i] : i \in unresolved}
<1>3. T \in SUBSET Nat /\ T # {}
  BY <1>1, <1>2
<1>4. PICK x \in T : \A y \in T : x <= y
  BY <1>3, Least
<1>5. PICK i \in unresolved : x = rank[i]
  BY <1>4
<1>6. PICK d \in tasks[i].deps : d \in unresolved
  BY DEF Waiting
<1>7. rank[d] \in T /\ rank[d] < rank[i] /\ rank[d] \in Nat /\ rank[i] \in Nat
  BY <1>1, <1>2, <1>6
<1> QED
  BY <1>4, <1>5, <1>7

(* The same tasks with the same dependencies, finished ones as they were.  *)
Kept ==
    /\ DOMAIN tasks' = Number
    /\ \A i \in Number : tasks'[i].deps = tasks[i].deps
Frozen == \A i \in Number : tasks[i].state \in Finished => tasks'[i] = tasks[i]

LEMMA KeptAcyclic ==
    ASSUME Kept, Acyclic(Deps)
    PROVE  Acyclic(Deps)'
<1>1. Deps' = Deps
  BY DEF Kept, Deps, Number
<1> QED
  BY <1>1 DEF Acyclic

(* What a step that only changes the states of tasks does to what the run  *)
(* knows about them, when all it had to deal with it has either dealt with *)
(* or still has to.                                                        *)
LEMMA CauseKept ==
    ASSUME IInv, Calm, Kept, Frozen,
           \A i \in Number : tasks'[i].state = "blocked" =>
              \/ tasks[i].state = "blocked"
              \/ \E d \in tasks[i].deps : tasks[d].state \in Blocking
    PROVE  \A i \in Number' : tasks'[i].state = "blocked" =>
              \E d \in tasks'[i].deps : tasks'[d].state \in Blocking
<1> SUFFICES ASSUME NEW i \in Number, tasks'[i].state = "blocked"
             PROVE  \E d \in tasks'[i].deps : tasks'[d].state \in Blocking
  BY DEF Kept, Number
<1>1. PICK d \in tasks[i].deps : tasks[d].state \in Blocking
  BY DEF Calm
<1>2. d \in Number /\ tasks[d].state \in Finished
  BY <1>1 DEF IInv, Blocking, Finished
<1> QED
  BY <1>1, <1>2 DEF Kept, Frozen

(* Steps that leave the tasks alone.                                       *)
LEMMA IdleTasks ==
    ASSUME tasks' = tasks
    PROVE  Kept /\ Frozen
  BY DEF Kept, Frozen, Number

(* Commands, and the ends of passes and runs.                              *)
LEMMA CalmAround ==
    ASSUME IInv, Calm, tasks' = tasks,
           \/ UNCHANGED <<runVars, tasks>>
           \/ Begin \/ Finish \/ Retry
           \/ \E i \in Number : SkipTask(i) \/ PostponeTask(i)
    PROVE  Calm'
<1>1. CASE UNCHANGED <<runVars, tasks>>
  BY <1>1 DEF Calm, Number, Waiting, runVars
<1>2. CASE Begin
  BY <1>2 DEF Begin, Calm, Number, Waiting, InState, IInv
<1>3. CASE Finish
  BY <1>3 DEF Finish, Calm, Number, Waiting
<1>4. CASE Retry
  BY <1>4 DEF Retry, Calm, Number, Waiting
<1>5. ASSUME NEW i \in Number, SkipTask(i) PROVE Calm'
  BY <1>5 DEF SkipTask, Reaches, Resolve, Calm, Number, Waiting, IInv
<1>6. ASSUME NEW i \in Number, PostponeTask(i) PROVE Calm'
  <2>1. PICK d \in tasks[i].deps : tasks[d].state \notin Blocking \union {"completed"}
    BY <1>6 DEF PostponeTask, Ready, Blocked
  <2>2. d \in Number /\ tasks[d].state \in {"pending", "running"}
    <3>1. d \in Number /\ tasks[d] \in Rec
      BY <1>6, <2>1 DEF IInv, Number
    <3> QED
      BY <2>1, <3>1 DEF Rec, TaskState, Finished, Blocking
  <2>3. runner = "scan" /\ i \in unresolved
    BY <1>6 DEF PostponeTask, Reaches
  <2>4. d \in unresolved
    BY <2>1, <2>2, <2>3 DEF Calm
  <2>5. \A j \in unresolved : j <= i => j <= at \/ j = i
    BY <1>6 DEF PostponeTask, Reaches, IInv, Calm, Number
  <2> QED
    BY <1>6, <2>1, <2>3, <2>4, <2>5 DEF PostponeTask, Calm, Number, Waiting, IInv
<1> QED
  BY <1>1, <1>2, <1>3, <1>4, <1>5, <1>6

(* A pass that has dealt with nothing does not end.                        *)
LEMMA CalmEndPass ==
    ASSUME IInv, CInv, Calm, EndPass
    PROVE  Calm'
<1>1. progress
  <2> SUFFICES ASSUME ~progress PROVE FALSE
    OBVIOUS
  <2>1. \A i \in unresolved : Waiting(i)
    BY DEF Calm, EndPass
  <2> QED
    BY <2>1, NoCircle DEF CInv, EndPass
<1>2. \A i \in unresolved : ~(i <= 0)
  BY DEF IInv, Number
<1> QED
  BY <1>1, <1>2 DEF EndPass, Calm, Number, Waiting

(* One task is dealt with, or begun: it was not finished.                  *)
LEMMA OneTaskKept ==
    ASSUME IInv, NEW i \in Number, NEW s \in TaskState, tasks' = Set(i, s),
           tasks[i].state \notin Finished,
           s \in {"running", "completed"} =>
               \A d \in tasks[i].deps : tasks[d].state = "completed"
    PROVE  /\ Kept /\ Frozen
           /\ \A j \in Number \ {i} : tasks'[j] = tasks[j]
           /\ tasks'[i].state = s
<1>1. /\ DOMAIN tasks' = Number
      /\ \A j \in Number : tasks'[j].deps = tasks[j].deps
      /\ \A j \in Number \ {i} : tasks'[j] = tasks[j]
      /\ tasks'[i].state = s
  BY SetKeepsTable DEF Finished
<1> QED
  BY <1>1 DEF Kept, Frozen

LEMMA CalmOneTask ==
    ASSUME IInv,
           \/ \E i \in Number : BlockTask(i) \/ StartTask(i)
           \/ Succeed \/ Fail
    PROVE  Kept /\ Frozen /\ (Calm => Calm')
<1>1. ASSUME NEW i \in Number, BlockTask(i)
      PROVE  Kept /\ Frozen /\ (Calm => Calm')
  <2>1. /\ tasks' = Set(i, "blocked") /\ "blocked" \in TaskState
        /\ tasks[i].state = "pending" /\ tasks[i].state \notin Finished
        /\ runner = "scan" /\ runner' = "scan"
        /\ unresolved' = unresolved \ {i} /\ progress' = TRUE /\ at' = i
        /\ \E d \in tasks[i].deps : tasks[d].state \in Blocking
    BY <1>1 DEF BlockTask, Reaches, Resolve, TaskState, Finished, Blocked
  <2>2. /\ Kept /\ Frozen
        /\ \A j \in Number \ {i} : tasks'[j] = tasks[j]
        /\ tasks'[i].state = "blocked"
    BY <2>1, OneTaskKept
  <2>3. ASSUME Calm PROVE Calm'
    <3>1. \A j \in Number' : tasks'[j].state = "blocked" =>
             \E d \in tasks'[j].deps : tasks'[d].state \in Blocking
      BY <2>1, <2>2, <2>3, CauseKept
    <3> QED
      BY <2>1, <2>2, <2>3, <3>1 DEF Calm, IInv, Number, Kept
  <2> QED
    BY <2>2, <2>3
<1>2. ASSUME NEW i \in Number, StartTask(i)
      PROVE  Kept /\ Frozen /\ (Calm => Calm')
  <2>1. /\ tasks' = Set(i, "running") /\ "running" \in TaskState
        /\ tasks[i].state \notin Finished
        /\ \A d \in tasks[i].deps : tasks[d].state = "completed"
        /\ runner = "scan" /\ runner' = "attempt" /\ at' = i /\ i \in unresolved
        /\ unresolved' = unresolved
    BY <1>2 DEF StartTask, Reaches, Ready, TaskState, Finished
  <2>2. /\ Kept /\ Frozen
        /\ \A j \in Number \ {i} : tasks'[j] = tasks[j]
        /\ tasks'[i].state = "running"
    BY <2>1, OneTaskKept
  <2>3. ASSUME Calm PROVE Calm'
    <3>1. \A j \in Number' : tasks'[j].state = "blocked" =>
             \E d \in tasks'[j].deps : tasks'[d].state \in Blocking
      BY <2>1, <2>2, <2>3, CauseKept
    <3> QED
      BY <2>1, <2>2, <2>3, <3>1 DEF Calm, IInv, Number, Kept
  <2> QED
    BY <2>2, <2>3
<1>3. ASSUME NEW s \in {"completed", "failed"}, tasks' = Set(at, s),
             runner = "dispatched", runner' = "scan", Resolve(at)
      PROVE  Kept /\ Frozen /\ (Calm => Calm')
  <2>1. /\ at \in Number /\ tasks[at].state = "running" /\ s \in TaskState
        /\ tasks[at].state \notin Finished
        /\ \A d \in tasks[at].deps : tasks[d].state = "completed"
        /\ unresolved' = unresolved \ {at} /\ progress' = TRUE /\ at' = at
    BY <1>3 DEF IInv, DependenciesFirst, TaskState, Finished, Resolve
  <2>2. /\ Kept /\ Frozen
        /\ \A j \in Number \ {at} : tasks'[j] = tasks[j]
        /\ tasks'[at].state = s
    BY <1>3, <2>1, OneTaskKept
  <2>3. ASSUME Calm PROVE Calm'
    <3>1. \A j \in Number' : tasks'[j].state = "blocked" =>
             \E d \in tasks'[j].deps : tasks'[d].state \in Blocking
      BY <2>1, <2>2, <2>3, CauseKept
    <3> QED
      BY <1>3, <2>1, <2>2, <2>3, <3>1 DEF Calm, IInv, Number, Kept
  <2> QED
    BY <2>2, <2>3
<1>4. CASE Succeed
  BY <1>3, <1>4 DEF Succeed
<1>5. CASE Fail
  BY <1>3, <1>5 DEF Fail
<1> QED
  BY <1>1, <1>2, <1>4, <1>5

(* Counting an attempt changes no state.                                   *)
LEMMA CalmAttempt ==
    ASSUME IInv, Attempt
    PROVE  Kept /\ Frozen /\ (Calm => Calm')
<1>1. /\ tasks \in Seq(Rec) /\ at \in 1..Len(tasks) /\ tasks[at] \in Rec
      /\ tasks[at].state = "running"
  BY DEF IInv, Attempt, Number
<1> DEFINE r == [tasks[at] EXCEPT !.attempts = @ + 1]
<1>2. tasks' = [tasks EXCEPT ![at] = r]
  BY DEF Attempt
<1>3. r.deps = tasks[at].deps /\ r.state = "running"
  BY <1>1 DEF Rec
<1> HIDE DEF r
<1>4. /\ DOMAIN tasks' = Number
      /\ tasks'[at] = r
      /\ \A j \in Number \ {at} : tasks'[j] = tasks[j]
  BY <1>1, <1>2 DEF Number
<1>5. Kept /\ Frozen
  BY <1>1, <1>3, <1>4 DEF Kept, Frozen, Finished
<1>6. \A j \in Number : tasks'[j].state = tasks[j].state
  BY <1>1, <1>3, <1>4
<1> QED
  BY <1>5, <1>6 DEF Calm, Waiting, Kept, Number, Attempt, IInv

(* What is left when a run gives up had not completed.                     *)
LEMMA BlockRestKept ==
    ASSUME IInv, BlockRest
    PROVE  Kept
<1>1. Untouched(unresolved \intersect Number) /\ "blocked" \in Blocking
  BY DEF IInv, BlockRest, Untouched, Blocking
<1> QED
  BY <1>1, SetAllKeepsTable DEF BlockRest, Kept

LEMMA CalmCancel ==
    ASSUME IInv, NEW i \in Number, Cancel(i)
    PROVE  Kept /\ Frozen /\ (Calm => Calm')
<1>1. PICK targets \in {{i}, Dependents(i)} :
         tasks' = [j \in Number |-> IF j \in targets
                                    THEN [tasks[j] EXCEPT !.state = "cancelled"]
                                    ELSE tasks[j]]
  BY DEF Cancel
<1>2. \A j \in targets : j \in Number /\ tasks[j].state = "pending"
  BY DEF Cancel, Cancellable, Dependents, InState
<1>3. Untouched(targets \intersect Number) /\ "cancelled" \in Blocking
  BY <1>2 DEF Untouched, Blocking
<1>4. /\ DOMAIN tasks' = Number
      /\ \A j \in Number : tasks'[j].deps = tasks[j].deps
      /\ \A j \in Number \ targets : tasks'[j] = tasks[j]
      /\ \A j \in Number \intersect targets : tasks'[j].state = "cancelled"
  BY <1>1, <1>3, SetAllKeepsTable
<1>5. Kept /\ Frozen
  BY <1>2, <1>4 DEF Kept, Frozen, Finished
<1>6. ASSUME Calm PROVE Calm'
  <2>1. \A j \in Number' : tasks'[j].state = "blocked" =>
           \E d \in tasks'[j].deps : tasks'[d].state \in Blocking
    BY <1>4, <1>5, <1>6, CauseKept
  <2>2. UNCHANGED <<unresolved, runner, at, progress>>
    BY DEF Cancel, runVars
  <2> QED
    BY <1>4, <1>6, <2>1, <2>2 DEF Calm, Waiting, IInv, Number
<1> QED
  BY <1>5, <1>6

(* A new plan is about new tasks: nothing old depends on them.             *)
LEMMA CalmSubmit ==
    ASSUME IInv, CInv, SubmitPlan
    PROVE  Frozen /\ CInv'
<1> DEFINE old == Len(tasks)
<1>1. PICK m \in 1..(MaxTasks - old), max \in 1..MaxAttempts :
         \E deps \in [(old + 1)..(old + m) -> SUBSET (1..(old + m))] :
            /\ Acyclic([i \in 1..(old + m) |->
                        IF i <= old THEN tasks[i].deps ELSE deps[i]])
            /\ tasks' = tasks \o [k \in 1..m |->
                        [deps |-> deps[old + k], max |-> max,
                         state |-> "pending", attempts |-> 0]]
            /\ UNCHANGED <<runVars, cut>>
  BY DEF SubmitPlan
<1>2. PICK deps \in [(old + 1)..(old + m) -> SUBSET (1..(old + m))] :
            /\ Acyclic([i \in 1..(old + m) |->
                        IF i <= old THEN tasks[i].deps ELSE deps[i]])
            /\ tasks' = tasks \o [k \in 1..m |->
                        [deps |-> deps[old + k], max |-> max,
                         state |-> "pending", attempts |-> 0]]
            /\ UNCHANGED <<runVars, cut>>
  BY <1>1
<1> DEFINE new == [k \in 1..m |-> [deps |-> deps[old + k], max |-> max,
                                   state |-> "pending", attempts |-> 0]]
<1>3. tasks \in Seq(Rec) /\ old \in Nat /\ m \in Nat /\ Number = 1..old
  BY OrchestratorAssumption DEF IInv, Number
<1>4. new \in Seq(Rec) /\ Len(new) = m
  <2>1. \A k \in 1..m : [deps |-> deps[old + k], max |-> max,
                          state |-> "pending", attempts |-> 0] \in Rec
    BY <1>3, OrchestratorAssumption DEF Rec, TaskState
  <2>2. new \in [1..m -> Rec]
    BY <2>1
  <2> HIDE DEF new
  <2> QED
    BY <1>3, <2>2
<1>5. \A k \in 1..m : new[k].deps = deps[old + k] /\ new[k].state = "pending"
  OBVIOUS
<1> HIDE DEF new
<1>6. /\ tasks' \in Seq(Rec)
      /\ Len(tasks') = old + m
      /\ \A i \in 1..(old + m) : tasks'[i] = IF i <= old THEN tasks[i] ELSE new[i - old]
  BY <1>2, <1>3, <1>4, ConcatProperties DEF new
<1>7. /\ DOMAIN tasks' = 1..(old + m)
      /\ \A i \in 1..old : tasks'[i] = tasks[i]
  BY <1>3, <1>6
<1>8. \A i \in 1..(old + m) : ~(i <= old) =>
         tasks'[i].deps = deps[i] /\ tasks'[i].state = "pending"
  <2> SUFFICES ASSUME NEW i \in 1..(old + m), ~(i <= old)
               PROVE  tasks'[i].deps = deps[i] /\ tasks'[i].state = "pending"
    OBVIOUS
  <2>1. i - old \in 1..m /\ tasks'[i] = new[i - old] /\ old + (i - old) = i
    BY <1>3, <1>6
  <2> QED
    BY <2>1, <1>5
<1>9. Frozen
  BY <1>3, <1>7 DEF Frozen
<1>10. Acyclic(Deps)'
  <2>1. Deps' = [i \in 1..(old + m) |-> IF i <= old THEN tasks[i].deps ELSE deps[i]]
    BY <1>3, <1>7, <1>8 DEF Deps, Number
  <2> QED
    BY <1>2, <2>1 DEF Acyclic
<1>11. ASSUME Calm PROVE Calm'
  <2>1. UNCHANGED <<unresolved, runner, at, progress>>
    BY <1>2 DEF runVars
  <2>2. \A i \in 1..old : tasks[i].deps \subseteq 1..old
    BY <1>3 DEF IInv
  <2>3. unresolved \subseteq 1..old /\ (runner \in {"attempt", "dispatched"} => at \in 1..old)
    BY <1>3 DEF IInv
  <2>4. \A i \in 1..(old + m) : tasks'[i].state # "pending" => i \in 1..old
    BY <1>3, <1>8
  <2>5. \A i \in Number' : tasks'[i].state = "running" =>
           runner' \in {"attempt", "dispatched"} /\ i = at'
    BY <1>3, <1>7, <1>11, <2>1, <2>4 DEF Calm, Number
  <2>6. \A i \in Number' : tasks'[i].state = "blocked" =>
           \E d \in tasks'[i].deps : tasks'[d].state \in Blocking
    BY <1>3, <1>7, <1>11, <2>2, <2>4 DEF Calm, Number
  <2> QED
    BY <1>3, <1>7, <1>11, <2>1, <2>2, <2>3, <2>5, <2>6 DEF Calm, Waiting
<1> QED
  BY <1>2, <1>9, <1>10, <1>11 DEF CInv

(* What an exception that escapes leaves running is not the run's any more.*)
LEMMA CauseStep == IInv /\ CInv /\ [Next]_vars => CInv' /\ (cut \/ Frozen)
<1> SUFFICES ASSUME IInv, CInv, [Next]_vars PROVE CInv' /\ (cut \/ Frozen)
  OBVIOUS
<1>1. CASE SubmitPlan
  BY <1>1, CalmSubmit
<1>2. ASSUME NEW i \in Number, Cancel(i) PROVE CInv' /\ (cut \/ Frozen)
  BY <1>2, CalmCancel, KeptAcyclic DEF CInv, Cancel
<1>3. CASE Escape
  BY <1>3, IdleTasks, KeptAcyclic DEF CInv, Escape
<1>4. CASE EndPass
  BY <1>4, CalmEndPass, IdleTasks, KeptAcyclic DEF CInv, EndPass
<1>5. CASE \/ Start \/ Stop \/ BeginRefused \/ Begin \/ Finish \/ Retry
           \/ \E i \in Number : SkipTask(i) \/ PostponeTask(i)
           \/ UNCHANGED vars
  <2>1. /\ UNCHANGED <<tasks, cut>>
        /\ \/ UNCHANGED <<runVars, tasks>>
           \/ Begin \/ Finish \/ Retry
           \/ \E i \in Number : SkipTask(i) \/ PostponeTask(i)
    BY <1>5 DEF Start, Stop, BeginRefused, Begin, Finish, Retry, SkipTask, PostponeTask,
                vars, runVars
  <2> QED
    BY <2>1, CalmAround, IdleTasks, KeptAcyclic DEF CInv
<1>6. CASE \/ \E i \in Number : BlockTask(i) \/ StartTask(i)
           \/ Succeed \/ Fail
  BY <1>6, CalmOneTask, KeptAcyclic
     DEF CInv, BlockTask, StartTask, Succeed, Fail
<1>7. CASE Attempt
  BY <1>7, CalmAttempt, KeptAcyclic DEF CInv, Attempt
<1>8. CASE BlockRest
  BY <1>8, BlockRestKept, KeptAcyclic DEF CInv, Calm, BlockRest
<1> QED
  BY <1>1, <1>2, <1>3, <1>4, <1>5, <1>6, <1>7, <1>8 DEF Next, RunStep

LEMMA CauseInvariance == Spec => [](IInv /\ CInv)
<1>1. Init => IInv /\ CInv
  <2> SUFFICES ASSUME Init PROVE IInv /\ CInv
    OBVIOUS
  <2>1. IInv
    BY DEF Init, IInv, DependenciesFirst, Untouched, Number
  <2>2. Acyclic(Deps)
    <3>1. DOMAIN Deps = {}
      BY DEF Init, Deps, Number
    <3>2. [i \in {} |-> i] \in [DOMAIN Deps -> DOMAIN Deps]
      BY <3>1
    <3> QED
      BY <3>1, <3>2 DEF Acyclic
  <2>3. Calm
    BY DEF Init, Calm, Number
  <2> QED
    BY <2>1, <2>2, <2>3 DEF CInv
<1>2. IInv /\ CInv /\ [Next]_vars => (IInv /\ CInv)'
  BY StepPreserves, CauseStep
<1> QED
  BY <1>1, <1>2, PTL DEF Spec

(* In every execution a blocked task has a cause: something it depends on  *)
(* failed, was blocked or was cancelled, or an exception cut a run short   *)
(* (orchestrator.py:610).                                                  *)
THEOREM AlwaysBlockedForCause == Spec => []BlockedForCause
<1>1. CInv => BlockedForCause
  BY DEF CInv, Calm, BlockedForCause, InState
<1> QED
  BY <1>1, CauseInvariance, PTL

(* The stall ("dependencies did not resolve", orchestrator.py:658) is never*)
(* reached, unless an exception has cut a run short before.                *)
THEOREM NeverStalls == Spec => [](runner = "stalled" => cut)
<1>1. CInv => (runner = "stalled" => cut)
  BY DEF CInv, Calm
<1> QED
  BY <1>1, CauseInvariance, PTL

(* In every execution a finished task stays as it is, until an exception   *)
(* has cut a run short.                                                    *)
THEOREM FinishedAlwaysStays == Spec => FinishedStays
<1>1. IInv /\ CInv /\ [Next]_vars =>
         [cut \/ \A i \in Number : tasks[i].state \in Finished => tasks'[i] = tasks[i]]_vars
  BY CauseStep DEF Frozen
<1> QED
  BY <1>1, CauseInvariance, PTL DEF Spec, FinishedStays

-----------------------------------------------------------------------------
(* Every step of the composition is a step of the orchestrator, or the     *)
(* orchestrator does not see it.                                           *)
LEMMA StepImplements == [ONext]_allVars => [Next]_vars
<1> SUFFICES ASSUME [ONext]_allVars PROVE [Next]_vars
  OBVIOUS
<1>1. CASE Command
  BY <1>1 DEF Command, Next
<1>2. CASE Scan
  BY <1>2 DEF Scan, Next, RunStep
<1>3. CASE Ask
  BY <1>3 DEF Ask
<1>4. CASE Return
  BY <1>4 DEF Return, Next, RunStep
<1>5. ASSUME NEW s \in Subjects,
             Decide(s, "approved") \/ Decide(s, "denied") \/ Clear(s)
      PROVE  UNCHANGED vars
  BY <1>5 DEF Decide, Clear
<1>6. CASE UNCHANGED allVars
  BY <1>6 DEF allVars
<1> QED
  BY <1>1, <1>2, <1>3, <1>4, <1>5, <1>6 DEF ONext, ORunStep

(* The orchestrator with the gate implements the orchestrator alone.       *)
THEOREM Implements == OSpec => Spec
<1>1. OInit => Init
  BY DEF OInit
<1>2. [ONext]_allVars => [Next]_vars
  BY StepImplements
<1> QED
  BY <1>1, <1>2, PTL DEF OSpec, Spec

-----------------------------------------------------------------------------
(* Nothing stands for the attempts still to come, nor for the one under    *)
(* way until it has asked.                                                 *)
Ahead(s) ==
    \/ s[1] \notin Number
    \/ s[2] > tasks[s[1]].attempts
    \/ /\ s = Subject(at)
       /\ runner = "dispatched" /\ answer = "none"

GInv ==
    /\ standing \in [Subjects -> {"none", "pending", "approved", "denied"}]
    /\ \A s \in Subjects : Ahead(s) => standing[s] = "none"
    /\ answer \in {"none", "refused"}
    /\ ApprovalComesTooLate

(* What the orchestrator's steps do to what GInv looks at: the attempts of *)
(* a task only grow, and it is completed only by a dispatch.               *)
LEMMA QuietStep ==
    ASSUME IInv, GInv, UNCHANGED gateVars,
           Number \subseteq Number',
           \A i \in Number : tasks'[i].attempts = tasks[i].attempts,
           \A i \in Number' \ Number : tasks'[i].state # "completed",
           \A i \in Number : tasks'[i].state = "completed" => tasks[i].state = "completed",
           runner' = "dispatched" => runner = "dispatched" /\ at' = at
    PROVE  GInv'
<1>1. ASSUME NEW s \in Subjects, Ahead(s)'
      PROVE  Ahead(s)
  <2>1. CASE s[1] \notin Number
    BY <2>1 DEF Ahead
  <2>2. CASE s[1] \in Number
    <3>1. tasks'[s[1]].attempts = tasks[s[1]].attempts /\ s[1] \in Number'
      BY <2>2
    <3>2. CASE s[2] > tasks'[s[1]].attempts
      BY <3>1, <3>2 DEF Ahead
    <3>3. CASE s = Subject(at)' /\ runner' = "dispatched" /\ answer' = "none"
      <4>1. at \in Number /\ at' = at /\ runner = "dispatched" /\ answer = "none"
        BY <3>3 DEF IInv, gateVars
      <4>2. Subject(at)' = Subject(at)
        BY <4>1 DEF Subject
      <4> QED
        BY <3>3, <4>1, <4>2 DEF Ahead
    <3> QED
      BY <1>1, <3>1, <3>2, <3>3 DEF Ahead
  <2> QED
    BY <2>1, <2>2
<1>2. ApprovalComesTooLate'
  <2>1. \A i \in Number' : tasks'[i].state = "completed" =>
           i \in Number /\ tasks[i].state = "completed"
    OBVIOUS
  <2> QED
    BY <2>1 DEF GInv, ApprovalComesTooLate, gateVars
<1> QED
  BY <1>1, <1>2 DEF GInv, gateVars, Subjects

-----------------------------------------------------------------------------
(* The tasks keep their attempts and are not completed.                    *)
LEMMA SetIsQuiet ==
    ASSUME IInv, NEW i \in Number, NEW s \in TaskState, tasks' = Set(i, s)
    PROVE  /\ Number' = Number
           /\ \A j \in Number : tasks'[j].attempts = tasks[j].attempts
           /\ \A j \in Number \ {i} : tasks'[j] = tasks[j]
           /\ tasks'[i].state = s
<1>1. tasks \in Seq(Rec) /\ i \in 1..Len(tasks) /\ tasks[i] \in Rec
  BY DEF IInv, Number
<1>2. tasks' = [tasks EXCEPT ![i] = [tasks[i] EXCEPT !.state = s]]
  BY DEF Set
<1>3. /\ [tasks[i] EXCEPT !.state = s].state = s
      /\ [tasks[i] EXCEPT !.state = s].attempts = tasks[i].attempts
  BY <1>1 DEF Rec
<1>4. /\ Number' = Number
      /\ tasks'[i] = [tasks[i] EXCEPT !.state = s]
      /\ \A j \in Number \ {i} : tasks'[j] = tasks[j]
  BY <1>1, <1>2 DEF Number
<1> QED
  BY <1>3, <1>4

LEMMA SetAllIsQuiet ==
    ASSUME IInv, NEW T, NEW s \in {"blocked", "cancelled"},
           tasks' = [j \in Number |-> IF j \in T
                                      THEN [tasks[j] EXCEPT !.state = s]
                                      ELSE tasks[j]]
    PROVE  /\ Number' = Number
           /\ \A j \in Number : tasks'[j].attempts = tasks[j].attempts
           /\ \A j \in Number : tasks'[j].state = "completed" => tasks[j].state = "completed"
<1>1. \A j \in Number : tasks[j] \in Rec
  BY DEF IInv, Number
<1>2. /\ Number' = Number
      /\ \A j \in Number \ T : tasks'[j] = tasks[j]
      /\ \A j \in Number \intersect T : tasks'[j] = [tasks[j] EXCEPT !.state = s]
  BY DEF Number
<1>3. \A j \in Number \intersect T : tasks'[j].attempts = tasks[j].attempts /\ tasks'[j].state = s
  BY <1>1, <1>2 DEF Rec
<1> QED
  BY <1>2, <1>3

LEMMA SubmitIsQuiet ==
    ASSUME IInv, SubmitPlan
    PROVE  /\ Number \subseteq Number'
           /\ \A i \in Number : tasks'[i] = tasks[i]
           /\ \A i \in Number' \ Number : tasks'[i].state # "completed"
           /\ runner' = runner /\ at' = at
<1>1. PICK m \in 1..(MaxTasks - Len(tasks)), max \in 1..MaxAttempts :
         \E deps \in [(Len(tasks) + 1)..(Len(tasks) + m) -> SUBSET (1..(Len(tasks) + m))] :
            /\ tasks' = tasks \o [k \in 1..m |->
                        [deps |-> deps[Len(tasks) + k], max |-> max,
                         state |-> "pending", attempts |-> 0]]
            /\ UNCHANGED runVars
  BY DEF SubmitPlan
<1>2. PICK deps : tasks' = tasks \o [k \in 1..m |->
                        [deps |-> deps[Len(tasks) + k], max |-> max,
                         state |-> "pending", attempts |-> 0]]
  BY <1>1
<1> DEFINE new == [k \in 1..m |-> [deps |-> deps[Len(tasks) + k], max |-> max,
                                   state |-> "pending", attempts |-> 0]]
<1>3. tasks \in Seq(Rec) /\ Len(tasks) \in Nat /\ m \in Nat /\ Number = 1..Len(tasks)
  BY OrchestratorAssumption DEF IInv, Number
<1>4. \A k \in 1..m : new[k].state = "pending"
  OBVIOUS
<1> DEFINE S == {new[k] : k \in 1..m}
<1>5. new \in [1..m -> S]
  OBVIOUS
<1> HIDE DEF new, S
<1>6. new \in Seq(S) /\ Len(new) = m
  BY <1>3, <1>5
<1>7. /\ \A i \in 1..(Len(tasks) + m) :
            tasks'[i] = IF i <= Len(tasks) THEN tasks[i] ELSE new[i - Len(tasks)]
      /\ Number' = 1..(Len(tasks) + m)
  BY <1>2, <1>3, <1>6, ConcatProperties DEF new, Number
<1>8. ASSUME NEW i \in Number' \ Number
      PROVE  tasks'[i].state # "completed"
  <2>1. i - Len(tasks) \in 1..m /\ tasks'[i] = new[i - Len(tasks)]
    BY <1>3, <1>7
  <2> QED
    BY <1>4, <2>1
<1>9. Number \subseteq Number' /\ \A i \in Number : tasks'[i] = tasks[i]
  BY <1>3, <1>7
<1> QED
  BY <1>1, <1>8, <1>9 DEF runVars

(* Commands from outside of the run. *)
LEMMA CommandStep ==
    ASSUME IInv, GInv, Command
    PROVE  GInv'
<1>1. CASE Start \/ Stop \/ BeginRefused \/ Begin
  BY <1>1, QuietStep DEF Start, Stop, BeginRefused, Begin, runVars, Command, Number
<1>2. CASE SubmitPlan
  BY <1>2, SubmitIsQuiet, QuietStep DEF Command
<1>3. ASSUME NEW i \in Number, Cancel(i)
      PROVE  GInv'
  <2>1. PICK targets : tasks' = [j \in Number |-> IF j \in targets
                                      THEN [tasks[j] EXCEPT !.state = "cancelled"]
                                      ELSE tasks[j]]
    BY <1>3 DEF Cancel
  <2>2. runner' = runner /\ at' = at
    BY <1>3 DEF Cancel, runVars
  <2> QED
    BY <2>1, <2>2, SetAllIsQuiet, QuietStep DEF Command
<1> QED
  BY <1>1, <1>2, <1>3 DEF Command

(* Steps of the run between dispatches, and the one that begins one.       *)
LEMMA ScanStep ==
    ASSUME IInv, AInv, GInv, Scan
    PROVE  GInv'
<1>1. UNCHANGED gateVars
  BY DEF Scan
<1>2. CASE EndPass \/ Finish \/ \E i \in Number : SkipTask(i) \/ PostponeTask(i)
  BY <1>1, <1>2, QuietStep DEF EndPass, Finish, SkipTask, PostponeTask, Reaches, Number
<1>3. ASSUME NEW i \in Number, BlockTask(i) \/ StartTask(i)
      PROVE  GInv'
  <2>1. PICK s \in {"blocked", "running"} : tasks' = Set(i, s)
    BY <1>3 DEF BlockTask, StartTask
  <2>2. s \in TaskState /\ s # "completed"
    BY <2>1 DEF TaskState, Finished
  <2>3. runner' # "dispatched"
    BY <1>3 DEF BlockTask, StartTask, Reaches
  <2> QED
    BY <1>1, <2>1, <2>2, <2>3, SetIsQuiet, QuietStep
<1>4. CASE BlockRest
  BY <1>1, <1>4, SetAllIsQuiet, QuietStep DEF BlockRest
<1>5. CASE Attempt
  <2>0. tasks \in Seq(Rec) /\ at \in 1..Len(tasks) /\ tasks[at] \in Rec
    BY <1>5 DEF IInv, Attempt, Number
  <2>1. /\ tasks \in Seq(Rec) /\ at \in 1..Len(tasks) /\ tasks[at] \in Rec
        /\ tasks[at].attempts \in Nat
    BY <2>0 DEF Rec
  <2> DEFINE r == [tasks[at] EXCEPT !.attempts = tasks[at].attempts + 1]
  <2>2. r.state = tasks[at].state /\ r.attempts = tasks[at].attempts + 1
    BY <2>1 DEF Rec
  <2>3. tasks' = [tasks EXCEPT ![at] = r] /\ at' = at
    BY <1>5 DEF Attempt
  <2> HIDE DEF r
  <2>4. /\ Number' = Number /\ at \in Number
        /\ tasks'[at] = r
        /\ \A j \in Number \ {at} : tasks'[j] = tasks[j]
    BY <2>1, <2>3 DEF Number
  <2>5. ASSUME NEW s \in Subjects, Ahead(s)'
        PROVE  Ahead(s)
    <3>1. CASE s = Subject(at)'
      <4>1. s[1] = at /\ s[2] = tasks[at].attempts + 1
        BY <2>2, <2>3, <2>4, <3>1 DEF Subject
      <4> QED
        BY <2>1, <4>1 DEF Ahead
    <3>2. CASE s # Subject(at)' /\ s[1] = at
      <4>1. s[2] > tasks[at].attempts + 1
        BY <2>2, <2>3, <2>4, <2>5, <3>2 DEF Ahead
      <4>2. s[2] > tasks[at].attempts
        BY <2>1, <4>1 DEF Subjects
      <4> QED
        BY <3>2, <4>2 DEF Ahead
    <3>3. CASE s # Subject(at)' /\ s[1] # at
      BY <2>4, <2>5, <3>3 DEF Ahead
    <3> QED
      BY <3>1, <3>2, <3>3
  <2>6. \A i \in Number' : tasks'[i].state = "completed" => tasks[i].state = "completed"
    BY <2>2, <2>4
  <2>7. ApprovalComesTooLate'
    BY <1>1, <2>4, <2>6 DEF GInv, ApprovalComesTooLate, gateVars
  <2> QED
    BY <1>1, <2>5, <2>7 DEF GInv, gateVars, Subjects
<1> QED
  BY <1>2, <1>3, <1>4, <1>5 DEF Scan

(* The gate is asked about a request that it does not know.                *)
LEMMA AskStep ==
    ASSUME IInv, AInv, GInv, Ask
    PROVE  GInv'
<1> DEFINE s == Subject(at)
<1>1. at \in Number /\ at \in Protected /\ s \in Subjects
  <2>1. at \in Number /\ at \in Protected /\ Sound(tasks[at]) /\ tasks[at].attempts > 0
    BY DEF Ask, IInv, AInv
  <2>2. tasks[at].attempts \in 1..MaxAttempts
    BY <2>1, OrchestratorAssumption DEF Sound
  <2> QED
    BY <2>1, <2>2 DEF Subject, Subjects
<1>2. standing[s] = "none"
  BY <1>1 DEF GInv, Ahead, Ask
<1>3. /\ answer' = "refused" /\ uses' = uses
      /\ standing' = [standing EXCEPT ![s] = "pending"]
      /\ UNCHANGED vars
  BY <1>1, <1>2 DEF Ask, GInv
<1>4. Number' = Number /\ UNCHANGED <<tasks, at, runner>>
  BY <1>3 DEF vars, runVars, Number
<1>5. ASSUME NEW q \in Subjects, Ahead(q)'
      PROVE  Ahead(q) /\ q # s
  <2>1. q[1] \notin Number \/ q[2] > tasks[q[1]].attempts
    BY <1>3, <1>4, <1>5 DEF Ahead
  <2>2. s[1] \in Number /\ ~(s[2] > tasks[s[1]].attempts)
    <3>1. tasks[at] \in Rec
      BY <1>1 DEF IInv, Number
    <3>2. tasks[at].attempts \in Nat
      BY <3>1 DEF Rec
    <3> QED
      BY <1>1, <3>2 DEF Subject
  <2> QED
    BY <2>1, <2>2 DEF Ahead
<1> HIDE DEF s
<1>6. \A q \in Subjects : Ahead(q)' => standing'[q] = "none"
  BY <1>3, <1>5 DEF GInv
<1>7. standing' \in [Subjects -> {"none", "pending", "approved", "denied"}]
  BY <1>3 DEF GInv
<1>8. ApprovalComesTooLate'
  BY <1>3, <1>4 DEF GInv, ApprovalComesTooLate
<1> QED
  BY <1>3, <1>6, <1>7, <1>8 DEF GInv, Subjects

(* No dispatch of a protected task returns with success.                   *)
LEMMA ReturnStep ==
    ASSUME IInv, GInv, Return
    PROVE  GInv'
<1>1. answer' = "none" /\ standing' = standing /\ uses' = uses /\ at \in Number
      /\ runner' # "dispatched"
  BY DEF Return, Succeed, Retry, Fail, Escape, IInv
<1>2. /\ Number' = Number
      /\ \A j \in Number : tasks'[j].attempts = tasks[j].attempts
      /\ \A j \in Number : tasks'[j].state = "completed" =>
            tasks[j].state = "completed" \/ j \notin Protected
  <2>1. CASE Allowed /\ Succeed
    <3>1. at \notin Protected
      BY <2>1 DEF Allowed, GInv
    <3>2. tasks' = Set(at, "completed") /\ "completed" \in TaskState
      BY <2>1 DEF Succeed, TaskState, Finished
    <3> QED
      BY <1>1, <3>1, <3>2, SetIsQuiet
  <2>2. CASE Fail
    <3>1. tasks' = Set(at, "failed") /\ "failed" \in TaskState
      BY <2>2 DEF Fail, TaskState, Finished
    <3> QED
      BY <1>1, <3>1, SetIsQuiet
  <2>3. CASE Retry \/ Escape
    BY <2>3 DEF Retry, Escape, Number
  <2> QED
    BY <2>1, <2>2, <2>3 DEF Return
<1>3. ASSUME NEW s \in Subjects, Ahead(s)'
      PROVE  Ahead(s)
  BY <1>1, <1>2, <1>3 DEF Ahead
<1>4. ApprovalComesTooLate'
  BY <1>1, <1>2 DEF GInv, ApprovalComesTooLate
<1> QED
  BY <1>1, <1>3, <1>4 DEF GInv, Subjects

(* The owner and the clock act on what stands.                             *)
LEMMA OwnerStep ==
    ASSUME GInv, NEW s \in Subjects,
           Decide(s, "approved") \/ Decide(s, "denied") \/ Clear(s)
    PROVE  GInv'
<1>1. PICK v \in {"none", "approved", "denied"} : standing' = [standing EXCEPT ![s] = v]
  BY DEF Decide, Clear
<1>2. /\ standing[s] = "none" => v = "none"
      /\ UNCHANGED <<vars, answer, uses>>
  BY <1>1 DEF Decide, Clear, GInv
<1>3. UNCHANGED <<tasks, at, runner, answer, uses>> /\ Number' = Number
  BY <1>2 DEF vars, runVars, Number
<1>4. \A q \in Subjects : Ahead(q)' => Ahead(q)
  BY <1>3 DEF Ahead, Subject
<1>5. \A q \in Subjects : Ahead(q)' => standing'[q] = "none"
  BY <1>1, <1>2, <1>4 DEF GInv
<1>6. standing' \in [Subjects -> {"none", "pending", "approved", "denied"}]
  BY <1>1 DEF GInv
<1> QED
  BY <1>3, <1>5, <1>6 DEF GInv, ApprovalComesTooLate, Subjects

-----------------------------------------------------------------------------
LEMMA GateStep == IInv /\ AInv /\ GInv /\ [ONext]_allVars => GInv'
<1> SUFFICES ASSUME IInv, AInv, GInv, [ONext]_allVars PROVE GInv'
  OBVIOUS
<1>1. CASE UNCHANGED allVars
  BY <1>1, QuietStep DEF allVars, vars, runVars, Number
<1> QED
  BY <1>1, CommandStep, ScanStep, AskStep, ReturnStep, OwnerStep DEF ONext, ORunStep

(* For every plan, every number of attempts and every choice of protected  *)
(* tasks: no approval is ever consumed, and no protected task completes.   *)
THEOREM ApprovalsAlwaysTooLate == OSpec => []ApprovalComesTooLate
<1>1. OInit => IInv /\ AInv /\ GInv
  <2>1. OInit => IInv /\ AInv
    BY DEF OInit, Init, IInv, AInv, DependenciesFirst, Untouched, Number
  <2>2. OInit => GInv
    BY DEF OInit, Init, GInv, ApprovalComesTooLate, Number
  <2> QED
    BY <2>1, <2>2
<1>2. IInv /\ AInv /\ GInv /\ [ONext]_allVars => (IInv /\ AInv /\ GInv)'
  BY StepImplements, StepPreserves, AttemptsStep, GateStep
<1>3. GInv => ApprovalComesTooLate
  BY DEF GInv
<1> QED
  BY <1>1, <1>2, <1>3, PTL DEF OSpec

-----------------------------------------------------------------------------
(* What a run has dealt with is finished, whatever exception cut it short; *)
(* where the run is, it has something to do there.                         *)
RInv ==
    /\ runner \in {"idle", "scan", "stalled", "attempt", "dispatched"}
    /\ progress \in BOOLEAN /\ at \in Nat
    /\ ids \subseteq Number
    /\ runner \in {"attempt", "dispatched"} => at \in unresolved
    /\ runner = "stalled" => unresolved # {} /\ ~progress
    /\ runner = "idle" => cut \/ unresolved = {}
    /\ \A i \in ids \ unresolved : tasks[i].state \in Finished

(* A plan comes after the tasks there are.                                 *)
LEMMA SubmitAppends ==
    ASSUME IInv, SubmitPlan
    PROVE  Number \subseteq Number' /\ \A i \in Number : tasks'[i] = tasks[i]
<1>1. PICK m \in 1..(MaxTasks - Len(tasks)), max \in 1..MaxAttempts :
         \E deps \in [(Len(tasks) + 1)..(Len(tasks) + m) -> SUBSET (1..(Len(tasks) + m))] :
            tasks' = tasks \o [k \in 1..m |->
                    [deps |-> deps[Len(tasks) + k], max |-> max,
                     state |-> "pending", attempts |-> 0]]
  BY DEF SubmitPlan
<1>2. PICK deps : tasks' = tasks \o [k \in 1..m |->
                    [deps |-> deps[Len(tasks) + k], max |-> max,
                     state |-> "pending", attempts |-> 0]]
  BY <1>1
<1>3. PICK new : new = [k \in 1..m |-> [deps |-> deps[Len(tasks) + k], max |-> max,
                                       state |-> "pending", attempts |-> 0]]
  OBVIOUS
<1>4. tasks \in Seq(Rec) /\ Len(tasks) \in Nat /\ m \in Nat /\ tasks' = tasks \o new
  BY <1>2, <1>3, OrchestratorAssumption DEF IInv
<1>5. new \in [1..m -> {new[k] : k \in 1..m}]
  BY <1>3
<1>6. new \in Seq({new[k] : k \in 1..m}) /\ Len(new) = m
  <2>1. m \in Nat
    BY <1>4
  <2>2. PICK V : V = {new[k] : k \in 1..m}
    OBVIOUS
  <2>3. new \in [1..m -> V]
    BY <1>5, <2>2
  <2>4. new \in Seq(V) /\ Len(new) = m
    BY <2>1, <2>3
  <2> QED
    BY <2>2, <2>4
<1>a. PICK S : S = Rec \union {new[k] : k \in 1..m}
  OBVIOUS
<1>7. tasks \in Seq(S) /\ new \in Seq(S)
  BY <1>4, <1>6, <1>a, SeqMonotonic
<1>8. /\ tasks \o new \in Seq(S)
      /\ Len(tasks \o new) = Len(tasks) + m
      /\ \A i \in 1..Len(tasks) : (tasks \o new)[i] = tasks[i]
  <2>1. /\ tasks \o new \in Seq(S)
        /\ Len(tasks \o new) = Len(tasks) + m
        /\ \A i \in 1..(Len(tasks) + m) :
              (tasks \o new)[i] = IF i <= Len(tasks) THEN tasks[i] ELSE new[i - Len(tasks)]
    BY <1>6, <1>7, ConcatProperties
  <2>2. \A i \in 1..Len(tasks) : i \in 1..(Len(tasks) + m) /\ i <= Len(tasks)
    BY <1>4
  <2> QED
    BY <2>1, <2>2
<1>9. DOMAIN tasks' = 1..(Len(tasks) + m) /\ Number = 1..Len(tasks)
  BY <1>4, <1>8 DEF Number
<1> QED
  BY <1>4, <1>8, <1>9 DEF Number

(* Tasks are never forgotten, and a finished one stays finished; only a    *)
(* run that gives up may give it another outcome.                          *)
LEMMA OutcomesKept ==
    ASSUME IInv, CInv, [Next]_vars
    PROVE  /\ Number \subseteq Number'
           /\ \A i \in Number : tasks[i].state \in Finished => tasks'[i].state \in Finished
<1>1. Kept /\ Frozen => /\ Number \subseteq Number'
                        /\ \A i \in Number : tasks[i].state \in Finished => tasks'[i].state \in Finished
  BY DEF Kept, Frozen, Number
<1>2. CASE SubmitPlan
  <2>1. Frozen
    BY <1>2, CalmSubmit
  <2>2. Number \subseteq Number'
    BY <1>2, SubmitAppends
  <2> QED
    BY <2>1, <2>2 DEF Frozen
<1>3. ASSUME NEW i \in Number, Cancel(i)
      PROVE  Kept /\ Frozen
  BY <1>3, CalmCancel
<1>4. CASE \/ \E i \in Number : BlockTask(i) \/ StartTask(i)
           \/ Succeed \/ Fail
  BY <1>1, <1>4, CalmOneTask
<1>5. CASE Attempt
  BY <1>1, <1>5, CalmAttempt
<1>6. CASE \/ Start \/ Stop \/ BeginRefused \/ Begin \/ Finish \/ Retry \/ EndPass \/ Escape
           \/ \E i \in Number : SkipTask(i) \/ PostponeTask(i)
           \/ UNCHANGED vars
  <2>1. tasks' = tasks
    BY <1>6 DEF Start, Stop, BeginRefused, Begin, Finish, Retry, EndPass, Escape, SkipTask,
                PostponeTask, vars
  <2> QED
    BY <1>1, <2>1, IdleTasks
<1>7. CASE BlockRest
  <2>1. Untouched(unresolved \intersect Number) /\ "blocked" \in Blocking
    BY <1>7 DEF IInv, BlockRest, Untouched, Blocking
  <2>2. /\ DOMAIN tasks' = Number
        /\ \A j \in Number \ unresolved : tasks'[j] = tasks[j]
        /\ \A j \in Number \intersect unresolved : tasks'[j].state = "blocked"
    BY <1>7, <2>1, SetAllKeepsTable DEF BlockRest
  <2> QED
    BY <2>2 DEF Finished, Number
<1> QED
  BY <1>1, <1>2, <1>3, <1>4, <1>5, <1>6, <1>7 DEF Next, RunStep

(* What the run deals with in a step is finished after it.                 *)
LEMMA DealtWithIsFinished ==
    ASSUME IInv, RInv, RunStep
    PROVE  \A i \in unresolved \ unresolved' : tasks'[i].state \in Finished
<1>1. ASSUME NEW i \in Number, SkipTask(i)
      PROVE  unresolved \ unresolved' \subseteq {i} /\ tasks'[i].state \in Finished
  BY <1>1 DEF SkipTask, Reaches, Resolve, IInv, Untouched, Finished
<1>2. ASSUME NEW i \in Number, NEW s \in {"blocked", "completed", "failed"},
             tasks' = Set(i, s), Resolve(i)
      PROVE  unresolved \ unresolved' \subseteq {i} /\ tasks'[i].state \in Finished
  <2>1. tasks \in Seq(Rec) /\ i \in 1..Len(tasks) /\ tasks[i] \in Rec
    BY DEF IInv, Number
  <2>2. tasks'[i] = [tasks[i] EXCEPT !.state = s]
    BY <1>2, <2>1 DEF Set
  <2>3. tasks'[i].state = s
    BY <2>1, <2>2 DEF Rec
  <2> QED
    BY <1>2, <2>3 DEF Resolve, Finished
<1>3. ASSUME NEW i \in Number, BlockTask(i)
      PROVE  unresolved \ unresolved' \subseteq {i} /\ tasks'[i].state \in Finished
  BY <1>2, <1>3 DEF BlockTask
<1>4. CASE Succeed \/ Fail
  <2>1. at \in Number
    BY <1>4 DEF Succeed, Fail, IInv
  <2>2. unresolved \ unresolved' \subseteq {at} /\ tasks'[at].state \in Finished
    BY <1>2, <1>4, <2>1 DEF Succeed, Fail
  <2> QED
    BY <2>2
<1>5. CASE BlockRest
  <2>1. Untouched(unresolved \intersect Number) /\ "blocked" \in Blocking
    BY <1>5 DEF IInv, BlockRest, Untouched, Blocking
  <2>2. \A j \in Number \intersect unresolved : tasks'[j].state = "blocked"
    BY <1>5, <2>1, SetAllKeepsTable DEF BlockRest
  <2> QED
    BY <2>2 DEF Finished, IInv
<1>6. CASE \/ \E i \in Number : StartTask(i) \/ PostponeTask(i)
           \/ EndPass \/ Attempt \/ Retry \/ Escape \/ Finish
  BY <1>6 DEF StartTask, PostponeTask, EndPass, Attempt, Retry, Escape, Finish
<1> QED
  BY <1>1, <1>3, <1>4, <1>5, <1>6 DEF RunStep

LEMMA ResolvedStep == IInv /\ CInv /\ RInv /\ [Next]_vars => RInv'
<1> SUFFICES ASSUME IInv, CInv, RInv, [Next]_vars PROVE RInv'
  OBVIOUS
<1>1. /\ Number \subseteq Number'
      /\ \A i \in Number : tasks[i].state \in Finished => tasks'[i].state \in Finished
  BY OutcomesKept
<1>2. ASSUME ids' = ids, \A i \in unresolved \ unresolved' : tasks'[i].state \in Finished
      PROVE  ids' \subseteq Number' /\ \A i \in ids' \ unresolved' : tasks'[i].state \in Finished
  BY <1>1, <1>2 DEF RInv
<1>3. CASE Start \/ Stop \/ BeginRefused \/ SubmitPlan \/ UNCHANGED vars
  <2>1. UNCHANGED <<runVars, cut>>
    BY <1>3 DEF Start, Stop, BeginRefused, SubmitPlan, vars, runVars
  <2> QED
    BY <1>2, <2>1 DEF RInv, runVars
<1>4. ASSUME NEW i \in Number, Cancel(i) PROVE RInv'
  <2>1. UNCHANGED <<runVars, cut>>
    BY <1>4 DEF Cancel
  <2> QED
    BY <1>2, <2>1 DEF RInv, runVars
<1>5. CASE Begin
  BY <1>1, <1>5 DEF Begin, RInv, InState
<1>6. CASE RunStep
  <2>1. \A i \in unresolved \ unresolved' : tasks'[i].state \in Finished
    BY <1>6, DealtWithIsFinished
  <2>2. ids' = ids
    BY <1>6 DEF RunStep, SkipTask, BlockTask, StartTask, PostponeTask, EndPass, BlockRest,
                Attempt, Succeed, Retry, Fail, Escape, Finish
  <2>3. ids' \subseteq Number' /\ \A i \in ids' \ unresolved' : tasks'[i].state \in Finished
    BY <1>2, <2>1, <2>2
  <2>4. ASSUME NEW i \in Number, SkipTask(i) \/ BlockTask(i) \/ StartTask(i) \/ PostponeTask(i)
        PROVE  RInv'
    <3>1. i \in Nat
      BY DEF IInv, Number
    <3> QED
      BY <2>3, <2>4, <3>1
         DEF RInv, SkipTask, BlockTask, StartTask, PostponeTask, Reaches, Resolve
  <2>5. CASE EndPass
    <3>1. /\ runner' = "scan" \/ runner' = "stalled"
          /\ unresolved' # {} /\ progress' = FALSE /\ at' = 0
      BY <2>5 DEF EndPass
    <3> QED
      BY <2>3, <3>1 DEF RInv
  <2>8. CASE BlockRest
    <3>1. runner' = "scan" /\ UNCHANGED <<progress, at>>
      BY <2>8 DEF BlockRest
    <3> QED
      BY <2>3, <3>1 DEF RInv
  <2>6. CASE Attempt \/ Succeed \/ Retry \/ Fail
    BY <2>3, <2>6 DEF RInv, Attempt, Succeed, Retry, Fail, Resolve
  <2>7. CASE Escape \/ Finish
    BY <2>3, <2>7 DEF RInv, Escape, Finish
  <2> QED
    BY <1>6, <2>4, <2>5, <2>6, <2>7, <2>8 DEF RunStep
<1> QED
  BY <1>3, <1>4, <1>5, <1>6 DEF Next

LEMMA ResolvedInvariance == Spec => [](IInv /\ AInv /\ RInv)
<1>1. Init => RInv
  <2> SUFFICES ASSUME Init PROVE RInv
    OBVIOUS
  <2>1. /\ runner = "idle" /\ progress = FALSE /\ at = 0
        /\ ids = {} /\ unresolved = {}
    BY DEF Init
  <2> QED
    BY <2>1 DEF RInv
<1>2. Init => IInv /\ AInv
  BY DEF Init, IInv, AInv, DependenciesFirst, Untouched, Number
<1>3. IInv /\ CInv /\ RInv /\ [Next]_vars => RInv'
  BY ResolvedStep
<1>4. IInv /\ AInv /\ [Next]_vars => (IInv /\ AInv)'
  BY StepPreserves, AttemptsStep
<1> QED
  BY <1>1, <1>2, <1>3, <1>4, CauseInvariance, PTL DEF Spec

(* A run that is over has dealt with every task it took on, whatever was   *)
(* submitted and cancelled meanwhile, unless an exception has cut a run    *)
(* short: what the documentation says (orchestrator.py:254) fails for no   *)
(* other reason.                                                           *)
THEOREM RunsResolveAll == Spec => [](cut \/ RunResolvesAll)
<1>1. RInv => cut \/ RunResolvesAll
  BY DEF RInv, RunResolvesAll
<1> QED
  BY <1>1, ResolvedInvariance, PTL

-----------------------------------------------------------------------------
(* How far a run still has to go, in order of weight: the tasks it has to  *)
(* deal with, whether another pass will follow this one, the tasks that    *)
(* are left of this pass, and the steps left of the task being attempted.  *)
Turn == IF progress THEN 2 ELSE IF runner = "stalled" THEN 0 ELSE 1
Tries ==
    IF runner = "attempt" THEN 2 * (tasks[at].max - tasks[at].attempts) + 1
    ELSE IF runner = "dispatched" THEN 2 * (tasks[at].max - tasks[at].attempts) + 2
    ELSE 0
Variant ==
    <<Cardinality(unresolved), Turn, Cardinality({j \in unresolved : j > at}), Tries>>

(* The order of the dictionary.                                            *)
Below(m, n) ==
    \E k \in 1..Len(n) : m[k] < n[k] /\ \A j \in 1..(k - 1) : m[j] = n[j]

LEMMA BelowIs ==
    ASSUME NEW a, NEW b, NEW c, NEW d, NEW p, NEW q, NEW r, NEW s,
           \/ p < a
           \/ p = a /\ q < b
           \/ p = a /\ q = b /\ r < c
           \/ p = a /\ q = b /\ r = c /\ s < d
    PROVE  Below(<<p, q, r, s>>, <<a, b, c, d>>)
<1>1. Len(<<a, b, c, d>>) = 4
  OBVIOUS
<1>2. CASE p < a
  BY <1>1, <1>2 DEF Below
<1>3. CASE p = a /\ q < b
  BY <1>1, <1>3 DEF Below
<1>4. CASE p = a /\ q = b /\ r < c
  BY <1>1, <1>4 DEF Below
<1>5. CASE p = a /\ q = b /\ r = c /\ s < d
  BY <1>1, <1>5 DEF Below
<1> QED
  BY <1>2, <1>3, <1>4, <1>5

LEMMA Fewer ==
    ASSUME NEW S, IsFiniteSet(S), NEW T, T \subseteq S
    PROVE  /\ Cardinality(S) \in Nat /\ Cardinality(T) \in Nat /\ IsFiniteSet(T)
           /\ Cardinality(T) <= Cardinality(S)
           /\ T # S => Cardinality(T) < Cardinality(S)
<1>1. /\ IsFiniteSet(T) /\ Cardinality(T) \in Nat /\ Cardinality(S) \in Nat
      /\ Cardinality(T) <= Cardinality(S)
      /\ Cardinality(T) = Cardinality(S) => T = S
  BY FS_Subset, FS_CardinalityType
<1> QED
  BY <1>1

(* Each part of the variant is a number.                                   *)
LEMMA VariantIs ==
    ASSUME IInv, AInv, RInv
    PROVE  Variant \in Nat \X Nat \X Nat \X Nat /\ IsFiniteSet(unresolved)
<1>1. IsFiniteSet(unresolved)
  <2>1. Len(tasks) \in Nat /\ unresolved \subseteq 1..Len(tasks)
    BY DEF IInv, Number
  <2>2. IsFiniteSet(1..Len(tasks))
    BY <2>1, FS_Interval
  <2> QED
    BY <2>1, <2>2, FS_Subset
<1>2. /\ Cardinality(unresolved) \in Nat
      /\ Cardinality({j \in unresolved : j > at}) \in Nat
  BY <1>1, Fewer
<1>3. Tries \in Nat
  <2>1. ASSUME runner \in {"attempt", "dispatched"} PROVE tasks[at].max - tasks[at].attempts \in Nat
    <3>1. Sound(tasks[at])
      BY <2>1 DEF AInv, IInv
    <3>2. MaxAttempts \in Nat
      BY OrchestratorAssumption
    <3> QED
      BY <3>1, <3>2 DEF Sound
  <2> QED
    BY <2>1 DEF Tries
<1>4. Turn \in Nat
  BY DEF Turn
<1> QED
  BY <1>1, <1>2, <1>3, <1>4 DEF Variant

(* A step of the run that does not end it brings the end nearer.           *)
LEMMA RunStepAdvances ==
    ASSUME IInv, AInv, RInv, RunStep
    PROVE  runner' = "idle" \/ Below(Variant', Variant)
<1> DEFINE Pass == {j \in unresolved : j > at}
<1>1. /\ IsFiniteSet(unresolved) /\ Cardinality(unresolved) \in Nat
      /\ Pass \subseteq unresolved /\ IsFiniteSet(Pass) /\ Cardinality(Pass) \in Nat
  BY VariantIs, Fewer
<1>2. /\ Variant = <<Cardinality(unresolved), Turn, Cardinality(Pass), Tries>>
      /\ Variant' = <<Cardinality(unresolved'), Turn', Cardinality(Pass'), Tries'>>
  BY DEF Variant
<1>3. ASSUME unresolved' \subseteq unresolved, unresolved' # unresolved
      PROVE  Below(Variant', Variant)
  <2>1. Cardinality(unresolved') < Cardinality(unresolved)
    BY <1>1, <1>3, Fewer
  <2> HIDE DEF Pass
  <2> QED
    BY <1>2, <2>1, BelowIs
<1>4. ASSUME unresolved' = unresolved, Turn' < Turn
      PROVE  Below(Variant', Variant)
  <2> HIDE DEF Pass
  <2> QED
    BY <1>2, <1>4, BelowIs
<1>5. ASSUME unresolved' = unresolved, Turn' = Turn, NEW i \in unresolved, i > at, at' = i
      PROVE  Below(Variant', Variant)
  <2>1. unresolved \subseteq Nat /\ at \in Nat
    BY DEF IInv, RInv, Number
  <2>2. Pass' = {j \in unresolved : j > i}
    BY <1>5
  <2>a. \A j \in unresolved : j > i => j > at
    BY <1>5, <2>1
  <2>3. Pass' \subseteq Pass
    <3>1. {j \in unresolved : j > i} \subseteq {j \in unresolved : j > at}
      BY <2>a
    <3> QED
      BY <2>2, <3>1
  <2>4. i \in Pass /\ i \notin Pass'
    BY <1>5, <2>1, <2>2
  <2> HIDE DEF Pass
  <2>5. Cardinality(Pass') < Cardinality(Pass)
    BY <1>1, <2>3, <2>4, Fewer
  <2> QED
    BY <1>2, <1>5, <2>5, BelowIs
<1>6. ASSUME UNCHANGED <<unresolved, at>>, Turn' = Turn, Tries' < Tries
      PROVE  Below(Variant', Variant)
  <2>1. Pass' = Pass
    BY <1>6
  <2> HIDE DEF Pass
  <2> QED
    BY <1>2, <1>6, <2>1, BelowIs
<1> HIDE DEF Pass
<1>7. ASSUME NEW i \in Number, SkipTask(i) \/ BlockTask(i)
      PROVE  Below(Variant', Variant)
  <2>1. i \in unresolved /\ unresolved' = unresolved \ {i}
    BY <1>7 DEF SkipTask, BlockTask, Reaches, Resolve
  <2> QED
    BY <1>3, <2>1
<1>8. CASE Succeed \/ Fail
  <2>1. at \in unresolved /\ unresolved' = unresolved \ {at}
    BY <1>8 DEF Succeed, Fail, Resolve, RInv
  <2> QED
    BY <1>3, <2>1
<1>9. CASE BlockRest
  <2>1. unresolved # {} /\ unresolved' = {}
    BY <1>9 DEF BlockRest, RInv
  <2> QED
    BY <1>3, <2>1
<1>10. ASSUME NEW i \in Number, StartTask(i) \/ PostponeTask(i)
       PROVE  Below(Variant', Variant)
  <2>1. /\ i \in unresolved /\ i > at /\ at' = i
        /\ UNCHANGED <<unresolved, progress>>
        /\ runner = "scan" /\ runner' \in {"scan", "attempt"}
    BY <1>10 DEF StartTask, PostponeTask, Reaches
  <2>2. Turn' = Turn
    BY <2>1 DEF Turn
  <2> QED
    BY <1>5, <2>1, <2>2
<1>11. CASE EndPass
  <2>1. /\ UNCHANGED unresolved /\ progress' = FALSE /\ runner = "scan"
        /\ runner' = IF progress THEN "scan" ELSE "stalled"
    BY <1>11 DEF EndPass
  <2>2. Turn' < Turn
    BY <2>1 DEF Turn
  <2> QED
    BY <1>4, <2>1, <2>2
<1>12. CASE Attempt
  <2>1. /\ tasks \in Seq(Rec) /\ at \in 1..Len(tasks) /\ tasks[at] \in Rec
        /\ Sound(tasks[at]) /\ tasks[at].attempts < tasks[at].max
    BY <1>12 DEF IInv, AInv, Attempt, Number
  <2> DEFINE r == [tasks[at] EXCEPT !.attempts = tasks[at].attempts + 1]
  <2>2. r.max = tasks[at].max /\ r.attempts = tasks[at].attempts + 1
    BY <2>1 DEF Rec
  <2> HIDE DEF r
  <2>3. tasks' = [tasks EXCEPT ![at] = r]
    BY <1>12 DEF Attempt, r
  <2>4. tasks'[at] = r
    BY <2>1, <2>3
  <2>5. /\ UNCHANGED <<unresolved, at, progress>>
        /\ runner = "attempt" /\ runner' = "dispatched"
    BY <1>12 DEF Attempt
  <2>6. tasks[at].max \in Nat /\ tasks[at].attempts \in Nat
    BY <2>1 DEF Rec
  <2>7. Tries' < Tries
    BY <2>2, <2>4, <2>5, <2>6 DEF Tries
  <2>8. Turn' = Turn
    BY <2>5 DEF Turn
  <2> QED
    BY <1>6, <2>5, <2>7, <2>8
<1>13. CASE Retry
  <2>1. /\ UNCHANGED <<unresolved, at, progress, tasks>>
        /\ runner = "dispatched" /\ runner' = "attempt"
    BY <1>13 DEF Retry
  <2>2. tasks[at] \in Rec
    BY <2>1 DEF IInv, Number
  <2>3. tasks[at].max \in Nat /\ tasks[at].attempts \in Nat
    BY <2>2 DEF Rec
  <2>4. Tries' < Tries
    BY <2>1, <2>3 DEF Tries
  <2>5. Turn' = Turn
    BY <2>1 DEF Turn
  <2> QED
    BY <1>6, <2>1, <2>4, <2>5
<1>14. CASE Escape \/ Finish
  BY <1>14 DEF Escape, Finish
<1> QED
  BY <1>7, <1>8, <1>9, <1>10, <1>11, <1>12, <1>13, <1>14 DEF RunStep

(* Nothing others do takes a run further from its end.                     *)
LEMMA OthersLeaveRun ==
    ASSUME IInv, RInv,
           \/ Start \/ Stop \/ SubmitPlan \/ BeginRefused \/ UNCHANGED vars
           \/ \E i \in Number : Cancel(i)
    PROVE  Variant' = Variant
<1>1. UNCHANGED <<unresolved, at, progress, runner>>
  BY DEF Start, Stop, SubmitPlan, Cancel, BeginRefused, vars, runVars
<1>2. ASSUME runner \in {"attempt", "dispatched"} PROVE tasks'[at] = tasks[at]
  <2>1. at \in Number /\ tasks[at].state = "running"
    BY <1>2 DEF IInv
  <2>2. CASE SubmitPlan
    BY <2>1, <2>2, SubmitAppends
  <2>3. ASSUME NEW i \in Number, Cancel(i) PROVE tasks'[at] = tasks[at]
    <3>1. PICK targets \in {{i}, Dependents(i)} :
             tasks' = [j \in Number |-> IF j \in targets
                                        THEN [tasks[j] EXCEPT !.state = "cancelled"]
                                        ELSE tasks[j]]
      BY <2>3 DEF Cancel
    <3>2. \A j \in targets : tasks[j].state = "pending"
      BY <2>3 DEF Cancel, Cancellable, Dependents, InState
    <3> QED
      BY <2>1, <3>1, <3>2
  <2>4. CASE Start \/ Stop \/ BeginRefused \/ UNCHANGED vars
    BY <2>4 DEF Start, Stop, BeginRefused, vars
  <2> QED
    BY <2>2, <2>3, <2>4
<1>3. Tries' = Tries
  BY <1>1, <1>2 DEF Tries
<1> QED
  BY <1>1, <1>3 DEF Variant, Turn

(* Every step of a run brings its end nearer, and what others submit,      *)
(* cancel, start or stop never takes it further away: no run goes round    *)
(* for ever (orchestrator.py:590).  With RunGoesOn it is what fairness of  *)
(* the run's steps needs for every run to end.                             *)
THEOREM RunsAdvance ==
    Spec => [][/\ RunStep => runner' = "idle" \/ Below(Variant', Variant)
               /\ runner # "idle" /\ ~RunStep => Variant' = Variant]_vars
<1>1. IInv /\ AInv /\ RInv /\ [Next]_vars =>
         [/\ RunStep => runner' = "idle" \/ Below(Variant', Variant)
          /\ runner # "idle" /\ ~RunStep => Variant' = Variant]_vars
  BY RunStepAdvances, OthersLeaveRun DEF Next, Begin
<1> QED
  BY <1>1, ResolvedInvariance, PTL DEF Spec

(* The variant is made of numbers, so there is no end to bring nearer for  *)
(* ever.                                                                   *)
LEMMA VariantAlwaysNumbers == Spec => [](Variant \in Nat \X Nat \X Nat \X Nat)
<1>1. IInv /\ AInv /\ RInv => Variant \in Nat \X Nat \X Nat \X Nat
  BY VariantIs
<1> QED
  BY <1>1, ResolvedInvariance, PTL

(* Where the run is, there is a step: the guard of one of its actions.     *)
RunCanGoOn ==
    \/ runner = "scan" /\ unresolved = {}
    \/ runner = "scan" /\ unresolved # {} /\ \A j \in unresolved : j <= at
    \/ \E i \in Number : Reaches(i)
    \/ runner = "stalled"
    \/ runner = "attempt" /\ at \in Number
    \/ runner = "dispatched" /\ at \in Number /\ at \in unresolved

(* A run that is not over always has a next step.                          *)
THEOREM RunGoesOn == Spec => [](runner # "idle" => RunCanGoOn)
<1>1. IInv /\ RInv => (runner # "idle" => RunCanGoOn)
  <2> SUFFICES ASSUME IInv, RInv, runner # "idle" PROVE RunCanGoOn
    OBVIOUS
  <2>1. unresolved \subseteq Number /\ Number \subseteq Nat /\ at \in Nat
    BY DEF IInv, RInv, Number
  <2>2. CASE runner = "scan"
    <3>1. CASE \A j \in unresolved : j <= at
      BY <2>2, <3>1 DEF RunCanGoOn
    <3>2. ASSUME NEW k \in unresolved, ~(k <= at) PROVE \E i \in Number : Reaches(i)
      <4>1. k > at
        BY <2>1, <3>2
      <4>2. PICK T : T = {j \in unresolved : j > at}
        OBVIOUS
      <4>3. T \in SUBSET Nat /\ T # {}
        BY <2>1, <4>1, <4>2
      <4>4. PICK i \in T : \A j \in T : i <= j
        BY <4>3, Least
      <4>5. i \in Number /\ i \in unresolved /\ i > at
        BY <2>1, <4>2, <4>4
      <4>6. \A j \in unresolved : j > at => j >= i
        BY <2>1, <4>2, <4>4, <4>5
      <4> QED
        BY <2>2, <4>5, <4>6 DEF Reaches
    <3> QED
      BY <3>1, <3>2 DEF RunCanGoOn
  <2>3. CASE runner # "scan"
    BY <2>3 DEF RunCanGoOn, RInv, IInv
  <2> QED
    BY <2>2, <2>3
<1> QED
  BY <1>1, ResolvedInvariance, PTL

(* With the gate, a dispatch asks once before it comes back.               *)
OVariant ==
    <<Variant[1], Variant[2], Variant[3], Variant[4], IF answer = "none" THEN 1 ELSE 0>>

LEMMA BelowWithGate ==
    ASSUME NEW p, NEW q, NEW r, NEW s, NEW t, NEW a, NEW b, NEW c, NEW d, NEW e,
           \/ Below(<<p, q, r, s>>, <<a, b, c, d>>)
           \/ <<p, q, r, s>> = <<a, b, c, d>> /\ t < e
    PROVE  Below(<<p, q, r, s, t>>, <<a, b, c, d, e>>)
<1> DEFINE m == <<p, q, r, s, t>>
           n == <<a, b, c, d, e>>
           u == <<p, q, r, s>>
           v == <<a, b, c, d>>
<1>1. Len(n) = 5 /\ Len(v) = 4
  OBVIOUS
<1>2. \A k \in 1..4 : m[k] = u[k] /\ n[k] = v[k]
  OBVIOUS
<1>3. m[5] = t /\ n[5] = e
  OBVIOUS
<1>4. u = v => \A k \in 1..4 : m[k] = n[k]
  OBVIOUS
<1> HIDE DEF m, n, u, v
<1>5. CASE Below(u, v)
  <2>1. PICK k \in 1..4 : u[k] < v[k] /\ \A j \in 1..(k - 1) : u[j] = v[j]
    BY <1>1, <1>5 DEF Below
  <2>2. k \in 1..5 /\ \A j \in 1..(k - 1) : j \in 1..4
    OBVIOUS
  <2>3. m[k] < n[k] /\ \A j \in 1..(k - 1) : m[j] = n[j]
    BY <1>2, <2>1, <2>2
  <2> QED
    BY <1>1, <2>2, <2>3 DEF Below, m, n
<1>6. CASE u = v /\ t < e
  <2>1. m[5] < n[5] /\ \A j \in 1..(5 - 1) : m[j] = n[j]
    BY <1>3, <1>4, <1>6
  <2> QED
    BY <1>1, <2>1 DEF Below, m, n
<1> QED
  BY <1>5, <1>6 DEF u, v

LEMMA WithGateAdvances ==
    ASSUME IInv, AInv, RInv, [ONext]_allVars
    PROVE  /\ ORunStep => runner' = "idle" \/ Below(OVariant', OVariant)
           /\ runner # "idle" /\ ~ORunStep => OVariant' = OVariant
<1>1. PICK p, q, r, s : Variant' = <<p, q, r, s>>
  BY DEF Variant
<1>2. PICK a, b, c, d : Variant = <<a, b, c, d>>
  BY DEF Variant
<1>3. PICK t : t = IF answer' = "none" THEN 1 ELSE 0
  OBVIOUS
<1>4. PICK e : e = IF answer = "none" THEN 1 ELSE 0
  OBVIOUS
<1>5. OVariant' = <<p, q, r, s, t>> /\ OVariant = <<a, b, c, d, e>>
  BY <1>1, <1>2, <1>3, <1>4 DEF OVariant
<1>6. ASSUME Below(Variant', Variant) PROVE Below(OVariant', OVariant)
  BY <1>1, <1>2, <1>5, <1>6, BelowWithGate
<1>7. CASE Scan \/ Return
  <2>1. RunStep
    BY <1>7 DEF Scan, Return, RunStep
  <2>2. runner' = "idle" \/ Below(Variant', Variant)
    BY <2>1, RunStepAdvances
  <2> QED
    BY <1>6, <1>7, <2>2 DEF ORunStep
<1>8. CASE Ask
  <2>1. UNCHANGED vars /\ answer = "none" /\ answer' # "none"
    BY <1>8 DEF Ask
  <2>2. Variant' = Variant
    BY <2>1 DEF vars, Variant, Turn, Tries
  <2>3. <<p, q, r, s>> = <<a, b, c, d>> /\ t < e
    BY <1>1, <1>2, <1>3, <1>4, <2>1, <2>2
  <2>4. Below(OVariant', OVariant)
    BY <1>5, <2>3, BelowWithGate
  <2> QED
    BY <1>8, <2>4 DEF ORunStep
<1>9. ASSUME ~ORunStep, runner # "idle" PROVE OVariant' = OVariant
  <2>1. CASE UNCHANGED <<vars, answer>>
    BY <2>1 DEF vars, OVariant, Variant, Turn, Tries
  <2>2. CASE Command
    <3>1. answer' = answer
      BY <2>2 DEF Command, gateVars
    <3>2. Start \/ Stop \/ SubmitPlan \/ (\E i \in Number : Cancel(i)) \/ BeginRefused
      BY <1>9, <2>2 DEF Command, Begin
    <3>3. Variant' = Variant
      BY <3>2, OthersLeaveRun
    <3> QED
      BY <3>1, <3>3 DEF OVariant
  <2> QED
    BY <1>9, <2>1, <2>2 DEF ONext, Decide, Clear, allVars, gateVars
<1> QED
  BY <1>7, <1>8, <1>9 DEF ORunStep

(* The same with the gate in between, whatever the owner decides and       *)
(* whenever approvals expire.                                              *)
THEOREM OrchestratedRunsAdvance ==
    OSpec => [][/\ ORunStep => runner' = "idle" \/ Below(OVariant', OVariant)
                /\ runner # "idle" /\ ~ORunStep => OVariant' = OVariant]_allVars
<1>1. IInv /\ AInv /\ RInv /\ [ONext]_allVars =>
         [/\ ORunStep => runner' = "idle" \/ Below(OVariant', OVariant)
          /\ runner # "idle" /\ ~ORunStep => OVariant' = OVariant]_allVars
  BY WithGateAdvances
<1> QED
  BY <1>1, ResolvedInvariance, Implements, PTL DEF OSpec
=============================================================================
