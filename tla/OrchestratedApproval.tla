------------------------ MODULE OrchestratedApproval ------------------------
(***************************************************************************)
(* The orchestrator with the policy and the approval gate it runs tasks    *)
(* through: registry.dispatch asks the policy before the agent executes,   *)
(* the policy asks the gate (AgentExecutionPolicy.authorize), and the gate *)
(* knows a request by everything in it.  _execute_record puts the task's   *)
(* identifier and the number of the attempt into the metadata, and         *)
(* dispatch puts the metadata into the request.                            *)
(*                                                                         *)
(* The gate is seen as OneTimeGrant sees it, without the policy's other    *)
(* rules: a protected task is one whose rule requires approval.            *)
(***************************************************************************)
EXTENDS TaskOrchestrator

CONSTANT Protected      \* the tasks the owner has to approve

ASSUME ProtectedAssumption == Protected \subseteq 1..MaxTasks

VARIABLES
    standing,   \* what stands at the gate for each request
    answer,     \* what the gate answered the dispatch under way
    uses        \* approvals that were consumed

gateVars == <<standing, answer, uses>>
allVars == <<vars, gateVars>>

Subjects == Protected \X (1..MaxAttempts)

(* The request of the dispatch of task i, and a mutant without the number  *)
(* of the attempt.                                                         *)
Subject_Task(i) == <<i, 1>>
Subject(i) == <<i, tasks[i].attempts>>

OInit ==
    /\ Init
    /\ standing = [s \in Subjects |-> "none"]
    /\ answer = "none"
    /\ uses = 0

-----------------------------------------------------------------------------
(* The owner, and the clock: an undecided request and an approval expire.  *)
Decide(s, verdict) ==
    /\ standing[s] = "pending"
    /\ standing' = [standing EXCEPT ![s] = verdict]
    /\ UNCHANGED <<vars, answer, uses>>

Clear(s) ==
    /\ standing[s] # "none"
    /\ standing' = [standing EXCEPT ![s] = "none"]
    /\ UNCHANGED <<vars, answer, uses>>

(* authorize_or_request, called from the dispatch of a protected task: an  *)
(* approval is consumed, otherwise the request stands and is refused.      *)
Ask ==
    /\ runner = "dispatched" /\ at \in Protected /\ answer = "none"
    /\ LET s == Subject(at)
           granted == standing[s] = "approved"
       IN  /\ answer' = IF granted THEN "consumed" ELSE "refused"
           /\ uses' = IF granted THEN uses + 1 ELSE uses
           /\ standing' = [standing EXCEPT ![s] =
                  CASE @ = "none" -> "pending"
                    [] @ = "approved" -> "none"
                    [] OTHER -> @]
    /\ UNCHANGED vars

-----------------------------------------------------------------------------
(* What comes back of the dispatch, whose handler has run only with an     *)
(* approval; a refusal is one of the errors that _execute_record catches.  *)
(* The dispatch may fail before it asks: no agent is healthy, the policy   *)
(* has stopped, or (Escape) the gate has stopped or is full.               *)
Allowed == at \notin Protected \/ answer = "consumed"

Return ==
    /\ \/ Allowed /\ Succeed
       \/ Retry \/ Fail
       \/ answer # "refused" /\ Escape
    /\ answer' = "none"
    /\ UNCHANGED <<standing, uses>>

Scan ==
    /\ \/ \E i \in Number :
             SkipTask(i) \/ BlockTask(i) \/ StartTask(i) \/ PostponeTask(i)
       \/ EndPass \/ BlockRest \/ Attempt \/ Finish
    /\ UNCHANGED gateVars

Command ==
    /\ \/ Start \/ Stop \/ SubmitPlan
       \/ \E i \in Number : Cancel(i)
       \/ Begin \/ BeginRefused
    /\ UNCHANGED gateVars

ORunStep == Scan \/ Ask \/ Return

ONext ==
    \/ Command
    \/ ORunStep
    \/ \E s \in Subjects :
          Decide(s, "approved") \/ Decide(s, "denied") \/ Clear(s)

OSpec == OInit /\ [][ONext]_allVars

(* As in TaskOrchestrator; nobody owes a decision.                         *)
OFairSpec == OSpec /\ WF_allVars(ORunStep)

-----------------------------------------------------------------------------
(* An approval is for one attempt, and every attempt is another request    *)
(* (orchestrator.py:797), so the approval always comes too late: no        *)
(* approval is ever consumed, and no task that needs one completes, run    *)
(* after run and whatever the owner decides and when.                      *)
ApprovalComesTooLate ==
    /\ uses = 0
    /\ \A i \in Number : tasks[i].state = "completed" => i \notin Protected
=============================================================================
