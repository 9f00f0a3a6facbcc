---------------------------- MODULE ExecutionPath ----------------------------
(***************************************************************************)
(* How a task reaches an agent's handler and a tool: the agent registry    *)
(* (agents/registry.py), the agents (agents/framework.py) and the tool     *)
(* registry (agents/tools.py), with the policy that guards both steps.     *)
(*                                                                         *)
(* dispatch selects an agent, asks the policy and executes the task, each  *)
(* under other locks or none, so the agent may have changed in between.    *)
(* A tool call holds the tool registry's lock while it asks the policy and *)
(* the gate, and takes it again when the tool has ended.                   *)
(***************************************************************************)
EXTENDS ExecutionPolicy, SequencesExt

CONSTANTS
    Agent,          \* the agents there will be; register makes one of them
    NameOf,         \* their names, which two of them may share
    Tool,           \* tools that may be registered
    Permitted       \* pairs of agent and tool that pass _authorize_locked

ASSUME PathAssumption ==
    /\ Request = [kind : {"task", "tool"}, agent : {NameOf[a] : a \in Agent}]
    /\ Permitted \subseteq Agent \X Tool

VARIABLES
    agents,     \* the registered agents, in order of registration
    state,      \* the state of each agent
    active,     \* _active_count of each agent
    leaks,      \* executions of each agent that ended without being uncounted
    toolsOn,    \* the tool registry is RUNNING
    tools,      \* the registered tools
    toolLock,   \* the thread that holds the tool registry's lock
    toolActive, \* the active_count of each tool's record
    invoking,   \* _active_count of the tool registry
    run         \* the dispatch each thread is in

agentVars == <<agents, state, active, leaks>>
toolVars == <<toolsOn, tools, toolLock, toolActive, invoking>>
vars == <<policyVars, agentVars, toolVars, run>>

NoRun == [at |-> "idle", agent |-> None, tool |-> None, number |-> 0]
Move(t, l) == run' = [run EXCEPT ![t].at = l]
Ended(t) ==
    /\ run' = [run EXCEPT ![t] = NoRun]
    /\ call' = [call EXCEPT ![t] = NoCall]

TaskOf(a) == [kind |-> "task", agent |-> NameOf[a]]
ToolCallOf(a) == [kind |-> "tool", agent |-> NameOf[a]]

Executing(a) == {t \in Thread : run[t].agent = a
                                /\ run[t].at \in {"handler", "toolAuth", "tool"}}
Using(x) == {t \in Thread : run[t].at = "tool" /\ run[t].tool = x}

Init ==
    /\ PolicyInit
    /\ agents = <<>>
    /\ state = [a \in Agent |-> "new"]
    /\ active = [a \in Agent |-> 0] /\ leaks = [a \in Agent |-> 0]
    /\ toolsOn = FALSE /\ tools = {} /\ toolLock = None /\ invoking = 0
    /\ toolActive = [x \in Tool |-> 0]
    /\ run = [t \in Thread |-> NoRun]

----------------------------------------------------------------------------
(* Agents                                                                  *)

Healthy(a) == state[a] \in {"online", "busy"}
Known(a) == a \in ToSet(agents)

Register(a) ==
    /\ state[a] = "new"
    /\ \A b \in ToSet(agents) : NameOf[b] # NameOf[a]
    /\ agents' = Append(agents, a)
    /\ state' = [state EXCEPT ![a] = "registered"]
    /\ UNCHANGED <<policyVars, active, leaks, toolVars, run>>

Expendable(a) == Known(a) /\ ~Healthy(a)

(* The agent lives on for those who have it: dispatches that selected it,  *)
(* a start_all that listed it, and whom register returned it to.           *)
Unregister(a) ==
    /\ Expendable(a)
    /\ agents' = SelectSeq(agents, LAMBDA b : b # a)
    /\ UNCHANGED <<policyVars, state, active, leaks, toolVars, run>>

StartAgent(a) ==
    /\ state[a] # "new"
    /\ ~Healthy(a)
    /\ active[a] = 0
    /\ state' = [state EXCEPT ![a] = "online"]
    /\ UNCHANGED <<policyVars, agents, active, leaks, toolVars, run>>

Stoppable(a) ==
    /\ state[a] \notin {"new", "stopped"}
    /\ state[a] = "registered" \/ active[a] = 0

(* start_all and stop_all start and stop, one after the other, the agents  *)
(* they have listed: so may anybody, in any order and at any time.         *)
StopAgent(a) ==
    /\ Stoppable(a)
    /\ state' = [state EXCEPT ![a] = "stopped"]
    /\ UNCHANGED <<policyVars, agents, active, leaks, toolVars, run>>

----------------------------------------------------------------------------
(* dispatch and execute                                                    *)

(* The preferred agent, or the first that is healthy and can do the task.  *)
Chosen(a) == Known(a) /\ Healthy(a)

Dispatch(t) ==
    /\ run[t].at = "idle"
    /\ \E a \in Agent :
         /\ Chosen(a)
         /\ run' = [run EXCEPT ![t].at = "taskAuth", ![t].agent = a]
         /\ Ask(t, TaskOf(a))
    /\ UNCHANGED <<ruleVars, decisionVars, gateVars, agentVars, toolVars>>

TaskRefused(t) ==
    /\ run[t].at = "taskAuth"
    /\ call[t].at = "refused"
    /\ Ended(t)
    /\ UNCHANGED <<ruleVars, decisionVars, gateVars, agentVars, toolVars>>

(* The agent may have failed or been stopped since it was selected.        *)
AgentNotOnline(t) ==
    /\ run[t].at = "taskAuth"
    /\ call[t].at = "allowed"
    /\ ~Healthy(run[t].agent)
    /\ Ended(t)
    /\ UNCHANGED <<ruleVars, decisionVars, gateVars, agentVars, toolVars>>

BeginTask(t) ==
    /\ run[t].at = "taskAuth"
    /\ call[t].at = "allowed"
    /\ LET a == run[t].agent IN
         /\ Healthy(a)
         /\ active' = [active EXCEPT ![a] = @ + 1]
         /\ state' = [state EXCEPT ![a] = "busy"]
    /\ run' = [run EXCEPT ![t].at = "handler", ![t].number = call[t].number]
    /\ call' = [call EXCEPT ![t] = NoCall]
    /\ UNCHANGED <<ruleVars, decisionVars, gateVars, agents, leaks, toolVars>>

AfterTask_Quiet(a, quiet) == quiet
AfterTask(a, quiet) == IF active'[a] > 0 THEN "busy" ELSE quiet

(* The handler returns ("online") or raises ("degraded").                  *)
EndTask(t, quiet) ==
    /\ run[t].at = "handler"
    /\ LET a == run[t].agent IN
         /\ active' = [active EXCEPT ![a] = @ - 1]
         /\ state' = [state EXCEPT ![a] = AfterTask(a, quiet)]
    /\ Ended(t)
    /\ UNCHANGED <<ruleVars, decisionVars, gateVars, agents, leaks, toolVars>>

(* The copy of what the handler returned raises, outside of the try: the   *)
(* task has ended, and execute does not take it back from its count.       *)
CopyRaises(t) ==
    /\ run[t].at = "handler"
    /\ leaks' = [leaks EXCEPT ![run[t].agent] = @ + 1]
    /\ Ended(t)
    /\ UNCHANGED <<ruleVars, decisionVars, gateVars, agents, state, active, toolVars>>

----------------------------------------------------------------------------
(* Tools                                                                   *)

Free == toolLock = None

RegisterTool(x) ==
    /\ Free /\ x \notin tools
    /\ tools' = tools \union {x}
    /\ toolActive' = [toolActive EXCEPT ![x] = 0]
    /\ UNCHANGED <<policyVars, agentVars, toolsOn, toolLock, invoking, run>>

Removable_Busy(x) == x \in tools
Removable(x) == x \in tools /\ toolActive[x] = 0

UnregisterTool(x) ==
    /\ Free /\ Removable(x)
    /\ tools' = tools \ {x}
    /\ UNCHANGED <<policyVars, agentVars, toolsOn, toolLock, toolActive, invoking, run>>

StartTools ==
    /\ Free /\ ~toolsOn
    /\ toolsOn' = TRUE
    /\ UNCHANGED <<policyVars, agentVars, tools, toolLock, toolActive, invoking, run>>

StopTools ==
    /\ Free /\ toolsOn
    /\ invoking = 0
    /\ toolsOn' = FALSE
    /\ UNCHANGED <<policyVars, agentVars, tools, toolLock, toolActive, invoking, run>>

(* The client's grants, the tool's own lists and the switch for mutating   *)
(* tools, none of which changes.                                           *)
Admitted(a, x) == <<a, x>> \in Permitted

(* invoke, called by a handler: with the lock held the tool is looked up   *)
(* and the agent's grants are checked.  When that fails the handler gets   *)
(* an exception and nothing has changed.                                   *)
Invoke(t, x) ==
    /\ run[t].at = "handler"
    /\ Free /\ toolsOn /\ x \in tools
    /\ Admitted(run[t].agent, x)
    /\ toolLock' = t
    /\ run' = [run EXCEPT ![t].at = "toolAuth", ![t].tool = x]
    /\ Ask(t, ToolCallOf(run[t].agent))
    /\ UNCHANGED <<ruleVars, decisionVars, gateVars, agentVars, toolsOn, tools,
                   toolActive, invoking>>

ToolRefused(t) ==
    /\ run[t].at = "toolAuth"
    /\ call[t].at = "refused"
    /\ toolLock' = None
    /\ run' = [run EXCEPT ![t].at = "handler", ![t].tool = None]
    /\ call' = [call EXCEPT ![t] = NoCall]
    /\ UNCHANGED <<ruleVars, decisionVars, gateVars, agentVars, toolsOn, tools,
                   toolActive, invoking>>

BeginTool(t) ==
    /\ run[t].at = "toolAuth"
    /\ call[t].at = "allowed"
    /\ toolActive' = [toolActive EXCEPT ![run[t].tool] = @ + 1]
    /\ invoking' = invoking + 1
    /\ toolLock' = None
    /\ Move(t, "tool")
    /\ UNCHANGED <<policyVars, agentVars, toolsOn, tools>>

(* The tool returns, or raises what the handler then gets.                 *)
EndTool(t) ==
    /\ run[t].at = "tool"
    /\ Free
    /\ toolActive' = [toolActive EXCEPT ![run[t].tool] = @ - 1]
    /\ invoking' = invoking - 1
    /\ run' = [run EXCEPT ![t].at = "handler", ![t].tool = None]
    /\ call' = [call EXCEPT ![t] = NoCall]
    /\ UNCHANGED <<ruleVars, decisionVars, gateVars, agentVars, toolsOn, tools, toolLock>>

----------------------------------------------------------------------------
Environment ==
    /\ \/ \E r \in Rule : RegisterRule(r) \/ UnregisterRule(r)
       \/ StartPolicy \/ StopPolicy
       \/ \E r \in Request : OwnerActs(r)
       \/ \E t \in Thread : Authorising(t)
    /\ UNCHANGED <<agentVars, toolVars, run>>

Next ==
    \/ Environment
    \/ \E a \in Agent : Register(a) \/ Unregister(a) \/ StartAgent(a) \/ StopAgent(a)
    \/ \E t \in Thread :
         \/ Dispatch(t) \/ TaskRefused(t) \/ AgentNotOnline(t) \/ BeginTask(t)
         \/ \E quiet \in {"online", "degraded"} : EndTask(t, quiet)
         \/ CopyRaises(t)
         \/ \E x \in Tool : Invoke(t, x)
         \/ ToolRefused(t) \/ BeginTool(t) \/ EndTool(t)
    \/ \E x \in Tool : RegisterTool(x) \/ UnregisterTool(x)
    \/ StartTools \/ StopTools

Spec == Init /\ [][Next]_vars

----------------------------------------------------------------------------
TypeOK ==
    /\ PolicyTypeOK
    /\ agents \in Seq(Agent)
    /\ state \in [Agent -> {"new", "registered", "online", "busy", "degraded", "stopped"}]
    /\ active \in [Agent -> Nat] /\ leaks \in [Agent -> Nat]
    /\ toolsOn \in BOOLEAN /\ tools \subseteq Tool
    /\ toolLock \in Thread \union {None}
    /\ toolActive \in [Tool -> Nat] /\ invoking \in Nat
    /\ run \in [Thread -> [at : {"idle", "taskAuth", "handler", "toolAuth", "tool"},
                           agent : Agent \union {None}, tool : Tool \union {None},
                           number : 0..MaxDecisions]]

(* No handler and no tool runs without a decision that allows it, and every*)
(* decision that an approval turned into an allowance has used up a grant  *)
(* of the owner.                                                           *)
FailClosed ==
    /\ \A t \in Thread :
         /\ run[t].at \in {"handler", "toolAuth", "tool"} => ledger[run[t].number].is = "allow"
         /\ run[t].at = "tool" => ledger[call[t].number].is = "allow"
    /\ Cardinality({n \in DOMAIN ledger : ledger[n].was = "approval" /\ ledger[n].is = "allow"})
         + Cardinality({t \in Thread : call[t].at = "consumed"}) = uses
    /\ uses <= grants

(* "state reports BUSY while any task is active" (Agent): while a handler  *)
(* runs, its agent is busy, whatever other tasks of it have failed and     *)
(* whoever tried to stop it since the agent was selected, and its count is *)
(* right (executions whose copy raised apart).                             *)
BusyWhileActive == \A a \in Agent :
    /\ Executing(a) # {} => state[a] = "busy"
    /\ active[a] = Cardinality(Executing(a)) + leaks[a]

(* A tool that runs stays registered, in a registry that is running, and   *)
(* is counted once by its record and once by the registry.                 *)
ToolHeld ==
    /\ \A x \in Tool : Using(x) # {} => x \in tools /\ toolsOn
    /\ \A x \in tools : toolActive[x] = Cardinality(Using(x))
    /\ invoking = Cardinality(UNION {Using(x) : x \in Tool})
=============================================================================
