--------------------------- MODULE MCExecutionPath ---------------------------
(* Small instances of ExecutionPath for TLC.                                *)
EXTENDS ExecutionPath

CONSTANTS a1, x1, n1

Agents == {a1}
Symmetry == Permutations(Thread)
Names == [a \in Agents |-> n1]
Requests == [kind : {"task", "tool"}, agent : {n1}]
TasksNeedApproval ==
    [name |-> "tasks", effect |-> "approval", priority |-> 0,
     requests |-> {r \in Requests : r.kind = "task"}]
ToolsAllowed ==
    [name |-> "all", effect |-> "allow", priority |-> 0, requests |-> Requests]
Rules == {TasksNeedApproval, ToolsAllowed}
Pairs == Agents \X {x1}
=============================================================================
