-------------------------- MODULE DependencySearch --------------------------
(***************************************************************************)
(* The two depth-first searches over dependencies:                         *)
(* ServiceManager._resolve_order_locked (core/service_manager.py), which   *)
(* returns an order or raises, and AgentTaskOrchestrator._validate_acyclic *)
(* (agents/orchestrator.py), which only raises.  ServiceManager.tla and    *)
(* TaskOrchestrator.tla use what they decide instead; Lifecycle.tla states *)
(* that the two agree, and LifecycleProofs.tla proves it.                  *)
(*                                                                         *)
(* A graph gives each registered node the sequence of its dependencies,    *)
(* which may name a node that is not registered.                           *)
(***************************************************************************)
EXTENDS Integers, Sequences, SequencesExt, FiniteSets

(* visit calls itself for each dependency of a node, within the loop over  *)
(* the names asked for.  active: the nodes being visited, outermost first; *)
(* next: where the loop over names and each of theirs is; visited and      *)
(* ordered: the nodes that are done; raised: the exception.                *)
Start == [active |-> <<>>, next |-> <<1>>, visited |-> {}, ordered |-> <<>>,
          raised |-> "none"]

Return(st) ==
    LET n == Last(st.active)
    IN  [st EXCEPT !.active = Front(@), !.next = Front(@),
                   !.visited = @ \union {n}, !.ordered = Append(@, n)]

(* The innermost loop goes on to its next name, or ends.                   *)
Step_PreOrder(g, names, st) ==
    LET k == Len(st.next)
        loop == IF k = 1 THEN names ELSE g[Last(st.active)]
        n == loop[st.next[k]]
        on == [st EXCEPT !.next[k] = @ + 1]
    IN  IF st.raised # "none" THEN st
        ELSE IF st.next[k] > Len(loop)
             THEN IF k = 1 THEN st ELSE [Return(st) EXCEPT !.ordered = st.ordered]
        ELSE IF n \in st.visited THEN on
        ELSE IF n \in Range(st.active) THEN [st EXCEPT !.raised = "cycle"]
        ELSE IF n \notin DOMAIN g THEN [st EXCEPT !.raised = "missing"]
        ELSE [on EXCEPT !.active = Append(@, n), !.next = Append(@, 1),
                        !.ordered = Append(@, n)]
Step_Trusting(g, names, st) ==
    LET k == Len(st.next)
        loop == IF k = 1 THEN names ELSE g[Last(st.active)]
        n == loop[st.next[k]]
        on == [st EXCEPT !.next[k] = @ + 1]
    IN  IF st.raised # "none" THEN st
        ELSE IF st.next[k] > Len(loop) THEN IF k = 1 THEN st ELSE Return(st)
        ELSE IF n \in st.visited \union Range(st.active) THEN on
        ELSE IF n \notin DOMAIN g THEN [st EXCEPT !.raised = "missing"]
        ELSE [on EXCEPT !.active = Append(@, n), !.next = Append(@, 1)]
Step(g, names, st) ==
    LET k == Len(st.next)
        loop == IF k = 1 THEN names ELSE g[Last(st.active)]
        n == loop[st.next[k]]
        on == [st EXCEPT !.next[k] = @ + 1]
    IN  IF st.raised # "none" THEN st
        ELSE IF st.next[k] > Len(loop) THEN IF k = 1 THEN st ELSE Return(st)
        ELSE IF n \in st.visited THEN on
        ELSE IF n \in Range(st.active) THEN [st EXCEPT !.raised = "cycle"]
        ELSE IF n \notin DOMAIN g THEN [st EXCEPT !.raised = "missing"]
        ELSE [on EXCEPT !.active = Append(@, n), !.next = Append(@, 1)]

(* Every node is entered at most once: a step for each name asked for, for *)
(* each dependency of each node and for the return from each node is all   *)
(* the search can take.                                                    *)
Ticks(g) == UNION {{n} \X (0..Len(g[n])) : n \in DOMAIN g}
Steps(g, names) == Len(names) + Cardinality(Ticks(g))

Search(g, names) ==
    LET run[k \in 0..Steps(g, names)] ==
            IF k = 0 THEN Start ELSE Step(g, names, run[k - 1])
    IN  run

ResolveOrder(g, names) == Search(g, names)[Steps(g, names)]

(* _validate_acyclic: the same, where a dependency that is not found is a  *)
(* leaf (graph.get(identifier, ())).                                       *)
WithLeaves(g) ==
    [n \in DOMAIN g \union UNION {Range(g[m]) : m \in DOMAIN g} |->
        IF n \in DOMAIN g THEN g[n] ELSE <<>>]

ValidateAcyclic(g, names) == ResolveOrder(WithLeaves(g), names).raised = "none"

-----------------------------------------------------------------------------
(* What depends on something ranks above it.                               *)
Ranked(g, S) ==
    \E rank \in [S -> 0..Cardinality(S)] :
        \A n \in S \intersect DOMAIN g : \A d \in Range(g[n]) : rank[d] < rank[n]
=============================================================================
