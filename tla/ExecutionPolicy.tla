--------------------------- MODULE ExecutionPolicy ---------------------------
(***************************************************************************)
(* The policy that every agent task and tool call must pass,               *)
(* agents/policy.py, with the approval gate it asks.                       *)
(*                                                                         *)
(* authorize takes the policy's lock twice, with a call of the gate in     *)
(* between: evaluate records a decision, the gate consumes an approval or  *)
(* asks for one, and the recorded decision is then replaced by what came   *)
(* of it.  Other threads evaluate, evict from the bounded history and      *)
(* replace in between.                                                     *)
(*                                                                         *)
(* A decision is known by the number of its evaluation.  The gate is its   *)
(* abstraction OneTimeGrant (ApprovalGate is shown to implement it).  A    *)
(* rule stands for the set of requests it matches, empty when it is        *)
(* disabled; its match count is left out.                                  *)
(***************************************************************************)
EXTENDS Integers, Sequences, FiniteSets

CONSTANTS
    Thread,         \* the threads that ask for authorisation
    Request,        \* what they may ask for
    Rule,           \* rules: records of name, effect, priority and requests
    None,           \* no thread, no decision
    HistoryLimit,   \* decisions kept
    MaxDecisions,   \* bound: evaluations
    MaxGrants       \* bound: approvals the owner gives

Effect == {"allow", "deny", "approval"}
Default == "deny"

ASSUME PolicyAssumption ==
    /\ HistoryLimit \in Nat \ {0} /\ MaxDecisions \in Nat /\ MaxGrants \in Nat
    /\ \A r \in Rule : /\ r.effect \in Effect /\ r.priority \in Int
                       /\ r.requests \subseteq Request
    /\ IsFiniteSet(Thread) /\ IsFiniteSet(Request)
    /\ None \notin Thread /\ None \notin [number : Nat, effect : Effect]

VARIABLES
    policyOn,   \* _state is RUNNING
    rules,      \* the registered rules in order of registration
    decisions,  \* _history
    counts,     \* _allow_count, _deny_count, _approval_count
    last,       \* _last_decision
    ledger,     \* every evaluation ever made: what the rules said, what came of it
    standing,   \* what stands at the gate for each request
    grants,     \* how often the owner granted
    uses,       \* how often a grant was used
    call        \* the authorisation each thread is in

ruleVars == <<policyOn, rules>>
decisionVars == <<decisions, counts, last, ledger>>
gateVars == <<standing, grants, uses>>
policyVars == <<ruleVars, decisionVars, gateVars, call>>

Gate == INSTANCE OneTimeGrant WITH Subject <- Request

NoCall == [at |-> "none", number |-> 0, request |-> None]
Decision(n, e) == [number |-> n, effect |-> e]
At(t, l) == call' = [call EXCEPT ![t].at = l]

PolicyInit ==
    /\ policyOn = FALSE /\ rules = <<>>
    /\ decisions = <<>> /\ last = None /\ ledger = <<>>
    /\ counts = [e \in Effect |-> 0]
    /\ Gate!Init
    /\ call = [t \in Thread |-> NoCall]

----------------------------------------------------------------------------
(* Rules and the life of the policy                                        *)

RegisterRule(r) ==
    /\ \A i \in DOMAIN rules : rules[i].name # r.name
    /\ rules' = Append(rules, r)
    /\ UNCHANGED <<policyOn, decisionVars, gateVars, call>>

UnregisterRule(r) ==
    /\ \E i \in DOMAIN rules : rules[i] = r
    /\ rules' = SelectSeq(rules, LAMBDA x : x # r)
    /\ UNCHANGED <<policyOn, decisionVars, gateVars, call>>

StartPolicy == ~policyOn /\ policyOn' = TRUE /\ UNCHANGED <<rules, decisionVars, gateVars, call>>
StopPolicy == policyOn /\ policyOn' = FALSE /\ UNCHANGED <<rules, decisionVars, gateVars, call>>

----------------------------------------------------------------------------
(* The owner and the clock, at the gate                                    *)

OwnerActs(r) ==
    /\ \/ grants < MaxGrants /\ Gate!Grant({}, r)
       \/ Gate!Refuse({}, r)
       \/ Gate!Withdraw({}, r)
       \/ Gate!MayLapse({r}) /\ Gate!Lapse({r})
    /\ UNCHANGED <<ruleVars, decisionVars, call>>

----------------------------------------------------------------------------
(* authorize                                                               *)

Ask(t, r) == call' = [call EXCEPT ![t] = [at |-> "asked", number |-> 0, request |-> r]]

Matching(r) == {i \in DOMAIN rules : r \in rules[i].requests}
First(i, S) == i \in S /\ \A j \in S :
    \/ rules[i].priority > rules[j].priority
    \/ rules[i].priority = rules[j].priority /\ i <= j
Judged(r, e) ==
    \/ Matching(r) = {} /\ e = Default
    \/ \E i \in DOMAIN rules : First(i, Matching(r)) /\ e = rules[i].effect

Bounded(s) == IF Len(s) > HistoryLimit THEN Tail(s) ELSE s

Verdict(e) == CASE e = "allow" -> "allowed" [] e = "deny" -> "refused" [] e = "approval" -> "gate"

Evaluate(t) ==
    /\ call[t].at = "asked"
    /\ policyOn
    /\ Len(ledger) < MaxDecisions
    /\ \E e \in Effect : LET n == Len(ledger) + 1 IN
         /\ Judged(call[t].request, e)
         /\ decisions' = Bounded(Append(decisions, Decision(n, e)))
         /\ last' = Decision(n, e)
         /\ counts' = [counts EXCEPT ![e] = @ + 1]
         /\ ledger' = Append(ledger, [was |-> e, is |-> e])
         /\ call' = [call EXCEPT ![t].number = n, ![t].at = Verdict(e)]
    /\ UNCHANGED <<ruleVars, gateVars>>

PolicyIsOff(t) ==
    /\ call[t].at = "asked"
    /\ ~policyOn
    /\ At(t, "refused")
    /\ UNCHANGED <<ruleVars, decisionVars, gateVars>>

(* An approved request is consumed, a denial is replayed, a request that   *)
(* waits is found again, and a new one is made.                            *)
Answer_Lenient(r) == CASE standing[r] = "approved" -> "consumed"
                       [] standing[r] = "denied" -> "denied"
                       [] standing[r] = "pending" -> "consumed"
                       [] OTHER -> "refused"
Answer(r) == CASE standing[r] = "approved" -> "consumed"
               [] standing[r] = "denied" -> "denied"
               [] OTHER -> "refused"

AskGate(t) ==
    /\ call[t].at = "gate"
    /\ LET r == call[t].request IN
         /\ CASE standing[r] = "approved" -> Gate!Use({}, r)
              [] standing[r] = "none" -> Gate!Ask({}, r)
              [] OTHER -> UNCHANGED gateVars
         /\ At(t, Answer(r))
    /\ UNCHANGED <<ruleVars, decisionVars>>

(* There is no gate, or it raises, whatever stands there: it is not        *)
(* running, or full.                                                       *)
GateRaises(t) ==
    /\ call[t].at = "gate"
    /\ At(t, "refused")
    /\ UNCHANGED <<ruleVars, decisionVars, gateVars>>

(* _replace_recorded_decision                                              *)
Replaced_Appended(n, e) == Bounded(Append(decisions, Decision(n, e)))
Replaced(n, e) ==
    IF \E i \in DOMAIN decisions : decisions[i].number = n
    THEN [i \in DOMAIN decisions |->
            IF decisions[i].number = n THEN Decision(n, e) ELSE decisions[i]]
    ELSE Bounded(Append(decisions, Decision(n, e)))

Less(k) == IF k > 0 THEN k - 1 ELSE 0
Recounted(old, new) == [counts EXCEPT ![old] = Less(@), ![new] = @ + 1]

Replace(t) ==
    /\ call[t].at \in {"consumed", "denied"}
    /\ LET n == call[t].number
           e == IF call[t].at = "consumed" THEN "allow" ELSE "deny" IN
         /\ decisions' = Replaced(n, e)
         /\ counts' = Recounted(ledger[n].was, e)
         /\ last' = IF last = Decision(n, ledger[n].was) THEN Decision(n, e) ELSE last
         /\ ledger' = [ledger EXCEPT ![n].is = e]
         /\ At(t, Verdict(e))
    /\ UNCHANGED <<ruleVars, gateVars>>

Authorising(t) ==
    Evaluate(t) \/ PolicyIsOff(t) \/ AskGate(t) \/ GateRaises(t) \/ Replace(t)

----------------------------------------------------------------------------
PolicyTypeOK ==
    /\ policyOn \in BOOLEAN
    /\ rules \in Seq(Rule)
    /\ decisions \in Seq([number : 1..MaxDecisions, effect : Effect])
    /\ Len(decisions) <= HistoryLimit
    /\ counts \in [Effect -> Nat]
    /\ last \in [number : 1..MaxDecisions, effect : Effect] \union {None}
    /\ ledger \in Seq([was : Effect, is : Effect])
    /\ standing \in [Request -> Gate!Standing]
    /\ grants \in Nat /\ uses \in Nat
    /\ call \in [Thread -> [at : {"none", "asked", "gate", "consumed", "denied", "allowed",
                                  "refused"},
                            number : 0..MaxDecisions, request : Request \union {None}]]

(* The books of the policy tell what finally came of each evaluation: it   *)
(* is counted once, under that, and the bounded history and last_decision  *)
(* hold no decision twice and none that was replaced meanwhile, although a *)
(* decision is replaced after the lock was released (policy.py:644).       *)
BooksAgree ==
    /\ \A e \in Effect :
          counts[e] = Cardinality({n \in DOMAIN ledger : ledger[n].is = e})
    /\ \A i, j \in DOMAIN decisions : decisions[i].number = decisions[j].number => i = j
    /\ \A i \in DOMAIN decisions : decisions[i].effect = ledger[decisions[i].number].is
    /\ last # None => last = Decision(Len(ledger), ledger[Len(ledger)].is)
=============================================================================
