------------------------ MODULE ExecutionPathProofs ------------------------
(***************************************************************************)
(* Proofs about ExecutionPath, for any threads, requests, rules, agents    *)
(* and tools: nothing runs without a decision that allows it (FailClosed), *)
(* what runs is held and counted (BusyWhileActive, ToolHeld), and the      *)
(* books of the policy are right (BooksAgree).                             *)
(*                                                                         *)
(* That a recorded decision is replaced after the policy's lock was        *)
(* released is harmless because a decision that waits for the gate is      *)
(* still recorded as "approval" and belongs to one thread: replacing it    *)
(* takes back nothing that runs already, and moves it from one count to    *)
(* one other.  AInv says so; EInv, TInv and BInv, for the agents, the      *)
(* tools and the books, are inductive next to it.                          *)
(***************************************************************************)
EXTENDS ExecutionPath, FiniteSetTheorems, SequenceTheorems, TLAPS

CallRec == [at : {"none", "asked", "gate", "consumed", "denied", "allowed", "refused"},
            number : Nat, request : Request \union {None}]
RunRec == [at : {"idle", "taskAuth", "handler", "toolAuth", "tool"},
           agent : Agent \union {None}, tool : Tool \union {None}, number : Nat]

Judging == {"gate", "consumed", "denied"}
InTask == {"handler", "toolAuth", "tool"}
Allows(n) == n \in DOMAIN ledger /\ ledger[n].is = "allow"

(* What an authorisation knows of its decision, and a dispatch of the      *)
(* authorisation it is in.                                                 *)
CallOK(c) ==
    /\ c \in CallRec
    /\ c.at # "none" => c.request \in Request
    /\ c.at \in Judging => /\ c.number \in DOMAIN ledger
                           /\ ledger[c.number].was = "approval"
                           /\ ledger[c.number].is = "approval"
    /\ c.at = "allowed" => Allows(c.number)

RunOK(r, c) ==
    /\ r \in RunRec
    /\ r.at \in InTask => Allows(r.number)
    /\ r.at # "idle" => r.agent \in Agent
    /\ r.at \in {"idle", "handler"} => c.at = "none"
    /\ r.at = "tool" => c.at = "allowed"

Spent == {n \in DOMAIN ledger : ledger[n].was = "approval" /\ ledger[n].is = "allow"}
Consumed == {t \in Thread : call[t].at = "consumed"}
Approved == {r \in Request : standing[r] = "approved"}

Tallies ==
    /\ Cardinality(Spent) + Cardinality(Consumed) = uses
    /\ uses + Cardinality(Approved) <= grants

AInv ==
    /\ ledger \in Seq([was : Effect, is : Effect])
    /\ standing \in [Request -> {"none", "pending", "approved", "denied"}]
    /\ grants \in Nat /\ uses \in Nat
    /\ call \in [Thread -> CallRec] /\ run \in [Thread -> RunRec]
    /\ \A t \in Thread : CallOK(call[t]) /\ RunOK(run[t], call[t])
    /\ \A t, u \in Thread :
         call[t].at \in Judging /\ call[u].at \in Judging
           /\ call[t].number = call[u].number => t = u
    /\ Tallies

-----------------------------------------------------------------------------
(* Sets of threads and requests are finite, and so is the ledger.          *)
LEMMA Finite ==
    ASSUME AInv
    PROVE  /\ IsFiniteSet(Spent) /\ IsFiniteSet(Consumed) /\ IsFiniteSet(Approved)
           /\ Cardinality(Spent) \in Nat /\ Cardinality(Consumed) \in Nat
           /\ Cardinality(Approved) \in Nat
<1>1. IsFiniteSet(DOMAIN ledger)
  <2>1. DOMAIN ledger = 1..Len(ledger) /\ Len(ledger) \in Nat
    BY DEF AInv
  <2> QED
    BY <2>1, FS_Interval
<1>2. IsFiniteSet(Spent) /\ IsFiniteSet(Consumed) /\ IsFiniteSet(Approved)
  BY <1>1, PolicyAssumption, FS_Subset DEF Spent, Consumed, Approved
<1> QED
  BY <1>2, FS_CardinalityType

(* A thread goes on with its dispatch, where the books and the gate are    *)
(* left alone and no approval that was consumed is forgotten.              *)
LEMMA ThreadMoves ==
    ASSUME AInv, NEW t \in Thread, NEW c, NEW r,
           call' = [call EXCEPT ![t] = c], run' = [run EXCEPT ![t] = r],
           UNCHANGED <<ledger, gateVars>>,
           call[t].at # "consumed", c.at \notin Judging,
           CallOK(c), RunOK(r, c)
    PROVE  AInv'
<1>1. \A n : Allows(n)' <=> Allows(n)
  BY DEF Allows
<1>2. call' \in [Thread -> CallRec] /\ run' \in [Thread -> RunRec]
  BY DEF AInv, CallOK, RunOK
<1>3. \A u \in Thread : /\ call'[u] = IF u = t THEN c ELSE call[u]
                        /\ run'[u] = IF u = t THEN r ELSE run[u]
  BY DEF AInv
<1>4. \A u \in Thread : CallOK(call[u])' /\ RunOK(run[u], call[u])'
  BY <1>1, <1>3 DEF AInv, CallOK, RunOK
<1>5. Spent' = Spent /\ Approved' = Approved /\ Consumed' = Consumed
  BY <1>3 DEF Spent, Approved, Consumed, gateVars, Judging
<1>6. Tallies'
  BY <1>5 DEF AInv, Tallies, gateVars
<1>7. \A u, v \in Thread :
         call'[u].at \in Judging /\ call'[v].at \in Judging
           /\ call'[u].number = call'[v].number => u = v
  BY <1>3 DEF AInv
<1> QED
  BY <1>2, <1>4, <1>6, <1>7 DEF AInv, gateVars

(* Steps that an authorisation does not see.                               *)
LEMMA Unseen ==
    ASSUME AInv, UNCHANGED <<call, run, ledger, gateVars>>
    PROVE  AInv'
  BY DEF AInv, CallOK, RunOK, Allows, Tallies, Spent, Consumed, Approved, gateVars

-----------------------------------------------------------------------------
(* The steps of authorize.  Their thread is neither idle nor in a handler, *)
(* nor is its tool running.                                                *)
LEMMA EvaluateKeeps ==
    ASSUME AInv, NEW t \in Thread, Evaluate(t), UNCHANGED run
    PROVE  AInv'
<1> DEFINE n == Len(ledger) + 1
<1>1. PICK e \in Effect :
        /\ call[t].at = "asked"
        /\ ledger' = Append(ledger, [was |-> e, is |-> e])
        /\ call' = [call EXCEPT ![t].number = n, ![t].at = Verdict(e)]
        /\ UNCHANGED gateVars
  BY DEF Evaluate
<1> DEFINE c == [call[t] EXCEPT !.number = n, !.at = Verdict(e)]
<1>2. Len(ledger) \in Nat /\ DOMAIN ledger = 1..Len(ledger) /\ n \in Nat
  BY DEF AInv
<1>3. /\ ledger' \in Seq([was : Effect, is : Effect])
      /\ DOMAIN ledger' = 1..n
      /\ ledger'[n] = [was |-> e, is |-> e]
      /\ \A m \in 1..Len(ledger) : ledger'[m] = ledger[m]
  BY <1>1, <1>2 DEF AInv
<1>4. call[t] \in CallRec /\ call[t].request \in Request
  BY <1>1 DEF AInv, CallOK
<1>5. Verdict(e) = CASE e = "allow" -> "allowed" [] e = "deny" -> "refused"
                     [] e = "approval" -> "gate"
  BY DEF Verdict
<1>6. /\ c \in CallRec /\ c.number = n /\ c.request = call[t].request
      /\ c.at = Verdict(e) /\ Verdict(e) \in {"allowed", "refused", "gate"}
      /\ Verdict(e) = "allowed" => e = "allow"
      /\ Verdict(e) = "gate" => e = "approval"
  BY <1>2, <1>4, <1>5 DEF CallRec, Effect
<1>7. \A u \in Thread : call'[u] = IF u = t THEN c ELSE call[u]
  BY <1>1 DEF AInv
<1> HIDE DEF c
<1>8. \A m : Allows(m) => Allows(m)'
  BY <1>2, <1>3 DEF Allows
<1>9. ASSUME NEW u \in Thread PROVE CallOK(call[u])' /\ RunOK(run[u], call[u])'
  <2>1. CASE u = t
    <3>1. call'[u] = c /\ c.at # "none"
      BY <1>6, <1>7, <2>1
    <3>2. CallOK(call[u])'
      BY <1>2, <1>3, <1>4, <1>6, <3>1 DEF CallOK, Allows, Judging
    <3>3. run[u].at \notin {"idle", "handler", "tool"}
      BY <1>1, <2>1 DEF AInv, RunOK
    <3> QED
      BY <1>8, <3>2, <3>3 DEF AInv, RunOK
  <2>2. CASE u # t
    <3>1. call'[u] = call[u]
      BY <1>7, <2>2
    <3> QED
      BY <1>2, <1>3, <1>8, <3>1 DEF AInv, CallOK, RunOK
  <2> QED
    BY <2>1, <2>2
<1>10. \A u \in Thread : call[u].at \in Judging => call[u].number \in 1..Len(ledger)
  BY <1>2 DEF AInv, CallOK
<1>11. \A u, v \in Thread :
         call'[u].at \in Judging /\ call'[v].at \in Judging
           /\ call'[u].number = call'[v].number => u = v
  BY <1>2, <1>6, <1>7, <1>10 DEF AInv
<1>12. Spent' = Spent
  <2>1. Spent' = {m \in 1..n : ledger'[m].was = "approval" /\ ledger'[m].is = "allow"}
    BY <1>3 DEF Spent
  <2>2. ~(ledger'[n].was = "approval" /\ ledger'[n].is = "allow")
    BY <1>3
  <2>3. \A m : m \in 1..n <=> m \in 1..Len(ledger) \/ m = n
    BY <1>2
  <2> QED
    BY <1>2, <1>3, <2>1, <2>2, <2>3 DEF Spent
<1>13. Consumed' = Consumed /\ Approved' = Approved
  BY <1>1, <1>6, <1>7 DEF Consumed, Approved, gateVars
<1>14. Tallies'
  BY <1>1, <1>12, <1>13 DEF AInv, Tallies, gateVars
<1>15. call' \in [Thread -> CallRec]
  BY <1>1, <1>6 DEF AInv, c
<1> QED
  BY <1>1, <1>3, <1>9, <1>11, <1>14, <1>15 DEF AInv, gateVars

(* A question that is refused without an answer, by the policy or the gate.*)
LEMMA UnansweredKeeps ==
    ASSUME AInv, NEW t \in Thread, PolicyIsOff(t) \/ GateRaises(t), UNCHANGED run
    PROVE  AInv'
<1> DEFINE c == [call[t] EXCEPT !.at = "refused"]
<1>1. /\ call[t].at \in {"asked", "gate"} /\ call' = [call EXCEPT ![t] = c]
      /\ UNCHANGED <<ledger, gateVars>>
  BY DEF PolicyIsOff, GateRaises, At, decisionVars
<1>2. call[t] \in CallRec /\ call[t].request \in Request
  BY <1>1 DEF AInv, CallOK
<1>3. c \in CallRec /\ c.at = "refused" /\ c.request = call[t].request
  BY <1>2 DEF CallRec
<1>4. CallOK(c)
  BY <1>2, <1>3 DEF CallOK, Judging
<1>5. RunOK(run[t], c)
  BY <1>1, <1>3 DEF AInv, RunOK
<1>6. run' = [run EXCEPT ![t] = run[t]]
  BY DEF AInv
<1> HIDE DEF c
<1> QED
  BY <1>1, <1>3, <1>4, <1>5, <1>6, ThreadMoves DEF Judging

(* What stands for one request changes at the gate, and nothing lapses.    *)
LEMMA StandingMoves ==
    ASSUME AInv, NEW r \in Request, NEW v \in {"none", "pending", "approved", "denied"},
           standing' = [Gate!After({}) EXCEPT ![r] = v]
    PROVE  /\ standing' \in [Request -> {"none", "pending", "approved", "denied"}]
           /\ v # "approved" => Approved' = Approved \ {r}
           /\ v = "approved" => Approved' = Approved \union {r}
<1>1. Gate!After({}) = standing
  BY DEF AInv, Gate!After
<1>2. \A q \in Request : standing'[q] = IF q = r THEN v ELSE standing[q]
  BY <1>1 DEF AInv
<1> QED
  BY <1>1, <1>2 DEF AInv, Approved

LEMMA AskGateKeeps ==
    ASSUME AInv, NEW t \in Thread, AskGate(t), UNCHANGED run
    PROVE  AInv'
<1> DEFINE r == call[t].request
           c == [call[t] EXCEPT !.at = Answer(r)]
<1>1. /\ call[t].at = "gate" /\ call' = [call EXCEPT ![t] = c] /\ UNCHANGED ledger
      /\ CASE standing[r] = "approved" -> Gate!Use({}, r)
           [] standing[r] = "none" -> Gate!Ask({}, r)
           [] OTHER -> UNCHANGED gateVars
  BY DEF AskGate, At, decisionVars
<1>2. call[t] \in CallRec /\ r \in Request /\ CallOK(call[t])
  BY <1>1 DEF AInv, CallOK
<1>3. /\ Answer(r) \in {"consumed", "denied", "refused"}
      /\ Answer(r) = "consumed" <=> standing[r] = "approved"
  BY DEF Answer
<1>4. /\ c \in CallRec /\ c.at = Answer(r) /\ c.number = call[t].number
      /\ c.request = call[t].request
  BY <1>2, <1>3 DEF CallRec
<1> HIDE DEF c
<1>5. \A u \in Thread : call'[u] = IF u = t THEN c ELSE call[u]
  BY <1>1 DEF AInv
<1>6. CallOK(c)
  BY <1>1, <1>2, <1>3, <1>4 DEF CallOK, Judging
<1>7. RunOK(run[t], c)
  BY <1>1 DEF AInv, RunOK
<1>8. \A u \in Thread : CallOK(call[u])' /\ RunOK(run[u], call[u])'
  BY <1>1, <1>5, <1>6, <1>7 DEF AInv, CallOK, RunOK, Allows
<1>9. \A u, v \in Thread :
         call'[u].at \in Judging /\ call'[v].at \in Judging
           /\ call'[u].number = call'[v].number => u = v
  BY <1>1, <1>4, <1>5 DEF AInv, Judging
<1>10. call' \in [Thread -> CallRec] /\ Spent' = Spent
  BY <1>1, <1>4 DEF AInv, Spent
<1>11. /\ standing' \in [Request -> {"none", "pending", "approved", "denied"}]
       /\ grants' \in Nat /\ uses' \in Nat /\ Tallies'
  <2>1. CASE standing[r] = "approved"
    <3>1. Gate!Use({}, r)
      BY <1>1, <2>1
    <3>2. /\ standing' = [Gate!After({}) EXCEPT ![r] = "none"]
          /\ uses' = uses + 1 /\ grants' = grants
      BY <3>1 DEF Gate!Use
    <3>3. /\ standing' \in [Request -> {"none", "pending", "approved", "denied"}]
          /\ Approved' = Approved \ {r} /\ r \in Approved
      BY <1>2, <2>1, <3>2, StandingMoves DEF Approved
    <3>4. Consumed' = Consumed \union {t} /\ t \notin Consumed
      BY <1>1, <1>3, <1>4, <1>5, <2>1 DEF Consumed
    <3>5. /\ Cardinality(Approved') = Cardinality(Approved) - 1
          /\ Cardinality(Consumed') = Cardinality(Consumed) + 1
      BY <3>3, <3>4, Finite, FS_AddElement, FS_RemoveElement
    <3> QED
      BY <1>10, <3>2, <3>3, <3>5, Finite DEF AInv, Tallies
  <2>2. CASE standing[r] # "approved"
    <3>1. Consumed' = Consumed
      BY <1>1, <1>3, <1>4, <1>5, <2>2 DEF Consumed
    <3>2. UNCHANGED gateVars \/ (standing[r] = "none" /\ Gate!Ask({}, r))
      BY <1>1, <2>2
    <3>3. /\ standing' \in [Request -> {"none", "pending", "approved", "denied"}]
          /\ Approved' = Approved /\ UNCHANGED <<grants, uses>>
      <4>1. CASE UNCHANGED gateVars
        BY <4>1 DEF AInv, Approved, gateVars
      <4>2. CASE standing[r] = "none" /\ Gate!Ask({}, r)
        <5>1. /\ standing' = [Gate!After({}) EXCEPT ![r] = "pending"]
              /\ UNCHANGED <<grants, uses>>
          BY <4>2 DEF Gate!Ask
        <5>2. Approved \ {r} = Approved
          BY <4>2 DEF Approved
        <5>3. /\ standing' \in [Request -> {"none", "pending", "approved", "denied"}]
              /\ Approved' = Approved \ {r}
          BY <1>2, <5>1, StandingMoves
        <5> QED
          BY <5>1, <5>2, <5>3
      <4> QED
        BY <3>2, <4>1, <4>2
    <3> QED
      BY <1>10, <3>1, <3>3 DEF AInv, Tallies
  <2> QED
    BY <2>1, <2>2
<1> QED
  BY <1>1, <1>8, <1>9, <1>10, <1>11 DEF AInv

LEMMA ReplaceKeeps ==
    ASSUME AInv, NEW t \in Thread, Replace(t), UNCHANGED run
    PROVE  AInv'
<1> DEFINE n == call[t].number
           e == IF call[t].at = "consumed" THEN "allow" ELSE "deny"
           c == [call[t] EXCEPT !.at = Verdict(e)]
<1>1. /\ call[t].at \in {"consumed", "denied"} /\ call' = [call EXCEPT ![t] = c]
      /\ ledger' = [ledger EXCEPT ![n].is = e] /\ UNCHANGED gateVars
  BY DEF Replace, At
<1>2. call[t] \in CallRec /\ call[t].request \in Request /\ CallOK(call[t])
  BY <1>1 DEF AInv, CallOK
<1>3. n \in DOMAIN ledger /\ ledger[n].was = "approval" /\ ledger[n].is = "approval"
  BY <1>1, <1>2 DEF CallOK, Judging
<1>4. /\ call[t].at = "consumed" => e = "allow" /\ Verdict(e) = "allowed"
      /\ call[t].at # "consumed" => e = "deny" /\ Verdict(e) = "refused"
  BY DEF Verdict
<1>5. /\ c \in CallRec /\ c.at = Verdict(e) /\ c.number = n
      /\ c.request = call[t].request
  BY <1>2, <1>4 DEF CallRec
<1>6. /\ ledger' \in Seq([was : Effect, is : Effect])
      /\ DOMAIN ledger' = DOMAIN ledger
      /\ ledger'[n].was = "approval" /\ ledger'[n].is = e
      /\ \A m \in DOMAIN ledger : m # n => ledger'[m] = ledger[m]
  <2>1. ledger \in Seq([was : Effect, is : Effect]) /\ e \in Effect
    BY <1>4 DEF AInv, Effect
  <2> HIDE DEF e, n
  <2>2. ledger' = [ledger EXCEPT ![n] = [@ EXCEPT !.is = e]]
    BY <1>1
  <2>3. [ledger[n] EXCEPT !.is = e] \in [was : Effect, is : Effect]
    <3>1. \A m \in DOMAIN ledger : ledger[m] \in [was : Effect, is : Effect]
      <4> DEFINE R == [was : Effect, is : Effect]
      <4>1. ledger \in Seq(R)
        BY <2>1
      <4> HIDE DEF R
      <4>2. \A m \in 1..Len(ledger) : ledger[m] \in R
        BY <4>1
      <4> QED
        BY <4>1, <4>2 DEF R
    <3>2. ledger[n] \in [was : Effect, is : Effect]
      BY <1>3, <3>1
    <3> QED
      BY <2>1, <3>2
  <2>4. ledger' = [ledger EXCEPT ![n] = [ledger[n] EXCEPT !.is = e]]
    BY <2>2
  <2>5. /\ DOMAIN ledger' = DOMAIN ledger /\ ledger'[n] = [ledger[n] EXCEPT !.is = e]
        /\ \A m \in DOMAIN ledger : m # n => ledger'[m] = ledger[m]
    BY <1>3, <2>1, <2>4
  <2>6. ledger' \in Seq([was : Effect, is : Effect])
    BY <1>3, <2>1, <2>3, <2>4
  <2>7. ledger'[n].was = "approval" /\ ledger'[n].is = e
    BY <1>3, <2>1, <2>5
  <2> QED
    BY <2>5, <2>6, <2>7
<1> HIDE DEF c, e
<1>7. \A u \in Thread : call'[u] = IF u = t THEN c ELSE call[u]
  BY <1>1 DEF AInv
<1>8. \A m : Allows(m) => Allows(m)'
  BY <1>3, <1>6 DEF Allows
<1>9. CallOK(call[t])'
  BY <1>2, <1>3, <1>4, <1>5, <1>6, <1>7 DEF CallOK, Allows, Judging
<1>10. ASSUME NEW u \in Thread, u # t PROVE CallOK(call[u])'
  <2>1. call'[u] = call[u] /\ CallOK(call[u])
    BY <1>7, <1>10 DEF AInv
  <2>2. call[u].at \in Judging => call[u].number # n
    BY <1>1, <1>10 DEF AInv, Judging
  <2> QED
    BY <1>6, <1>8, <2>1, <2>2 DEF CallOK
<1>11. ASSUME NEW u \in Thread PROVE RunOK(run[u], call[u])'
  BY <1>1, <1>7, <1>8 DEF AInv, RunOK
<1>12. \A u, v \in Thread :
         call'[u].at \in Judging /\ call'[v].at \in Judging
           /\ call'[u].number = call'[v].number => u = v
  BY <1>4, <1>5, <1>7 DEF AInv, Judging
<1>13. Cardinality(Spent') + Cardinality(Consumed') = Cardinality(Spent) + Cardinality(Consumed)
  <2>1. CASE call[t].at = "consumed"
    <3>1. Spent' = Spent \union {n} /\ n \notin Spent
      BY <1>3, <1>4, <1>6, <2>1 DEF Spent
    <3>2. Consumed' = Consumed \ {t} /\ t \in Consumed
      BY <1>4, <1>5, <1>7, <2>1 DEF Consumed
    <3>3. /\ Cardinality(Spent') = Cardinality(Spent) + 1
          /\ Cardinality(Consumed') = Cardinality(Consumed) - 1
      BY <3>1, <3>2, Finite, FS_AddElement, FS_RemoveElement
    <3> QED
      BY <3>3, Finite
  <2>2. CASE call[t].at # "consumed"
    <3>1. Spent' = Spent
      BY <1>3, <1>4, <1>6, <2>2 DEF Spent
    <3>2. Consumed' = Consumed
      BY <1>4, <1>5, <1>7, <2>2 DEF Consumed
    <3> QED
      BY <3>1, <3>2
  <2> QED
    BY <2>1, <2>2
<1>14. Tallies'
  BY <1>1, <1>13 DEF AInv, Tallies, gateVars, Approved
<1>15. \A u \in Thread : CallOK(call[u])'
  BY <1>7, <1>9, <1>10
<1>16. call' \in [Thread -> CallRec]
  BY <1>1, <1>5 DEF AInv
<1> QED
  BY <1>1, <1>6, <1>11, <1>12, <1>14, <1>15, <1>16 DEF AInv, gateVars

(* The owner and the clock.                                                *)
LEMMA OwnerActsKeeps ==
    ASSUME AInv, NEW r \in Request, OwnerActs(r), UNCHANGED run
    PROVE  AInv'
<1>1. UNCHANGED <<ledger, call>> /\ uses' = uses
  BY DEF OwnerActs, decisionVars, Gate!Grant, Gate!Refuse, Gate!Withdraw, Gate!Lapse
<1>2. /\ standing' \in [Request -> {"none", "pending", "approved", "denied"}]
      /\ grants' \in Nat
      /\ Cardinality(Approved') - grants' <= Cardinality(Approved) - grants
      /\ Cardinality(Approved') \in Nat
  <2>1. CASE Gate!Grant({}, r)
    <3>1. /\ standing' = [Gate!After({}) EXCEPT ![r] = "approved"] /\ grants' = grants + 1
      BY <2>1 DEF Gate!Grant
    <3>2. /\ standing' \in [Request -> {"none", "pending", "approved", "denied"}]
          /\ Approved' = Approved \union {r}
      BY <3>1, StandingMoves
    <3>3. Cardinality(Approved') \in {Cardinality(Approved), Cardinality(Approved) + 1}
      BY <3>2, Finite, FS_AddElement
    <3> QED
      BY <3>1, <3>2, <3>3, Finite DEF AInv
  <2>2. CASE Gate!Refuse({}, r) \/ Gate!Withdraw({}, r)
    <3>1. PICK v \in {"none", "denied"} :
             standing' = [Gate!After({}) EXCEPT ![r] = v] /\ grants' = grants
      BY <2>2 DEF Gate!Refuse, Gate!Withdraw
    <3>2. /\ standing' \in [Request -> {"none", "pending", "approved", "denied"}]
          /\ Approved' = Approved \ {r}
      BY <3>1, StandingMoves
    <3>3. Cardinality(Approved') \in {Cardinality(Approved), Cardinality(Approved) - 1}
          /\ Cardinality(Approved') \in Nat
      BY <3>2, Finite, FS_RemoveElement, FS_CardinalityType
    <3> QED
      BY <3>1, <3>2, <3>3, Finite DEF AInv
  <2>3. CASE Gate!Lapse({r})
    <3>1. /\ standing' = [q \in Request |-> IF q \in {r} THEN "none" ELSE standing[q]]
          /\ grants' = grants
      BY <2>3 DEF Gate!Lapse, Gate!After
    <3>2. /\ standing' \in [Request -> {"none", "pending", "approved", "denied"}]
          /\ Approved' = Approved \ {r}
      BY <3>1 DEF AInv, Approved
    <3>3. Cardinality(Approved') \in {Cardinality(Approved), Cardinality(Approved) - 1}
          /\ Cardinality(Approved') \in Nat
      BY <3>2, Finite, FS_RemoveElement, FS_CardinalityType
    <3> QED
      BY <3>1, <3>2, <3>3, Finite DEF AInv
  <2> QED
    BY <2>1, <2>2, <2>3 DEF OwnerActs
<1>3. Spent' = Spent /\ Consumed' = Consumed
  BY <1>1 DEF Spent, Consumed
<1>4. Tallies'
  BY <1>1, <1>2, <1>3, Finite DEF AInv, Tallies
<1> QED
  BY <1>1, <1>2, <1>4 DEF AInv, CallOK, RunOK, Allows

(* The steps of a dispatch and of a tool call.                             *)
LEMMA NoCallIsOK == CallOK(NoCall) /\ NoCall.at = "none"
  BY DEF CallOK, NoCall, CallRec, Judging

(* A dispatch that ends leaves nothing behind.                             *)
LEMMA EndedKeeps ==
    ASSUME AInv, NEW t \in Thread, Ended(t), call[t].at # "consumed",
           UNCHANGED <<ledger, gateVars>>
    PROVE  AInv'
<1>1. RunOK(NoRun, NoCall)
  BY NoCallIsOK DEF RunOK, NoRun, RunRec, InTask
<1> QED
  BY <1>1, NoCallIsOK, ThreadMoves DEF Ended, Judging

LEMMA DispatchKeeps ==
    ASSUME AInv, NEW t \in Thread, Dispatch(t)
    PROVE  AInv'
<1>1. PICK a \in Agent : /\ run[t].at = "idle"
                         /\ run' = [run EXCEPT ![t].at = "taskAuth", ![t].agent = a]
                         /\ Ask(t, TaskOf(a))
                         /\ UNCHANGED <<ledger, gateVars>>
  BY DEF Dispatch, decisionVars
<1> DEFINE c == [at |-> "asked", number |-> 0, request |-> TaskOf(a)]
           r == [run[t] EXCEPT !.at = "taskAuth", !.agent = a]
<1>2. TaskOf(a) \in Request
  BY PathAssumption DEF TaskOf
<1>3. CallOK(c) /\ c.at = "asked"
  BY <1>2 DEF CallOK, CallRec, Judging
<1>4. run[t] \in RunRec /\ call[t].at = "none"
  BY <1>1 DEF AInv, RunOK
<1>5. RunOK(r, c)
  BY <1>3, <1>4 DEF RunOK, RunRec, InTask
<1>6. call' = [call EXCEPT ![t] = c] /\ run' = [run EXCEPT ![t] = r]
  BY <1>1 DEF Ask
<1> HIDE DEF c, r
<1> QED
  BY <1>1, <1>3, <1>4, <1>5, <1>6, ThreadMoves DEF Judging

LEMMA BeginTaskKeeps ==
    ASSUME AInv, NEW t \in Thread, BeginTask(t)
    PROVE  AInv'
<1> DEFINE r == [run[t] EXCEPT !.at = "handler", !.number = call[t].number]
<1>1. /\ run[t].at = "taskAuth" /\ call[t].at = "allowed"
      /\ run' = [run EXCEPT ![t] = r] /\ call' = [call EXCEPT ![t] = NoCall]
      /\ UNCHANGED <<ledger, gateVars>>
  BY DEF BeginTask, decisionVars
<1>2. /\ run[t] \in RunRec /\ run[t].agent \in Agent /\ call[t].number \in Nat
      /\ Allows(call[t].number)
  BY <1>1 DEF AInv, RunOK, CallOK, CallRec
<1>3. RunOK(r, NoCall)
  BY <1>1, <1>2, NoCallIsOK DEF RunOK, RunRec, InTask
<1> HIDE DEF r
<1> QED
  BY <1>1, <1>3, NoCallIsOK, ThreadMoves DEF Judging

LEMMA InvokeKeeps ==
    ASSUME AInv, NEW t \in Thread, NEW x \in Tool, Invoke(t, x)
    PROVE  AInv'
<1> DEFINE c == [at |-> "asked", number |-> 0, request |-> ToolCallOf(run[t].agent)]
           r == [run[t] EXCEPT !.at = "toolAuth", !.tool = x]
<1>1. /\ run[t].at = "handler"
      /\ run' = [run EXCEPT ![t] = r] /\ call' = [call EXCEPT ![t] = c]
      /\ UNCHANGED <<ledger, gateVars>>
  BY DEF Invoke, Ask, decisionVars
<1>2. /\ run[t] \in RunRec /\ run[t].agent \in Agent /\ Allows(run[t].number)
      /\ call[t].at = "none"
  BY <1>1 DEF AInv, RunOK, InTask
<1>3. ToolCallOf(run[t].agent) \in Request
  BY <1>2, PathAssumption DEF ToolCallOf
<1>4. CallOK(c) /\ c.at = "asked"
  BY <1>3 DEF CallOK, CallRec, Judging
<1>5. RunOK(r, c)
  BY <1>2, <1>4 DEF RunOK, RunRec, InTask
<1> HIDE DEF c, r
<1> QED
  BY <1>1, <1>2, <1>4, <1>5, ThreadMoves DEF Judging

(* The tool call is over, or was refused, and the handler goes on.         *)
LEMMA BackInHandler ==
    ASSUME AInv, NEW t \in Thread, run[t].at \in {"toolAuth", "tool"},
           call[t].at # "consumed",
           run' = [run EXCEPT ![t].at = "handler", ![t].tool = None],
           call' = [call EXCEPT ![t] = NoCall],
           UNCHANGED <<ledger, gateVars>>
    PROVE  AInv'
<1> DEFINE r == [run[t] EXCEPT !.at = "handler", !.tool = None]
<1>1. run[t] \in RunRec /\ run[t].agent \in Agent /\ Allows(run[t].number)
  BY DEF AInv, RunOK, InTask
<1>2. RunOK(r, NoCall)
  BY <1>1, NoCallIsOK DEF RunOK, RunRec, InTask
<1>3. run' = [run EXCEPT ![t] = r]
  OBVIOUS
<1> HIDE DEF r
<1> QED
  BY <1>2, <1>3, NoCallIsOK, ThreadMoves DEF Judging

LEMMA BeginToolKeeps ==
    ASSUME AInv, NEW t \in Thread, BeginTool(t)
    PROVE  AInv'
<1> DEFINE r == [run[t] EXCEPT !.at = "tool"]
<1>1. /\ run[t].at = "toolAuth" /\ call[t].at = "allowed"
      /\ run' = [run EXCEPT ![t] = r] /\ UNCHANGED <<call, ledger, gateVars>>
  BY DEF BeginTool, Move, policyVars, decisionVars
<1>2. /\ run[t] \in RunRec /\ run[t].agent \in Agent /\ Allows(run[t].number)
      /\ CallOK(call[t])
  BY <1>1 DEF AInv, RunOK, InTask
<1>3. RunOK(r, call[t])
  BY <1>1, <1>2 DEF RunOK, RunRec, InTask
<1>4. call' = [call EXCEPT ![t] = call[t]]
  BY <1>1 DEF AInv
<1> HIDE DEF r
<1> QED
  BY <1>1, <1>2, <1>3, <1>4, ThreadMoves DEF Judging

(* What authorisations and dispatches know of their decisions, always.     *)
LEMMA AuthorisationInductive == Spec => []AInv
<1>1. Init => AInv
  <2> SUFFICES ASSUME Init PROVE AInv
    OBVIOUS
  <2>1. /\ ledger = <<>> /\ standing = [q \in Request |-> "none"] /\ grants = 0 /\ uses = 0
        /\ call = [t \in Thread |-> NoCall] /\ run = [t \in Thread |-> NoRun]
    BY DEF Init, PolicyInit, Gate!Init
  <2>2. RunOK(NoRun, NoCall)
    BY NoCallIsOK DEF RunOK, NoRun, RunRec, InTask
  <2>3. Spent = {} /\ Consumed = {} /\ Approved = {}
    BY <2>1, NoCallIsOK DEF Spent, Consumed, Approved
  <2>4. Tallies
    BY <2>1, <2>3, FS_EmptySet DEF Tallies
  <2>5. NoCall \in CallRec /\ NoRun \in RunRec
    BY <2>2, NoCallIsOK DEF CallOK, RunOK
  <2>6. \A t, u \in Thread :
         call[t].at \in Judging /\ call[u].at \in Judging
           /\ call[t].number = call[u].number => t = u
    BY <2>1, NoCallIsOK DEF Judging
  <2> QED
    BY <2>1, <2>2, <2>4, <2>5, <2>6, NoCallIsOK DEF AInv
<1>2. AInv /\ [Next]_vars => AInv'
  <2> SUFFICES ASSUME AInv, [Next]_vars PROVE AInv'
    OBVIOUS
  <2>1. ASSUME Environment PROVE AInv'
    <3>1. UNCHANGED run
      BY <2>1 DEF Environment
    <3>2. CASE \E r \in Rule : RegisterRule(r) \/ UnregisterRule(r)
      BY <3>1, <3>2, Unseen DEF RegisterRule, UnregisterRule, decisionVars
    <3>3. CASE StartPolicy \/ StopPolicy
      BY <3>1, <3>3, Unseen DEF StartPolicy, StopPolicy, decisionVars
    <3>4. CASE \E r \in Request : OwnerActs(r)
      BY <3>1, <3>4, OwnerActsKeeps
    <3>5. CASE \E t \in Thread : Authorising(t)
      BY <3>1, <3>5, EvaluateKeeps, UnansweredKeeps, AskGateKeeps, ReplaceKeeps
         DEF Authorising
    <3> QED
      BY <2>1, <3>2, <3>3, <3>4, <3>5 DEF Environment
  <2>2. ASSUME NEW a \in Agent, Register(a) \/ Unregister(a) \/ StartAgent(a) \/ StopAgent(a)
        PROVE  AInv'
    BY <2>2, Unseen DEF Register, Unregister, StartAgent, StopAgent, policyVars, decisionVars
  <2>3. ASSUME NEW t \in Thread, Dispatch(t) PROVE AInv'
    BY <2>3, DispatchKeeps
  <2>4. ASSUME NEW t \in Thread, TaskRefused(t) \/ AgentNotOnline(t) PROVE AInv'
    BY <2>4, EndedKeeps DEF TaskRefused, AgentNotOnline, decisionVars
  <2>5. ASSUME NEW t \in Thread, BeginTask(t) PROVE AInv'
    BY <2>5, BeginTaskKeeps
  <2>6. ASSUME NEW t \in Thread,
               (\E quiet \in {"online", "degraded"} : EndTask(t, quiet)) \/ CopyRaises(t)
        PROVE  AInv'
    <3>1. run[t].at = "handler" /\ Ended(t) /\ UNCHANGED <<ledger, gateVars>>
      BY <2>6 DEF EndTask, CopyRaises, decisionVars
    <3>2. call[t].at = "none"
      BY <3>1 DEF AInv, RunOK
    <3> QED
      BY <3>1, <3>2, EndedKeeps
  <2>7. ASSUME NEW t \in Thread, NEW x \in Tool, Invoke(t, x) PROVE AInv'
    BY <2>7, InvokeKeeps
  <2>8. ASSUME NEW t \in Thread, ToolRefused(t) PROVE AInv'
    BY <2>8, BackInHandler DEF ToolRefused, decisionVars
  <2>9. ASSUME NEW t \in Thread, BeginTool(t) PROVE AInv'
    BY <2>9, BeginToolKeeps
  <2>10. ASSUME NEW t \in Thread, EndTool(t) PROVE AInv'
    <3>1. run[t].at = "tool"
      BY <2>10 DEF EndTool
    <3>2. call[t].at = "allowed"
      BY <3>1 DEF AInv, RunOK
    <3> QED
      BY <2>10, <3>1, <3>2, BackInHandler DEF EndTool, decisionVars
  <2>11. ASSUME \/ \E x \in Tool : RegisterTool(x) \/ UnregisterTool(x)
                \/ StartTools \/ StopTools
         PROVE  AInv'
    BY <2>11, Unseen DEF RegisterTool, UnregisterTool, StartTools, StopTools, policyVars,
       decisionVars
  <2>12. ASSUME UNCHANGED vars PROVE AInv'
    BY <2>12, Unseen DEF vars, policyVars, decisionVars
  <2> QED
    BY <2>1, <2>2, <2>3, <2>4, <2>5, <2>6, <2>7, <2>8, <2>9, <2>10, <2>11, <2>12 DEF Next
<1> QED
  BY <1>1, <1>2, PTL DEF Spec

(* No handler and no tool runs without a decision that allows it, and no   *)
(* more decisions are turned by an approval than the owner granted         *)
(* (policy.py _authorize, framework.py execute, tools.py invoke).          *)
THEOREM AlwaysFailClosed == Spec => []FailClosed
<1>1. Spec => []AInv
  BY AuthorisationInductive
<1>2. AInv => FailClosed
  <2> SUFFICES ASSUME AInv PROVE FailClosed
    OBVIOUS
  <2>1. \A t \in Thread :
         /\ run[t].at \in {"handler", "toolAuth", "tool"} => ledger[run[t].number].is = "allow"
         /\ run[t].at = "tool" => ledger[call[t].number].is = "allow"
    BY DEF AInv, RunOK, CallOK, Allows, InTask
  <2>2. uses <= grants
    BY Finite DEF AInv, Tallies
  <2> QED
    BY <2>1, <2>2 DEF FailClosed, AInv, Tallies, Spent, Consumed
<1> QED
  BY <1>1, <1>2, PTL

-----------------------------------------------------------------------------
(* Agents: an agent that executes is busy, and its executions are counted. *)
EInv ==
    /\ state = [a \in Agent |-> state[a]]
    /\ active \in [Agent -> Nat] /\ leaks \in [Agent -> Nat]
    /\ BusyWhileActive

LEMMA ExecutingFinite ==
    \A a \in Agent : IsFiniteSet(Executing(a)) /\ Cardinality(Executing(a)) \in Nat
<1>1. \A a \in Agent : IsFiniteSet(Executing(a))
  BY PolicyAssumption, FS_Subset DEF Executing
<1> QED
  BY <1>1, FS_CardinalityType

(* An agent that is not busy, or counts nothing, executes nothing.         *)
LEMMA Resting ==
    ASSUME EInv, NEW a \in Agent, state[a] # "busy" \/ active[a] = 0
    PROVE  Executing(a) = {}
<1>1. CASE state[a] # "busy"
  BY <1>1 DEF EInv, BusyWhileActive
<1>2. CASE active[a] = 0
  <2>1. Cardinality(Executing(a)) = 0
    BY <1>2, ExecutingFinite DEF EInv, BusyWhileActive
  <2> QED
    BY <2>1, ExecutingFinite, FS_EmptySet
<1> QED
  BY <1>1, <1>2

(* Steps in which nobody begins or ends to execute, and only an agent that *)
(* executes nothing changes its state.                                     *)
LEMMA ElsewhereExecuting ==
    ASSUME EInv, UNCHANGED <<active, leaks>>,
           \A a \in Agent : Executing(a)' = Executing(a),
           \/ UNCHANGED state
           \/ \E a \in Agent, s \in {"registered", "online", "stopped"} :
                Executing(a) = {} /\ state' = [state EXCEPT ![a] = s]
    PROVE  EInv'
<1>1. state' = [a \in Agent |-> state'[a]]
  BY DEF EInv
<1>2. \A a \in Agent : Executing(a) # {} => state'[a] = "busy"
  BY DEF EInv, BusyWhileActive
<1> QED
  BY <1>1, <1>2 DEF EInv, BusyWhileActive

(* What a move of one thread does to who executes.                         *)
LEMMA MovesExecuting ==
    ASSUME AInv, NEW t \in Thread, NEW r, run' = [run EXCEPT ![t] = r]
    PROVE  \A a \in Agent : Executing(a)' =
              IF r.agent = a /\ r.at \in InTask THEN Executing(a) \union {t}
              ELSE Executing(a) \ {t}
<1>1. \A u \in Thread : run'[u] = IF u = t THEN r ELSE run[u]
  BY DEF AInv
<1>2. \A a \in Agent : Executing(a)' =
         {u \in Thread : IF u = t THEN r.agent = a /\ r.at \in InTask ELSE u \in Executing(a)}
  BY <1>1 DEF Executing, InTask
<1>3. \A a \in Agent : Executing(a) \subseteq Thread
  BY DEF Executing
<1> QED
  BY <1>2, <1>3

(* Moves that stay inside, or outside, of the agent's execution.           *)
LEMMA SameExecuting ==
    ASSUME AInv, NEW t \in Thread, NEW r, run' = [run EXCEPT ![t] = r],
           r.at \in InTask <=> run[t].at \in InTask,
           r.at \in InTask => r.agent = run[t].agent
    PROVE  \A a \in Agent : Executing(a)' = Executing(a)
<1>1. \A a \in Agent : t \in Executing(a) <=> r.agent = a /\ r.at \in InTask
  BY DEF Executing, InTask
<1>2. ASSUME NEW a \in Agent PROVE Executing(a)' = Executing(a)
  <2>1. Executing(a)' = IF r.agent = a /\ r.at \in InTask THEN Executing(a) \union {t}
                        ELSE Executing(a) \ {t}
    BY MovesExecuting
  <2>2. CASE t \in Executing(a)
    <3>1. Executing(a)' = Executing(a) \union {t}
      BY <1>1, <2>1, <2>2
    <3> QED
      BY <2>2, <3>1
  <2>3. CASE t \notin Executing(a)
    <3>1. Executing(a)' = Executing(a) \ {t}
      BY <1>1, <2>1, <2>3
    <3> QED
      BY <2>3, <3>1
  <2> QED
    BY <2>2, <2>3
<1> QED
  BY <1>2

LEMMA AgentsKeep ==
    ASSUME AInv, EInv, NEW a \in Agent,
           Register(a) \/ Unregister(a) \/ StartAgent(a) \/ StopAgent(a)
    PROVE  EInv'
<1>1. UNCHANGED <<active, leaks, run>>
  BY DEF Register, Unregister, StartAgent, StopAgent
<1>2. \A b \in Agent : Executing(b)' = Executing(b)
  BY <1>1 DEF Executing
<1>3. CASE Unregister(a)
  BY <1>1, <1>2, <1>3, ElsewhereExecuting DEF Unregister
<1>4. CASE Register(a) \/ StartAgent(a) \/ StopAgent(a)
  <2>1. state[a] # "busy" \/ active[a] = 0
    BY <1>4 DEF Register, StartAgent, StopAgent, Healthy, Stoppable
  <2>2. Executing(a) = {}
    BY <2>1, Resting
  <2>3. \E s \in {"registered", "online", "stopped"} : state' = [state EXCEPT ![a] = s]
    BY <1>4 DEF Register, StartAgent, StopAgent
  <2> QED
    BY <1>1, <1>2, <2>2, <2>3, ElsewhereExecuting
<1> QED
  BY <1>3, <1>4

LEMMA BeginTaskCounts ==
    ASSUME AInv, EInv, NEW t \in Thread, BeginTask(t)
    PROVE  EInv'
<1> DEFINE r == [run[t] EXCEPT !.at = "handler", !.number = call[t].number]
           a == run[t].agent
<1>1. /\ run[t].at = "taskAuth" /\ run' = [run EXCEPT ![t] = r]
      /\ active' = [active EXCEPT ![a] = @ + 1] /\ state' = [state EXCEPT ![a] = "busy"]
      /\ UNCHANGED leaks
  BY DEF BeginTask
<1>2. run[t] \in RunRec /\ a \in Agent
  BY <1>1 DEF AInv, RunOK
<1>3. r.agent = a /\ r.at \in InTask
  BY <1>2 DEF RunRec, InTask
<1>4. \A b \in Agent : t \notin Executing(b)
  BY <1>1 DEF Executing
<1> HIDE DEF r, a
<1>5. \A b \in Agent : Executing(b)' =
         IF b = a THEN Executing(b) \union {t} ELSE Executing(b)
  <2>1. \A b \in Agent : Executing(b) \ {t} = Executing(b)
    BY <1>4
  <2>2. \A b \in Agent : Executing(b)' =
          IF r.agent = b /\ r.at \in InTask THEN Executing(b) \union {t}
          ELSE Executing(b) \ {t}
    BY <1>1, MovesExecuting
  <2> QED
    BY <1>3, <2>1, <2>2
<1>6. Cardinality(Executing(a) \union {t}) = Cardinality(Executing(a)) + 1
  BY <1>2, <1>4, ExecutingFinite, FS_AddElement
<1>7. \A b \in Agent : /\ state'[b] = IF b = a THEN "busy" ELSE state[b]
                       /\ active'[b] = IF b = a THEN active[b] + 1 ELSE active[b]
  BY <1>1 DEF EInv
<1>8. \A b \in Agent : Executing(b)' # {} => state'[b] = "busy"
  BY <1>5, <1>7 DEF EInv, BusyWhileActive
<1>9. ASSUME NEW b \in Agent PROVE active'[b] = Cardinality(Executing(b)') + leaks'[b]
  <2>1. /\ active[b] = Cardinality(Executing(b)) + leaks[b] /\ leaks'[b] = leaks[b]
        /\ leaks[b] \in Nat /\ Cardinality(Executing(b)) \in Nat
    BY <1>1, ExecutingFinite DEF EInv, BusyWhileActive
  <2>2. CASE b = a
    <3>1. Cardinality(Executing(b)') = Cardinality(Executing(b)) + 1
      BY <1>5, <1>6, <2>2
    <3>2. active'[b] = active[b] + 1
      BY <1>7, <2>2
    <3> QED
      BY <2>1, <3>1, <3>2
  <2>3. CASE b # a
    BY <1>5, <1>7, <2>1, <2>3
  <2> QED
    BY <2>2, <2>3
<1>10. /\ state' = [b \in Agent |-> state'[b]]
       /\ active' \in [Agent -> Nat] /\ leaks' \in [Agent -> Nat]
  BY <1>1, <1>2 DEF EInv
<1> QED
  BY <1>8, <1>9, <1>10 DEF EInv, BusyWhileActive

(* A handler that returned or raised, or whose result could not be copied. *)
LEMMA EndTaskCounts ==
    ASSUME AInv, EInv, NEW t \in Thread,
           (\E quiet \in {"online", "degraded"} : EndTask(t, quiet)) \/ CopyRaises(t)
    PROVE  EInv'
<1> DEFINE a == run[t].agent
<1>1. run[t].at = "handler" /\ run' = [run EXCEPT ![t] = NoRun]
  BY DEF EndTask, CopyRaises, Ended
<1>2. a \in Agent
  BY <1>1 DEF AInv, RunOK
<1>3. NoRun.at \notin InTask
  BY DEF NoRun, InTask
<1>4. t \in Executing(a) /\ \A b \in Agent : b # a => t \notin Executing(b)
  BY <1>1 DEF Executing
<1> HIDE DEF a
<1>5. \A b \in Agent : Executing(b)' = IF b = a THEN Executing(b) \ {t} ELSE Executing(b)
  <2>1. \A b \in Agent : b # a => Executing(b) \ {t} = Executing(b)
    BY <1>4
  <2>2. \A b \in Agent : Executing(b)' =
          IF NoRun.agent = b /\ NoRun.at \in InTask THEN Executing(b) \union {t}
          ELSE Executing(b) \ {t}
    BY <1>1, MovesExecuting
  <2> QED
    BY <1>3, <2>1, <2>2
<1>6. /\ Cardinality(Executing(a) \ {t}) = Cardinality(Executing(a)) - 1
      /\ Cardinality(Executing(a) \ {t}) \in Nat
      /\ Executing(a) \ {t} # {} => Cardinality(Executing(a) \ {t}) > 0
  <2>1. /\ IsFiniteSet(Executing(a) \ {t})
        /\ Cardinality(Executing(a) \ {t}) = Cardinality(Executing(a)) - 1
    BY <1>2, <1>4, ExecutingFinite, FS_RemoveElement
  <2>2. Cardinality(Executing(a) \ {t}) \in Nat
    BY <2>1, FS_CardinalityType
  <2>3. Executing(a) \ {t} # {} => Cardinality(Executing(a) \ {t}) # 0
    BY <2>1, FS_EmptySet
  <2> DEFINE k == Cardinality(Executing(a) \ {t})
  <2>4. k \in Nat /\ k # 0 => k > 0
    OBVIOUS
  <2> HIDE DEF k
  <2>5. Executing(a) \ {t} # {} => k > 0
    BY <2>2, <2>3, <2>4 DEF k
  <2> QED
    BY <2>1, <2>2, <2>5 DEF k
<1>7. active[a] = Cardinality(Executing(a)) + leaks[a] /\ state[a] = "busy"
  BY <1>2, <1>4 DEF EInv, BusyWhileActive
<1>8. CASE \E quiet \in {"online", "degraded"} : EndTask(t, quiet)
  <2>1. PICK quiet \in {"online", "degraded"} :
          /\ active' = [active EXCEPT ![a] = @ - 1]
          /\ state' = [state EXCEPT ![a] = AfterTask(a, quiet)]
          /\ UNCHANGED leaks
    BY <1>8 DEF EndTask, a
  <2>2. /\ \A b \in Agent : active'[b] = IF b = a THEN active[b] - 1 ELSE active[b]
        /\ active'[a] = Cardinality(Executing(a) \ {t}) + leaks[a]
    BY <1>2, <1>6, <1>7, <2>1, ExecutingFinite DEF EInv
  <2>3. active' \in [Agent -> Nat] /\ leaks' \in [Agent -> Nat]
    BY <1>2, <1>6, <2>1, <2>2 DEF EInv
  <2>4. Executing(a) \ {t} # {} => state'[a] = "busy"
    <3>1. Executing(a) \ {t} # {} => active'[a] > 0
      BY <1>2, <1>6, <2>2 DEF EInv
    <3> QED
      BY <1>2, <2>1, <3>1 DEF EInv, AfterTask
  <2>5. \A b \in Agent : b # a => state'[b] = state[b]
    BY <2>1 DEF EInv
  <2>6. \A b \in Agent : Executing(b)' # {} => state'[b] = "busy"
    BY <1>5, <2>4, <2>5 DEF EInv, BusyWhileActive
  <2>7. \A b \in Agent : active'[b] = Cardinality(Executing(b)') + leaks'[b]
    BY <1>5, <2>1, <2>2 DEF EInv, BusyWhileActive
  <2>8. state' = [b \in Agent |-> state'[b]]
    BY <2>1 DEF EInv
  <2> QED
    BY <2>3, <2>6, <2>7, <2>8 DEF EInv, BusyWhileActive
<1>9. CASE CopyRaises(t)
  <2>1. leaks' = [leaks EXCEPT ![a] = @ + 1] /\ UNCHANGED <<state, active>>
    BY <1>9 DEF CopyRaises, a
  <2>2. \A b \in Agent : leaks'[b] = IF b = a THEN leaks[b] + 1 ELSE leaks[b]
    BY <2>1 DEF EInv
  <2>3. leaks' \in [Agent -> Nat]
    BY <1>2, <2>1 DEF EInv
  <2>4. \A b \in Agent : Executing(b)' # {} => state'[b] = "busy"
    BY <1>5, <1>7, <2>1 DEF EInv, BusyWhileActive
  <2>5. ASSUME NEW b \in Agent PROVE active'[b] = Cardinality(Executing(b)') + leaks'[b]
    <3>1. /\ active[b] = Cardinality(Executing(b)) + leaks[b] /\ active'[b] = active[b]
          /\ leaks[b] \in Nat /\ Cardinality(Executing(b)) \in Nat
      BY <2>1, ExecutingFinite DEF EInv, BusyWhileActive
    <3>2. CASE b = a
      <4>1. /\ Cardinality(Executing(b)') = Cardinality(Executing(b)) - 1
            /\ leaks'[b] = leaks[b] + 1
        BY <1>5, <1>6, <2>2, <3>2
      <4> QED
        BY <3>1, <4>1
    <3>3. CASE b # a
      BY <1>5, <2>2, <3>1, <3>3
    <3> QED
      BY <3>2, <3>3
  <2> QED
    BY <2>1, <2>3, <2>4, <2>5 DEF EInv, BusyWhileActive
<1> QED
  BY <1>8, <1>9

(* Moves of a thread that leave the agents alone.                          *)
LEMMA SameAgents ==
    ASSUME AInv, EInv, NEW t \in Thread, NEW r, run' = [run EXCEPT ![t] = r],
           r.at \in InTask <=> run[t].at \in InTask,
           r.at \in InTask => r.agent = run[t].agent,
           UNCHANGED <<state, active, leaks>>
    PROVE  EInv'
  BY SameExecuting, ElsewhereExecuting

LEMMA DispatchCounts ==
    ASSUME AInv, EInv, NEW t \in Thread,
           Dispatch(t) \/ TaskRefused(t) \/ AgentNotOnline(t)
    PROVE  EInv'
<1>1. CASE Dispatch(t)
  <2>1. PICK a \in Agent : /\ run' = [run EXCEPT ![t].at = "taskAuth", ![t].agent = a]
                           /\ run[t].at = "idle" /\ UNCHANGED <<state, active, leaks>>
    BY <1>1 DEF Dispatch, agentVars
  <2> DEFINE r == [run[t] EXCEPT !.at = "taskAuth", !.agent = a]
  <2>2. run[t] \in RunRec
    BY DEF AInv
  <2>3. r.at \notin InTask /\ run[t].at \notin InTask
    BY <2>1, <2>2 DEF RunRec, InTask
  <2>4. run' = [run EXCEPT ![t] = r]
    BY <2>1
  <2> HIDE DEF r
  <2> QED
    BY <2>1, <2>3, <2>4, SameAgents
<1>2. CASE TaskRefused(t) \/ AgentNotOnline(t)
  <2>1. /\ run' = [run EXCEPT ![t] = NoRun] /\ run[t].at = "taskAuth"
        /\ UNCHANGED <<state, active, leaks>>
    BY <1>2 DEF TaskRefused, AgentNotOnline, Ended, agentVars
  <2>2. NoRun.at \notin InTask /\ run[t].at \notin InTask
    BY <2>1 DEF NoRun, InTask
  <2> QED
    BY <2>1, <2>2, SameAgents
<1> QED
  BY <1>1, <1>2

LEMMA ToolStepCounts ==
    ASSUME AInv, EInv, NEW t \in Thread,
           (\E x \in Tool : Invoke(t, x)) \/ ToolRefused(t) \/ BeginTool(t) \/ EndTool(t)
    PROVE  EInv'
<1>1. run[t] \in RunRec
  BY DEF AInv
<1>2. CASE \E x \in Tool : Invoke(t, x)
  <2>1. PICK x \in Tool : /\ run' = [run EXCEPT ![t].at = "toolAuth", ![t].tool = x]
                          /\ run[t].at = "handler" /\ UNCHANGED <<state, active, leaks>>
    BY <1>2 DEF Invoke, agentVars
  <2> DEFINE r == [run[t] EXCEPT !.at = "toolAuth", !.tool = x]
  <2>2. r.at \in InTask /\ run[t].at \in InTask /\ r.agent = run[t].agent
    BY <1>1, <2>1 DEF RunRec, InTask
  <2>3. run' = [run EXCEPT ![t] = r]
    BY <2>1
  <2> HIDE DEF r
  <2> QED
    BY <2>1, <2>2, <2>3, SameAgents
<1>3. CASE ToolRefused(t) \/ EndTool(t)
  <2>1. /\ run' = [run EXCEPT ![t].at = "handler", ![t].tool = None]
        /\ run[t].at \in {"toolAuth", "tool"} /\ UNCHANGED <<state, active, leaks>>
    BY <1>3 DEF ToolRefused, EndTool, agentVars
  <2> DEFINE r == [run[t] EXCEPT !.at = "handler", !.tool = None]
  <2>2. r.at \in InTask /\ run[t].at \in InTask /\ r.agent = run[t].agent
    BY <1>1, <2>1 DEF RunRec, InTask
  <2>3. run' = [run EXCEPT ![t] = r]
    BY <2>1
  <2> HIDE DEF r
  <2> QED
    BY <2>1, <2>2, <2>3, SameAgents
<1>4. CASE BeginTool(t)
  <2>1. /\ run' = [run EXCEPT ![t].at = "tool"] /\ run[t].at = "toolAuth"
        /\ UNCHANGED <<state, active, leaks>>
    BY <1>4 DEF BeginTool, Move, agentVars
  <2> DEFINE r == [run[t] EXCEPT !.at = "tool"]
  <2>2. r.at \in InTask /\ run[t].at \in InTask /\ r.agent = run[t].agent
    BY <1>1, <2>1 DEF RunRec, InTask
  <2>3. run' = [run EXCEPT ![t] = r]
    BY <2>1
  <2> HIDE DEF r
  <2> QED
    BY <2>1, <2>2, <2>3, SameAgents
<1> QED
  BY <1>2, <1>3, <1>4

(* While a handler runs its agent is busy, whatever was stopped or         *)
(* unregistered since the agent was selected, and the agent's count is     *)
(* right but for executions whose result could not be copied               *)
(* (framework.py execute, start, stop; registry.py dispatch).              *)
THEOREM BusyAlwaysWhileActive == Spec => []BusyWhileActive
<1>1. Spec => []AInv
  BY AuthorisationInductive
<1>2. Init => EInv
  <2> SUFFICES ASSUME Init PROVE EInv
    OBVIOUS
  <2>1. /\ state = [a \in Agent |-> "new"] /\ active = [a \in Agent |-> 0]
        /\ leaks = [a \in Agent |-> 0]
    BY DEF Init
  <2>2. \A t \in Thread : run[t].at = "idle"
    BY DEF Init, NoRun
  <2>3. \A a \in Agent : Executing(a) = {}
    BY <2>2 DEF Executing
  <2>4. BusyWhileActive
    BY <2>1, <2>3, FS_EmptySet DEF BusyWhileActive
  <2> QED
    BY <2>1, <2>4 DEF EInv
<1>3. AInv /\ EInv /\ [Next]_vars => EInv'
  <2> SUFFICES ASSUME AInv, EInv, [Next]_vars PROVE EInv'
    OBVIOUS
  <2>1. ASSUME UNCHANGED <<state, active, leaks, run>> PROVE EInv'
    BY <2>1, ElsewhereExecuting DEF Executing
  <2>2. ASSUME NEW a \in Agent, Register(a) \/ Unregister(a) \/ StartAgent(a) \/ StopAgent(a)
        PROVE  EInv'
    BY <2>2, AgentsKeep
  <2>3. ASSUME NEW t \in Thread, Dispatch(t) \/ TaskRefused(t) \/ AgentNotOnline(t)
        PROVE  EInv'
    BY <2>3, DispatchCounts
  <2>4. ASSUME NEW t \in Thread, BeginTask(t) PROVE EInv'
    BY <2>4, BeginTaskCounts
  <2>5. ASSUME NEW t \in Thread,
               (\E quiet \in {"online", "degraded"} : EndTask(t, quiet)) \/ CopyRaises(t)
        PROVE  EInv'
    BY <2>5, EndTaskCounts
  <2>6. ASSUME NEW t \in Thread,
               (\E x \in Tool : Invoke(t, x)) \/ ToolRefused(t) \/ BeginTool(t) \/ EndTool(t)
        PROVE  EInv'
    BY <2>6, ToolStepCounts
  <2>7. ASSUME \/ Environment \/ UNCHANGED vars \/ StartTools \/ StopTools
               \/ \E x \in Tool : RegisterTool(x) \/ UnregisterTool(x)
        PROVE  EInv'
    <3>1. UNCHANGED <<state, active, leaks, run>>
      BY <2>7 DEF Environment, StartTools, StopTools, RegisterTool, UnregisterTool, vars,
         agentVars
    <3> QED
      BY <2>1, <3>1
  <2> QED
    BY <2>2, <2>3, <2>4, <2>5, <2>6, <2>7 DEF Next
<1>4. EInv => BusyWhileActive
  BY DEF EInv
<1> QED
  BY <1>1, <1>2, <1>3, <1>4, PTL DEF Spec

-----------------------------------------------------------------------------
(* Tools: whoever waits for a decision about a tool holds the lock, and    *)
(* the tool that is asked for, or runs, stays registered.                  *)
InTool == {"toolAuth", "tool"}
Running == {t \in Thread : run[t].at = "tool"}

Held ==
    /\ \A t \in Thread : run[t].at \in InTool => run[t].tool \in tools /\ toolsOn
    /\ \A t \in Thread : run[t].at = "toolAuth" => toolLock = t

TInv ==
    /\ tools \subseteq Tool
    /\ toolActive \in [Tool -> Nat] /\ invoking \in Nat
    /\ Held
    /\ \A x \in tools : toolActive[x] = Cardinality(Using(x))
    /\ invoking = Cardinality(Running)

LEMMA UsingFinite ==
    /\ \A x \in Tool : IsFiniteSet(Using(x)) /\ Cardinality(Using(x)) \in Nat
    /\ IsFiniteSet(Running) /\ Cardinality(Running) \in Nat
<1>1. /\ \A x \in Tool : IsFiniteSet(Using(x))
      /\ IsFiniteSet(Running)
  BY PolicyAssumption, FS_Subset DEF Using, Running
<1> QED
  BY <1>1, FS_CardinalityType

(* While the lock is free nobody waits for a decision about a tool, and    *)
(* while somebody waits nobody else does.                                  *)
LEMMA LockExcludes ==
    ASSUME TInv
    PROVE  /\ Free => \A t \in Thread : run[t].at # "toolAuth"
           /\ \A t, u \in Thread : run[t].at = "toolAuth" /\ run[u].at = "toolAuth" => t = u
  BY PolicyAssumption DEF TInv, Held, Free

(* Steps of a thread before and after it uses tools.                       *)
LEMMA AsideFromTools ==
    ASSUME AInv, TInv, NEW t \in Thread, NEW r, run' = [run EXCEPT ![t] = r],
           r.at \notin InTool, run[t].at \notin InTool, UNCHANGED toolVars
    PROVE  TInv'
<1>1. \A u \in Thread : run'[u] = IF u = t THEN r ELSE run[u]
  BY DEF AInv
<1>2. Held'
  BY <1>1 DEF TInv, Held, toolVars, InTool
<1>3. \A x \in Tool : Using(x)' = Using(x)
  BY <1>1 DEF Using, InTool
<1>4. Running' = Running
  BY <1>1 DEF Running, InTool
<1> QED
  BY <1>2, <1>3, <1>4 DEF TInv, toolVars

LEMMA DispatchAside ==
    ASSUME AInv, TInv, NEW t \in Thread,
           \/ Dispatch(t) \/ TaskRefused(t) \/ AgentNotOnline(t) \/ BeginTask(t)
           \/ \E quiet \in {"online", "degraded"} : EndTask(t, quiet)
           \/ CopyRaises(t)
    PROVE  TInv'
<1>1. run[t] \in RunRec
  BY DEF AInv
<1>2. CASE Dispatch(t)
  <2>1. PICK a \in Agent : /\ run' = [run EXCEPT ![t].at = "taskAuth", ![t].agent = a]
                           /\ run[t].at = "idle" /\ UNCHANGED toolVars
    BY <1>2 DEF Dispatch
  <2> DEFINE r == [run[t] EXCEPT !.at = "taskAuth", !.agent = a]
  <2>2. r.at \notin InTool /\ run[t].at \notin InTool /\ run' = [run EXCEPT ![t] = r]
    BY <1>1, <2>1 DEF RunRec, InTool
  <2> HIDE DEF r
  <2> QED
    BY <2>1, <2>2, AsideFromTools
<1>3. CASE BeginTask(t)
  <2>1. /\ run' = [run EXCEPT ![t].at = "handler", ![t].number = call[t].number]
        /\ run[t].at = "taskAuth" /\ UNCHANGED toolVars
    BY <1>3 DEF BeginTask
  <2> DEFINE r == [run[t] EXCEPT !.at = "handler", !.number = call[t].number]
  <2>2. r.at \notin InTool /\ run[t].at \notin InTool /\ run' = [run EXCEPT ![t] = r]
    BY <1>1, <2>1 DEF RunRec, InTool
  <2> HIDE DEF r
  <2> QED
    BY <2>1, <2>2, AsideFromTools
<1>4. CASE \/ TaskRefused(t) \/ AgentNotOnline(t) \/ CopyRaises(t)
           \/ \E quiet \in {"online", "degraded"} : EndTask(t, quiet)
  <2>1. /\ run' = [run EXCEPT ![t] = NoRun] /\ run[t].at \in {"taskAuth", "handler"}
        /\ UNCHANGED toolVars
    BY <1>4 DEF TaskRefused, AgentNotOnline, CopyRaises, EndTask, Ended
  <2>2. NoRun.at \notin InTool /\ run[t].at \notin InTool
    BY <2>1 DEF NoRun, InTool
  <2> QED
    BY <2>1, <2>2, AsideFromTools
<1> QED
  BY <1>2, <1>3, <1>4

LEMMA RegistryKeeps ==
    ASSUME TInv, UNCHANGED run,
           \/ \E x \in Tool : RegisterTool(x) \/ UnregisterTool(x)
           \/ StartTools \/ StopTools
    PROVE  TInv'
<1>1. Free /\ toolLock' = toolLock /\ invoking' = invoking
  BY DEF RegisterTool, UnregisterTool, StartTools, StopTools
<1>2. Running' = Running /\ \A x \in Tool : Using(x)' = Using(x)
  BY DEF Running, Using
<1>3. CASE StartTools
  BY <1>1, <1>2, <1>3 DEF StartTools, TInv, Held
<1>4. CASE StopTools
  <2>1. invoking = 0 /\ UNCHANGED <<tools, toolActive>>
    BY <1>4 DEF StopTools
  <2>2. Running = {}
    BY <2>1, UsingFinite, FS_EmptySet DEF TInv
  <2>3. \A t \in Thread : run[t].at \notin InTool
    BY <1>1, <2>2, LockExcludes DEF Running, InTool
  <2> QED
    BY <1>1, <1>2, <2>1, <2>3 DEF TInv, Held, InTool
<1>5. ASSUME NEW x \in Tool, RegisterTool(x) PROVE TInv'
  <2>1. /\ x \notin tools /\ tools' = tools \union {x}
        /\ toolActive' = [toolActive EXCEPT ![x] = 0] /\ toolsOn' = toolsOn
    BY <1>5 DEF RegisterTool
  <2>2. Using(x) = {}
    BY <2>1 DEF TInv, Held, InTool, Using
  <2>3. \A y \in tools' : toolActive'[y] = Cardinality(Using(y))
    BY <2>1, <2>2, FS_EmptySet DEF TInv
  <2>4. Held'
    BY <1>1, <2>1 DEF TInv, Held
  <2> QED
    BY <1>1, <1>2, <2>1, <2>3, <2>4 DEF TInv
<1>6. ASSUME NEW x \in Tool, UnregisterTool(x) PROVE TInv'
  <2>1. /\ x \in tools /\ toolActive[x] = 0 /\ tools' = tools \ {x}
        /\ UNCHANGED <<toolActive, toolsOn>>
    BY <1>6 DEF UnregisterTool, Removable
  <2>2. Using(x) = {}
    BY <2>1, UsingFinite, FS_EmptySet DEF TInv
  <2>3. \A t \in Thread : run[t].at \in InTool => run[t].tool # x
    BY <1>1, <2>2, LockExcludes DEF Using, InTool
  <2>4. Held'
    BY <1>1, <2>1, <2>3 DEF TInv, Held
  <2> QED
    BY <1>1, <1>2, <2>1, <2>4 DEF TInv
<1> QED
  BY <1>3, <1>4, <1>5, <1>6

LEMMA InvokeHolds ==
    ASSUME AInv, TInv, NEW t \in Thread, NEW x \in Tool, Invoke(t, x)
    PROVE  TInv'
<1> DEFINE r == [run[t] EXCEPT !.at = "toolAuth", !.tool = x]
<1>1. /\ run[t].at = "handler" /\ Free /\ toolsOn /\ x \in tools /\ toolLock' = t
      /\ run' = [run EXCEPT ![t] = r]
      /\ UNCHANGED <<toolsOn, tools, toolActive, invoking>>
  BY DEF Invoke
<1>2. r.at = "toolAuth" /\ r.tool = x
  BY DEF AInv, RunRec
<1>3. \A u \in Thread : run'[u] = IF u = t THEN r ELSE run[u]
  BY <1>1 DEF AInv
<1> HIDE DEF r
<1>4. Held'
  BY <1>1, <1>2, <1>3, LockExcludes DEF TInv, Held, InTool
<1>5. /\ \A y \in Tool : Using(y)' = Using(y)
      /\ Running' = Running
  BY <1>1, <1>2, <1>3 DEF Using, Running
<1> QED
  BY <1>1, <1>4, <1>5 DEF TInv

LEMMA ToolRefusedHolds ==
    ASSUME AInv, TInv, NEW t \in Thread, ToolRefused(t)
    PROVE  TInv'
<1> DEFINE r == [run[t] EXCEPT !.at = "handler", !.tool = None]
<1>1. /\ run[t].at = "toolAuth" /\ run' = [run EXCEPT ![t] = r]
      /\ UNCHANGED <<toolsOn, tools, toolActive, invoking>>
  BY DEF ToolRefused
<1>2. r.at = "handler"
  BY DEF AInv, RunRec
<1>3. \A u \in Thread : run'[u] = IF u = t THEN r ELSE run[u]
  BY <1>1 DEF AInv
<1> HIDE DEF r
<1>4. Held'
  BY <1>1, <1>2, <1>3, LockExcludes DEF TInv, Held, InTool
<1>5. /\ \A y \in Tool : Using(y)' = Using(y)
      /\ Running' = Running
  BY <1>1, <1>2, <1>3 DEF Using, Running
<1> QED
  BY <1>1, <1>4, <1>5 DEF TInv

LEMMA BeginToolHolds ==
    ASSUME AInv, TInv, NEW t \in Thread, BeginTool(t)
    PROVE  TInv'
<1> DEFINE r == [run[t] EXCEPT !.at = "tool"]
<1>1. /\ run[t].at = "toolAuth" /\ run' = [run EXCEPT ![t] = r]
      /\ toolActive' = [toolActive EXCEPT ![run[t].tool] = @ + 1]
      /\ invoking' = invoking + 1
      /\ UNCHANGED <<toolsOn, tools>>
  BY DEF BeginTool, Move
<1>2. PICK x \in Tool : x = run[t].tool /\ x \in tools
  BY <1>1 DEF TInv, Held, InTool
<1>3. r.at = "tool" /\ r.tool = x
  BY <1>2 DEF AInv, RunRec
<1>4. \A u \in Thread : run'[u] = IF u = t THEN r ELSE run[u]
  BY <1>1 DEF AInv
<1> HIDE DEF r
<1>5. Held'
  BY <1>1, <1>2, <1>3, <1>4, LockExcludes DEF TInv, Held, InTool
<1>6. \A y \in Tool : y # x => Using(y)' = Using(y)
  BY <1>1, <1>3, <1>4 DEF Using
<1>7. Using(x)' = Using(x) \union {t} /\ t \notin Using(x)
  BY <1>1, <1>3, <1>4 DEF Using
<1>8. Running' = Running \union {t} /\ t \notin Running
  BY <1>1, <1>3, <1>4 DEF Running
<1>9. /\ Cardinality(Using(x)') = Cardinality(Using(x)) + 1
      /\ Cardinality(Running') = Cardinality(Running) + 1
  BY <1>7, <1>8, UsingFinite, FS_AddElement
<1>10. \A y \in Tool : toolActive'[y] = IF y = x THEN toolActive[y] + 1 ELSE toolActive[y]
  BY <1>1, <1>2 DEF TInv
<1>11. ASSUME NEW y \in tools PROVE toolActive'[y] = Cardinality(Using(y))'
  <2>1. y \in Tool /\ toolActive[y] = Cardinality(Using(y))
    BY DEF TInv
  <2>2. CASE y = x
    BY <1>9, <1>10, <2>1, <2>2
  <2>3. CASE y # x
    BY <1>6, <1>10, <2>1, <2>3
  <2> QED
    BY <2>2, <2>3
<1>12. /\ toolActive' \in [Tool -> Nat] /\ invoking' \in Nat
       /\ invoking' = Cardinality(Running')
  BY <1>1, <1>2, <1>9 DEF TInv
<1> QED
  BY <1>1, <1>5, <1>11, <1>12 DEF TInv

LEMMA EndToolHolds ==
    ASSUME AInv, TInv, NEW t \in Thread, EndTool(t)
    PROVE  TInv'
<1> DEFINE r == [run[t] EXCEPT !.at = "handler", !.tool = None]
<1>1. /\ run[t].at = "tool" /\ run' = [run EXCEPT ![t] = r]
      /\ toolActive' = [toolActive EXCEPT ![run[t].tool] = @ - 1]
      /\ invoking' = invoking - 1
      /\ UNCHANGED <<toolsOn, tools, toolLock>>
  BY DEF EndTool
<1>2. PICK x \in Tool : x = run[t].tool /\ x \in tools
  BY <1>1 DEF TInv, Held, InTool
<1>3. r.at = "handler"
  BY DEF AInv, RunRec
<1>4. \A u \in Thread : run'[u] = IF u = t THEN r ELSE run[u]
  BY <1>1 DEF AInv
<1> HIDE DEF r
<1>5. Held'
  BY <1>1, <1>3, <1>4 DEF TInv, Held, InTool
<1>6. \A y \in Tool : y # x => Using(y)' = Using(y)
  BY <1>1, <1>2, <1>3, <1>4 DEF Using
<1>7. Using(x)' = Using(x) \ {t} /\ t \in Using(x)
  BY <1>1, <1>2, <1>3, <1>4 DEF Using
<1>8. Running' = Running \ {t} /\ t \in Running
  BY <1>1, <1>3, <1>4 DEF Running
<1>9. /\ Cardinality(Using(x)') = Cardinality(Using(x)) - 1
      /\ Cardinality(Running') = Cardinality(Running) - 1
  BY <1>7, <1>8, UsingFinite, FS_RemoveElement
<1>10. Cardinality(Using(x)') \in Nat /\ Cardinality(Running') \in Nat
  <2>1. IsFiniteSet(Using(x) \ {t}) /\ IsFiniteSet(Running \ {t})
    BY <1>2, UsingFinite, FS_RemoveElement
  <2> QED
    BY <1>7, <1>8, <2>1, FS_CardinalityType
<1>11. \A y \in Tool : toolActive'[y] = IF y = x THEN toolActive[y] - 1 ELSE toolActive[y]
  BY <1>1, <1>2 DEF TInv
<1>12. ASSUME NEW y \in tools PROVE toolActive'[y] = Cardinality(Using(y))'
  <2>1. y \in Tool /\ toolActive[y] = Cardinality(Using(y))
    BY DEF TInv
  <2>2. CASE y = x
    BY <1>9, <1>11, <2>1, <2>2
  <2>3. CASE y # x
    BY <1>6, <1>11, <2>1, <2>3
  <2> QED
    BY <2>2, <2>3
<1>13. invoking' = Cardinality(Running') /\ invoking' \in Nat
  BY <1>1, <1>9, <1>10 DEF TInv
<1>14. toolActive' \in [Tool -> Nat]
  <2>1. toolActive'[x] \in Nat
    BY <1>2, <1>10, <1>12
  <2> QED
    BY <1>1, <1>2, <1>11, <2>1 DEF TInv
<1> QED
  BY <1>1, <1>5, <1>12, <1>13, <1>14 DEF TInv

(* A tool that runs stays registered, in a registry that runs, and is      *)
(* counted once by its record and once by the registry, although the       *)
(* registry's lock is free while it runs (tools.py invoke, unregister,     *)
(* stop).                                                                  *)
THEOREM ToolAlwaysHeld == Spec => []ToolHeld
<1>1. Spec => []AInv
  BY AuthorisationInductive
<1>2. Init => TInv
  <2> SUFFICES ASSUME Init PROVE TInv
    OBVIOUS
  <2>1. tools = {} /\ toolActive = [x \in Tool |-> 0] /\ invoking = 0
    BY DEF Init
  <2>2. \A t \in Thread : run[t].at = "idle"
    BY DEF Init, NoRun
  <2>3. Held /\ Running = {}
    BY <2>2 DEF Held, InTool, Running
  <2> QED
    BY <2>1, <2>3, FS_EmptySet DEF TInv
<1>3. AInv /\ TInv /\ [Next]_vars => TInv'
  <2> SUFFICES ASSUME AInv, TInv, [Next]_vars PROVE TInv'
    OBVIOUS
  <2>1. ASSUME UNCHANGED <<toolVars, run>> PROVE TInv'
    BY <2>1 DEF TInv, Held, Using, Running, toolVars
  <2>2. ASSUME \/ Environment \/ UNCHANGED vars
               \/ \E a \in Agent : \/ Register(a) \/ Unregister(a)
                                   \/ StartAgent(a) \/ StopAgent(a)
        PROVE  TInv'
    <3>1. UNCHANGED <<toolVars, run>>
      BY <2>2 DEF Environment, Register, Unregister, StartAgent, StopAgent, vars
    <3> QED
      BY <2>1, <3>1
  <2>3. ASSUME NEW t \in Thread,
               \/ Dispatch(t) \/ TaskRefused(t) \/ AgentNotOnline(t) \/ BeginTask(t)
               \/ \E quiet \in {"online", "degraded"} : EndTask(t, quiet)
               \/ CopyRaises(t)
        PROVE  TInv'
    BY <2>3, DispatchAside
  <2>4. ASSUME NEW t \in Thread,
               (\E x \in Tool : Invoke(t, x)) \/ ToolRefused(t) \/ BeginTool(t) \/ EndTool(t)
        PROVE  TInv'
    BY <2>4, InvokeHolds, ToolRefusedHolds, BeginToolHolds, EndToolHolds
  <2>5. ASSUME \/ \E x \in Tool : RegisterTool(x) \/ UnregisterTool(x)
               \/ StartTools \/ StopTools
        PROVE  TInv'
    <3>1. UNCHANGED run
      BY <2>5 DEF RegisterTool, UnregisterTool, StartTools, StopTools
    <3> QED
      BY <2>5, <3>1, RegistryKeeps
  <2> QED
    BY <2>2, <2>3, <2>4, <2>5 DEF Next
<1>4. TInv => ToolHeld
  <2> SUFFICES ASSUME TInv PROVE ToolHeld
    OBVIOUS
  <2>1. \A x \in Tool : Using(x) # {} => x \in tools /\ toolsOn
    BY DEF TInv, Held, Using, InTool
  <2>2. UNION {Using(x) : x \in Tool} = Running
    BY DEF TInv, Held, Using, Running, InTool
  <2> QED
    BY <2>1, <2>2 DEF TInv, ToolHeld
<1> QED
  BY <1>1, <1>2, <1>3, <1>4, PTL DEF Spec

-----------------------------------------------------------------------------
(* The books of the policy: the history s tells what came of evaluations   *)
(* of L, no evaluation twice.                                              *)
Entry == [number : Nat, effect : Effect]

Tells(s, L) ==
    /\ \A i, j \in DOMAIN s : s[i].number = s[j].number => i = j
    /\ \A i \in DOMAIN s : s[i].number \in DOMAIN L /\ s[i].effect = L[s[i].number].is

Came(e) == {n \in DOMAIN ledger : ledger[n].is = e}

BInv ==
    /\ decisions \in Seq(Entry) /\ Tells(decisions, ledger)
    /\ counts \in [Effect -> Nat]
    /\ \A e \in Effect : counts[e] = Cardinality(Came(e))
    /\ last # None => last = Decision(Len(ledger), ledger[Len(ledger)].is)

LEMMA CameFinite ==
    ASSUME AInv
    PROVE  \A e : IsFiniteSet(Came(e)) /\ Cardinality(Came(e)) \in Nat
<1>1. DOMAIN ledger = 1..Len(ledger) /\ Len(ledger) \in Nat
  BY DEF AInv
<1>2. IsFiniteSet(DOMAIN ledger)
  BY <1>1, FS_Interval
<1>3. \A e : IsFiniteSet(Came(e))
  BY <1>2, FS_Subset DEF Came
<1> QED
  BY <1>3, FS_CardinalityType

(* An entry that is new to the history is appended, and the oldest goes    *)
(* when there are too many.                                                *)
LEMMA AppendTells ==
    ASSUME NEW s \in Seq(Entry), NEW L, Tells(s, L), NEW d \in Entry,
           d.number \in DOMAIN L, d.effect = L[d.number].is,
           \A i \in DOMAIN s : s[i].number # d.number
    PROVE  Bounded(Append(s, d)) \in Seq(Entry) /\ Tells(Bounded(Append(s, d)), L)
<1> DEFINE q == Append(s, d)
<1>1. /\ Len(s) \in Nat /\ DOMAIN s = 1..Len(s)
      /\ q \in Seq(Entry) /\ Len(q) = Len(s) + 1 /\ DOMAIN q = 1..(Len(s) + 1)
      /\ \A i \in 1..Len(s) : q[i] = s[i]
      /\ q[Len(s) + 1] = d
  OBVIOUS
<1> HIDE DEF q
<1>2. \A i \in DOMAIN q : (i \in DOMAIN s /\ q[i] = s[i]) \/ (i = Len(s) + 1 /\ q[i] = d)
  <2> DEFINE k == Len(s)
  <2>1. k \in Nat
    BY <1>1
  <2> HIDE DEF k
  <2>2. \A i \in 1..(k + 1) : i \in 1..k \/ i = k + 1
    BY <2>1
  <2>3. \A i \in DOMAIN q : i \in 1..Len(s) \/ i = Len(s) + 1
    BY <1>1, <2>2 DEF k
  <2>4. \A i \in 1..Len(s) : i \in DOMAIN s /\ q[i] = s[i]
    BY <1>1
  <2>5. q[Len(s) + 1] = d
    BY <1>1
  <2> QED
    BY <2>3, <2>4, <2>5
<1>3. Tells(q, L)
  BY <1>2 DEF Tells
<1>4. Tail(q) \in Seq(Entry) /\ Tells(Tail(q), L)
  <2>1. q # <<>>
    BY <1>1
  <2>2. /\ Tail(q) \in Seq(Entry) /\ Len(Tail(q)) = Len(s)
        /\ \A i \in 1..Len(s) : Tail(q)[i] = q[i + 1]
    BY <1>1, <2>1, HeadTailProperties
  <2>3. DOMAIN Tail(q) = 1..Len(s)
    BY <2>2
  <2>4. \A i \in DOMAIN Tail(q) : i \in Nat /\ i + 1 \in DOMAIN q /\ Tail(q)[i] = q[i + 1]
    BY <1>1, <2>2, <2>3
  <2>5. \A i, j \in DOMAIN Tail(q) : Tail(q)[i].number = Tail(q)[j].number => i + 1 = j + 1
    BY <1>3, <2>4 DEF Tells
  <2>6. \A i, j \in DOMAIN Tail(q) : i + 1 = j + 1 => i = j
    BY <2>4
  <2>7. \A i \in DOMAIN Tail(q) : /\ Tail(q)[i].number \in DOMAIN L
                                  /\ Tail(q)[i].effect = L[Tail(q)[i].number].is
    BY <1>3, <2>4 DEF Tells
  <2> QED
    BY <2>2, <2>5, <2>6, <2>7 DEF Tells
<1> QED
  BY <1>1, <1>3, <1>4 DEF Bounded, q

LEMMA EvaluateBooks ==
    ASSUME AInv, BInv, NEW t \in Thread, Evaluate(t)
    PROVE  BInv'
<1> DEFINE n == Len(ledger) + 1
<1>1. PICK e \in Effect :
        /\ ledger' = Append(ledger, [was |-> e, is |-> e])
        /\ decisions' = Bounded(Append(decisions, Decision(n, e)))
        /\ last' = Decision(n, e)
        /\ counts' = [counts EXCEPT ![e] = @ + 1]
  BY DEF Evaluate
<1>2. Len(ledger) \in Nat /\ DOMAIN ledger = 1..Len(ledger) /\ n \in Nat
  BY DEF AInv
<1>3. /\ DOMAIN ledger' = 1..n /\ Len(ledger') = n
      /\ ledger'[n].is = e
      /\ \A m \in 1..Len(ledger) : ledger'[m] = ledger[m]
  BY <1>1, <1>2 DEF AInv
<1>4. \A m : m \in 1..n <=> m \in 1..Len(ledger) \/ m = n
  BY <1>2
<1>5. n \notin DOMAIN ledger
  BY <1>2
<1> HIDE DEF n
<1>6. /\ Decision(n, e) \in Entry /\ Decision(n, e).number = n /\ Decision(n, e).effect = e
  BY <1>2 DEF Decision, Entry
<1>7. Tells(decisions, ledger')
  BY <1>2, <1>3, <1>4 DEF BInv, Tells
<1>8. \A i \in DOMAIN decisions : decisions[i].number # n
  BY <1>5 DEF BInv, Tells
<1>9. decisions' \in Seq(Entry) /\ Tells(decisions', ledger')
  BY <1>1, <1>3, <1>4, <1>6, <1>7, <1>8, AppendTells DEF BInv
<1>10. last' = Decision(Len(ledger'), ledger'[Len(ledger')].is)
  BY <1>1, <1>3
<1>11. ASSUME NEW f \in Effect PROVE counts'[f] = Cardinality(Came(f))'
  <2>1. counts[f] = Cardinality(Came(f)) /\ counts[f] \in Nat
    BY DEF BInv
  <2>2. CASE f = e
    <3>1. Came(f)' = Came(f) \union {n} /\ n \notin Came(f)
      BY <1>2, <1>3, <1>4, <1>5, <2>2 DEF Came
    <3>2. Cardinality(Came(f)') = Cardinality(Came(f)) + 1
      BY <3>1, CameFinite, FS_AddElement
    <3> QED
      BY <1>1, <2>1, <2>2, <3>2 DEF BInv
  <2>3. CASE f # e
    <3>1. Came(f)' = Came(f)
      BY <1>2, <1>3, <1>4, <2>3 DEF Came
    <3> QED
      BY <1>1, <2>1, <2>3, <3>1 DEF BInv
  <2> QED
    BY <2>2, <2>3
<1>12. counts' \in [Effect -> Nat]
  BY <1>1 DEF BInv
<1> QED
  BY <1>9, <1>10, <1>11, <1>12 DEF BInv

(* A decision that is replaced was "approval" until now: nobody else        *)
(* replaced it, wherever the history and last_decision have got to.         *)
LEMMA ReplaceBooks ==
    ASSUME AInv, BInv, NEW t \in Thread, Replace(t)
    PROVE  BInv'
<1>1. PICK n \in DOMAIN ledger, e \in {"allow", "deny"} :
        /\ ledger[n].was = "approval" /\ ledger[n].is = "approval"
        /\ decisions' = Replaced(n, e)
        /\ counts' = Recounted("approval", e)
        /\ last' = IF last = Decision(n, "approval") THEN Decision(n, e) ELSE last
        /\ ledger' = [ledger EXCEPT ![n].is = e]
  <2>1. call[t].at \in Judging /\ CallOK(call[t])
    BY DEF Replace, AInv, Judging
  <2>2. /\ call[t].number \in DOMAIN ledger
        /\ ledger[call[t].number].was = "approval" /\ ledger[call[t].number].is = "approval"
    BY <2>1 DEF CallOK
  <2> QED
    BY <2>2 DEF Replace
<1>2. Len(ledger) \in Nat /\ DOMAIN ledger = 1..Len(ledger) /\ n \in Nat
  BY DEF AInv
<1>3. ledger[n] \in [was : Effect, is : Effect]
  BY <1>2, ElementOfSeq DEF AInv
<1>4. /\ DOMAIN ledger' = DOMAIN ledger /\ Len(ledger') = Len(ledger)
      /\ ledger'[n].is = e
      /\ \A m \in DOMAIN ledger : m # n => ledger'[m] = ledger[m]
  <2>1. ledger' = [ledger EXCEPT ![n] = [ledger[n] EXCEPT !.is = e]]
    BY <1>1
  <2>2. [ledger[n] EXCEPT !.is = e] \in [was : Effect, is : Effect]
    BY <1>3 DEF Effect
  <2>3. Len(ledger') = Len(ledger)
    BY <1>2, <2>1, <2>2, ExceptSeq DEF AInv
  <2>4. ledger'[n] = [ledger[n] EXCEPT !.is = e]
    BY <1>2, <2>1
  <2>5. \A m \in DOMAIN ledger : m # n => ledger'[m] = ledger[m]
    BY <2>1
  <2>6. DOMAIN ledger' = DOMAIN ledger
    BY <2>1
  <2>7. ledger'[n].is = e
    BY <1>3, <2>4
  <2> QED
    BY <2>3, <2>5, <2>6, <2>7
<1>5. Decision(n, e) \in Entry /\ Decision(n, e).number = n /\ Decision(n, e).effect = e
  BY <1>2 DEF Decision, Entry, Effect
<1>6. decisions' \in Seq(Entry) /\ Tells(decisions', ledger')
  <2>1. CASE \E i \in DOMAIN decisions : decisions[i].number = n
    <3> DEFINE s == [i \in DOMAIN decisions |->
                       IF decisions[i].number = n THEN Decision(n, e) ELSE decisions[i]]
    <3>1. decisions' = s
      BY <1>1, <2>1 DEF Replaced
    <3>2. Len(decisions) \in Nat /\ DOMAIN decisions = 1..Len(decisions)
          /\ \A i \in DOMAIN decisions : decisions[i] \in Entry
      BY ElementOfSeq DEF BInv
    <3>3. \A i \in DOMAIN decisions : s[i] \in Entry /\ s[i].number = decisions[i].number
      BY <1>5, <3>2
    <3>4. s \in Seq(Entry)
      BY <3>2, <3>3
    <3>5. Tells(s, ledger')
      BY <1>4, <1>5, <3>3 DEF BInv, Tells
    <3> QED
      BY <3>1, <3>4, <3>5
  <2>2. CASE \A i \in DOMAIN decisions : decisions[i].number # n
    <3>1. decisions' = Bounded(Append(decisions, Decision(n, e)))
      BY <1>1, <2>2 DEF Replaced
    <3>2. Tells(decisions, ledger')
      BY <1>4, <2>2 DEF BInv, Tells
    <3> QED
      BY <1>4, <1>5, <2>2, <3>1, <3>2, AppendTells DEF BInv
  <2> QED
    BY <2>1, <2>2
<1>7. last' # None => last' = Decision(Len(ledger'), ledger'[Len(ledger')].is)
  <2> SUFFICES ASSUME last' # None
               PROVE  last' = Decision(Len(ledger), ledger'[Len(ledger)].is)
    BY <1>4
  <2>1. CASE last = Decision(n, "approval")
    <3>1. last = Decision(Len(ledger), ledger[Len(ledger)].is)
      BY <2>1, <1>2, PolicyAssumption DEF BInv, Decision, Effect
    <3>2. n = Len(ledger)
      BY <2>1, <3>1 DEF Decision
    <3> QED
      BY <1>1, <1>4, <2>1, <3>2
  <2>2. CASE last # Decision(n, "approval")
    <3>1. last' = last /\ last = Decision(Len(ledger), ledger[Len(ledger)].is)
      BY <1>1, <2>2 DEF BInv
    <3>2. Len(ledger) # n
      BY <1>1, <2>2, <3>1
    <3>3. Len(ledger) \in DOMAIN ledger
      BY <1>2
    <3> QED
      BY <1>4, <3>1, <3>2, <3>3
  <2> QED
    BY <2>1, <2>2
<1>8. ASSUME NEW f \in Effect PROVE counts'[f] = Cardinality(Came(f))' /\ counts'[f] \in Nat
  <2>1. counts[f] = Cardinality(Came(f)) /\ counts[f] \in Nat
    BY DEF BInv
  <2>2. "approval" \in Effect /\ e \in Effect /\ e # "approval"
    BY DEF Effect
  <2>3. counts'[f] = IF f = e THEN counts[f] + 1
                     ELSE IF f = "approval" THEN Less(counts[f]) ELSE counts[f]
    BY <1>1, <2>2 DEF Recounted, BInv
  <2>4. CASE f = e
    <3>1. Came(f)' = Came(f) \union {n} /\ n \notin Came(f)
      BY <1>1, <1>4, <2>2, <2>4 DEF Came
    <3>2. Cardinality(Came(f)') = Cardinality(Came(f)) + 1
      BY <3>1, CameFinite, FS_AddElement
    <3> QED
      BY <2>1, <2>3, <2>4, <3>2
  <2>5. CASE f = "approval"
    <3>1. Came(f)' = Came(f) \ {n} /\ n \in Came(f)
      BY <1>1, <1>4, <2>2, <2>5 DEF Came
    <3>2. Cardinality(Came(f)') = Cardinality(Came(f)) - 1
      BY <3>1, CameFinite, FS_RemoveElement
    <3>3. Cardinality(Came(f)) # 0
      BY <3>1, CameFinite, FS_EmptySet
    <3> QED
      BY <2>1, <2>2, <2>3, <2>5, <3>2, <3>3 DEF Less
  <2>6. CASE f # e /\ f # "approval"
    <3>1. Came(f)' = Came(f)
      BY <1>1, <1>4, <2>6 DEF Came
    <3> QED
      BY <2>1, <2>3, <2>6, <3>1
  <2> QED
    BY <2>4, <2>5, <2>6
<1>9. counts' \in [Effect -> Nat]
  <2>1. counts' = [f \in Effect |-> counts'[f]]
    BY <1>1 DEF Recounted, BInv
  <2> QED
    BY <1>8, <2>1
<1> QED
  BY <1>6, <1>7, <1>8, <1>9 DEF BInv

(* The counts, the bounded history and last_decision tell what came of     *)
(* each evaluation, once, although it is replaced after the lock was       *)
(* released and others evaluated meanwhile (policy.py:644).                *)
THEOREM BooksAlwaysAgree == Spec => []BooksAgree
<1>1. Spec => []AInv
  BY AuthorisationInductive
<1>2. Init => BInv
  <2> SUFFICES ASSUME Init PROVE BInv
    OBVIOUS
  <2>1. /\ ledger = <<>> /\ decisions = <<>> /\ last = None
        /\ counts = [e \in Effect |-> 0]
    BY DEF Init, PolicyInit
  <2>2. \A e \in Effect : Came(e) = {}
    BY <2>1 DEF Came
  <2> QED
    BY <2>1, <2>2, FS_EmptySet DEF BInv, Tells
<1>3. AInv /\ BInv /\ [Next]_vars => BInv'
  <2> SUFFICES ASSUME AInv, BInv, [Next]_vars PROVE BInv'
    OBVIOUS
  <2>1. ASSUME UNCHANGED decisionVars PROVE BInv'
    BY <2>1 DEF BInv, Came, decisionVars
  <2>2. ASSUME NEW t \in Thread, Evaluate(t) PROVE BInv'
    BY <2>2, EvaluateBooks
  <2>3. ASSUME NEW t \in Thread, Replace(t) PROVE BInv'
    BY <2>3, ReplaceBooks
  <2>4. ASSUME Environment PROVE BInv'
    <3>1. \/ UNCHANGED decisionVars
          \/ \E t \in Thread : Evaluate(t) \/ Replace(t)
      BY <2>4 DEF Environment, RegisterRule, UnregisterRule, StartPolicy, StopPolicy,
         OwnerActs, Authorising, PolicyIsOff, AskGate, GateRaises
    <3> QED
      BY <2>1, <2>2, <2>3, <3>1
  <2>5. ASSUME \/ UNCHANGED vars \/ StartTools \/ StopTools
               \/ \E a \in Agent : \/ Register(a) \/ Unregister(a)
                                   \/ StartAgent(a) \/ StopAgent(a)
               \/ \E x \in Tool : RegisterTool(x) \/ UnregisterTool(x)
        PROVE  BInv'
    <3>1. UNCHANGED decisionVars
      BY <2>5 DEF vars, policyVars, StartTools, StopTools, Register, Unregister, StartAgent,
         StopAgent, RegisterTool, UnregisterTool
    <3> QED
      BY <2>1, <3>1
  <2>6. ASSUME NEW t \in Thread,
               \/ Dispatch(t) \/ TaskRefused(t) \/ AgentNotOnline(t) \/ BeginTask(t)
               \/ \E quiet \in {"online", "degraded"} : EndTask(t, quiet)
               \/ CopyRaises(t)
               \/ \E x \in Tool : Invoke(t, x)
               \/ ToolRefused(t) \/ BeginTool(t) \/ EndTool(t)
        PROVE  BInv'
    <3>1. UNCHANGED decisionVars
      BY <2>6 DEF Dispatch, TaskRefused, AgentNotOnline, BeginTask, EndTask, CopyRaises,
         Invoke, ToolRefused, BeginTool, EndTool, policyVars
    <3> QED
      BY <2>1, <3>1
  <2> QED
    BY <2>4, <2>5, <2>6 DEF Next
<1>4. BInv => BooksAgree
  BY DEF BInv, BooksAgree, Tells, Came
<1> QED
  BY <1>1, <1>2, <1>3, <1>4, PTL DEF Spec
=============================================================================
