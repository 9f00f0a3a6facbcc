------------------------- MODULE OwnerConsoleProofs -------------------------
(***************************************************************************)
(* Proofs about OwnerConsole, for any consoles, requests and number of     *)
(* decisions.  What a decision did to a request stays visible in its       *)
(* status, which is why the gate accepts no second verdict; and a console  *)
(* that waits still has the action and the selection that its message      *)
(* carries, which is why it may remember them when the reply comes.        *)
(***************************************************************************)
EXTENDS OwnerConsole, SequenceTheorems, TLAPS

(* A decision that took effect has left the request undecided no more, and *)
(* one that was withdrawn is withdrawn for good.                           *)
Settled == \A e \in Range(effective) :
    /\ status[e.approval] \notin {"none", "pending"}
    /\ e.action = "cancel" => status[e.approval] = "cancelled"

(* What is under way was sent; and what is reported as done was done.      *)
MailTrue == \A m \in mail :
    /\ m.number <= sent
    /\ m.at \in {"performed", "completed"} =>
         [number |-> m.number, action |-> m.action, approval |-> m.approval] \in Range(effective)

(* A console waits for what it sent.                                       *)
AwaitsOwn == \A c \in Console :
    /\ con[c].awaits <= sent
    /\ con[c].at = "dialing" => con[c].selected # None
    /\ con[c].at = "waiting" => \A m \in mail :
         m.number = con[c].awaits =>
             m.action = con[c].action /\ m.approval = con[c].selected

IInv == TypeOK /\ Settled /\ MailTrue /\ AwaitsOwn /\ HistoryTrue /\ OneVerdict

-----------------------------------------------------------------------------
(* What is in a sequence is what its elements are.                         *)
LEMMA RangeTyped ==
    ASSUME NEW S, NEW s \in Seq(S)
    PROVE  Range(s) \subseteq S /\ \A i \in DOMAIN s : s[i] \in Range(s) /\ i \in 1..Len(s)
<1>1. Range(s) = {s[i] : i \in 1..Len(s)} /\ DOMAIN s = 1..Len(s)
  BY DEF Range
<1>2. \A i \in 1..Len(s) : s[i] \in S
  BY ElementOfSeq
<1> QED
  BY <1>1, <1>2

(* Nothing has been sent or decided yet.                                   *)
LEMMA InitEstablishes == Init => IInv
<1> SUFFICES ASSUME Init PROVE IInv
  OBVIOUS
<1>1. Closed \in ConsoleState
  BY ConsoleAssumption DEF Closed, ConsoleState, Status, Action
<1>2. TypeOK
  <2>1. status \in [Approval -> Status] /\ sent \in 0..MaxSends
    BY ConsoleAssumption DEF Init, Status
  <2>2. con \in [Console -> ConsoleState]
    BY <1>1 DEF Init
  <2>3. effective \in Seq(Decision) /\ commandsOn \in BOOLEAN /\ mail = {}
    BY EmptySeq DEF Init
  <2> QED
    BY <2>1, <2>2, <2>3 DEF TypeOK
<1>3. AwaitsOwn /\ HistoryTrue
  BY DEF Init, Closed, AwaitsOwn, HistoryTrue
<1>4. DOMAIN effective = {} /\ Range(effective) = {}
  BY DEF Init, Range
<1> QED
  BY <1>2, <1>3, <1>4 DEF Init, IInv, Settled, MailTrue, OneVerdict

(* A step that leaves the mail alone and changes one console without       *)
(* making it wait or adding to its history keeps the invariant.            *)
LEMMA ConsoleStep ==
    ASSUME IInv, NEW c \in Console, NEW s \in ConsoleState,
           s.at # "waiting", s.awaits <= sent,
           s.at = "dialing" => s.selected # None,
           s.history = con[c].history \/ s.history = <<>>,
           con' = [con EXCEPT ![c] = s],
           UNCHANGED <<serverVars, mail, sent>>
    PROVE  IInv'
<1>1. TypeOK'
  BY DEF IInv, TypeOK, serverVars
<1>2. \A d \in Console : con'[d] = IF d = c THEN s ELSE con[d]
  BY DEF IInv, TypeOK
<1>3. AwaitsOwn'
  BY <1>2 DEF IInv, AwaitsOwn, serverVars
<1>4. HistoryTrue'
  BY <1>2 DEF IInv, HistoryTrue, serverVars
<1> QED
  BY <1>1, <1>3, <1>4 DEF IInv, Settled, MailTrue, OneVerdict, serverVars

(* A message that is taken away, or goes on without having an effect.      *)
LEMMA MailStep ==
    ASSUME IInv, NEW m \in mail,
           \/ mail' = mail \ {m}
           \/ \E l \in {"admitted", "refused", "failed", "completed"} :
                Becomes(m, l) /\ (l = "completed" => m.at = "performed"),
           UNCHANGED <<serverVars, sent, con>>
    PROVE  IInv'
<1>1. \A n \in mail' : n \in mail \/ \E l \in {"admitted", "refused", "failed", "completed"} :
                n = [m EXCEPT !.at = l] /\ (l = "completed" => m.at = "performed")
  BY DEF Becomes
<1>2. TypeOK'
  BY <1>1 DEF IInv, TypeOK, serverVars
<1>3. MailTrue'
  BY <1>1 DEF IInv, TypeOK, MailTrue, serverVars
<1>4. AwaitsOwn'
  BY <1>1 DEF IInv, TypeOK, AwaitsOwn, serverVars
<1> QED
  BY <1>2, <1>3, <1>4 DEF IInv, Settled, HistoryTrue, OneVerdict, serverVars

-----------------------------------------------------------------------------
(* A new message is none that another console waits for.                   *)
LEMMA SendKeeps ==
    ASSUME IInv, NEW c \in Console, Send(c)
    PROVE  IInv'
<1> DEFINE n == [number |-> sent + 1, action |-> con[c].action,
                 approval |-> con[c].selected, at |-> "sent"]
           s == [con[c] EXCEPT !.at = "waiting", !.awaits = sent + 1]
<1>1. /\ sent \in Nat /\ sent + 1 \in 1..MaxSends /\ sent + 1 \in 0..MaxSends
      /\ MaxSends \in Nat /\ sent' = sent + 1
  BY ConsoleAssumption DEF IInv, TypeOK, Send
<1>2. con[c] \in ConsoleState
  BY DEF IInv, TypeOK
<1>3. s \in ConsoleState
  BY <1>1, <1>2 DEF ConsoleState
<1>4. /\ s.at = "waiting" /\ s.awaits = sent + 1 /\ s.history = con[c].history
       /\ s.action = con[c].action /\ s.selected = con[c].selected
  BY <1>2 DEF ConsoleState
<1>5. n \in [number : 1..MaxSends, action : Action, approval : Approval,
             at : {"sent", "admitted", "refused", "performed", "completed", "failed"}]
  <2>1. con[c].action \in Action /\ con[c].selected \in Approval \union {None}
    BY <1>2 DEF ConsoleState
  <2>2. con[c].selected # None
    BY DEF IInv, AwaitsOwn, Send
  <2> QED
    BY <1>1, <2>1, <2>2
<1>6. con' = [con EXCEPT ![c] = s] /\ mail' = mail \union {n}
  BY DEF Send
<1>7. n.number = sent + 1 /\ n.at = "sent" /\ n.action = s.action /\ n.approval = s.selected
  BY <1>4
<1> HIDE DEF n, s
<1>8. \A d \in Console : con'[d] = IF d = c THEN s ELSE con[d]
  BY <1>6 DEF IInv, TypeOK
<1>9. UNCHANGED <<status, commandsOn, effective>>
  BY DEF Send, serverVars
<1>10. TypeOK'
  BY <1>1, <1>3, <1>5, <1>6, <1>9 DEF IInv, TypeOK
<1>11. \A d \in Console : con[d].awaits <= sent /\ con[d].awaits \in Nat
  BY DEF IInv, TypeOK, AwaitsOwn, ConsoleState
<1>12. \A m \in mail : m.number <= sent /\ m.number \in Nat
  <2> SUFFICES ASSUME NEW m \in mail PROVE m.number <= sent /\ m.number \in Nat
    OBVIOUS
  <2>1. m.number \in 1..MaxSends
    BY DEF IInv, TypeOK
  <2>2. m.number <= sent
    BY DEF IInv, MailTrue
  <2> QED
    BY <1>1, <2>1, <2>2
<1>13. MailTrue'
  <2> SUFFICES ASSUME NEW m \in mail'
               PROVE  /\ m.number <= sent'
                      /\ m.at \in {"performed", "completed"} =>
                           [number |-> m.number, action |-> m.action,
                            approval |-> m.approval] \in Range(effective)'
    BY DEF MailTrue
  <2>1. CASE m = n
    BY <2>1, <1>1, <1>7
  <2>2. CASE m \in mail
    BY <2>2, <1>1, <1>12, <1>9 DEF IInv, MailTrue
  <2> QED
    BY <2>1, <2>2, <1>6
<1>14. AwaitsOwn'
  <2> SUFFICES ASSUME NEW d \in Console
               PROVE  /\ con'[d].awaits <= sent'
                      /\ con'[d].at = "dialing" => con'[d].selected # None
                      /\ con'[d].at = "waiting" => \A m \in mail' :
                           m.number = con'[d].awaits =>
                               m.action = con'[d].action /\ m.approval = con'[d].selected
    BY DEF AwaitsOwn
  <2>1. CASE d = c
    BY <2>1, <1>1, <1>4, <1>6, <1>7, <1>8, <1>12
  <2>2. CASE d # c
    BY <2>2, <1>1, <1>6, <1>7, <1>8, <1>11 DEF IInv, AwaitsOwn
  <2> QED
    BY <2>1, <2>2
<1>15. HistoryTrue'
  BY <1>4, <1>8, <1>9 DEF IInv, HistoryTrue
<1> QED
  BY <1>10, <1>13, <1>14, <1>15, <1>9 DEF IInv, Settled, OneVerdict

(* What a console adds to its history is what its message has done.        *)
LEMMA ConfirmedKeeps ==
    ASSUME IInv, NEW c \in Console, NEW m \in mail, Confirmed(c, m)
    PROVE  IInv'
<1> DEFINE r == [number |-> m.number, action |-> con[c].action,
                 approval |-> con[c].selected]
           h == Remembered(c, r)
           s == [con[c] EXCEPT !.at = "refreshing", !.history = h]
<1>1. con[c] \in ConsoleState /\ con[c].history \in Seq(Decision)
  BY DEF IInv, TypeOK, ConsoleState
<1>2. m.at = "completed" /\ con[c].at = "waiting" /\ con[c].awaits = m.number
  BY DEF Confirmed, Receives, Affirmative
<1>3. m.action = con[c].action /\ m.approval = con[c].selected
  BY <1>2 DEF IInv, AwaitsOwn
<1>4. r \in Range(effective) /\ r \in Decision
  <2>1. r \in Range(effective) /\ effective \in Seq(Decision)
    BY <1>2, <1>3 DEF IInv, MailTrue, TypeOK
  <2> QED
    BY <2>1, RangeTyped
<1>5. con' = [con EXCEPT ![c] = s] /\ mail' = mail \ {m} /\ UNCHANGED <<serverVars, sent>>
  BY DEF Confirmed
<1> HIDE DEF r
<1>6. h \in Seq(Decision) /\ \A i \in DOMAIN h : h[i] \in Range(effective)
  <2>1. \A i \in 1..Len(con[c].history) : con[c].history[i] \in Range(effective)
    BY <1>1 DEF IInv, HistoryTrue
  <2>2. CASE Len(con[c].history) = HistoryLimit
    <3>1. con[c].history # <<>>
      BY <2>2, <1>1, ConsoleAssumption
    <3>2. DEFINE t == Tail(con[c].history)
    <3>3. /\ t \in Seq(Decision) /\ Len(t) = Len(con[c].history) - 1
          /\ \A i \in 1..Len(t) : t[i] = con[c].history[i + 1]
      BY <3>1, <1>1
    <3>4. \A i \in 1..Len(t) : t[i] \in Range(effective)
      BY <3>3, <2>1, <1>1
    <3>5. h = Append(t, r)
      BY <2>2 DEF Remembered
    <3> HIDE DEF t, h
    <3> QED
      BY <3>3, <3>4, <3>5, <1>4
  <2>3. CASE Len(con[c].history) # HistoryLimit
    <3>1. h = Append(con[c].history, r)
      BY <2>3 DEF Remembered
    <3> HIDE DEF h
    <3> QED
      BY <3>1, <2>1, <1>1, <1>4
  <2> QED
    BY <2>2, <2>3
<1> HIDE DEF h
<1>7. s \in ConsoleState /\ s.at = "refreshing" /\ s.awaits = con[c].awaits /\ s.history = h
  BY <1>1, <1>6 DEF ConsoleState
<1> HIDE DEF s
<1>8. \A d \in Console : con'[d] = IF d = c THEN s ELSE con[d]
  BY <1>5 DEF IInv, TypeOK
<1>9. TypeOK'
  BY <1>5, <1>7 DEF IInv, TypeOK, serverVars
<1>10. MailTrue'
  BY <1>5 DEF IInv, MailTrue, serverVars
<1>11. AwaitsOwn'
  BY <1>5, <1>7, <1>8 DEF IInv, AwaitsOwn
<1>12. HistoryTrue'
  BY <1>5, <1>6, <1>7, <1>8 DEF IInv, HistoryTrue, serverVars
<1> QED
  BY <1>5, <1>9, <1>10, <1>11, <1>12 DEF IInv, Settled, OneVerdict, serverVars

(* What took effect before is where it was, and the decision comes last.   *)
LEMMA EffectAppended ==
    ASSUME NEW s \in Seq(Decision), NEW e \in Decision
    PROVE  /\ Append(s, e) \in Seq(Decision)
           /\ Range(Append(s, e)) = Range(s) \union {e}
           /\ DOMAIN Append(s, e) = DOMAIN s \union {Len(s) + 1}
           /\ Append(s, e)[Len(s) + 1] = e
           /\ \A i \in DOMAIN s : i \in 1..Len(s) /\ Append(s, e)[i] = s[i]
<1>1. /\ Len(s) \in Nat /\ DOMAIN s = 1..Len(s)
      /\ Append(s, e) \in Seq(Decision)
      /\ DOMAIN Append(s, e) = 1..(Len(s) + 1)
      /\ Append(s, e)[Len(s) + 1] = e /\ \A i \in 1..Len(s) : Append(s, e)[i] = s[i]
  OBVIOUS
<1>2. 1..(Len(s) + 1) = 1..Len(s) \union {Len(s) + 1}
  BY <1>1
<1> QED
  BY <1>1, <1>2 DEF Range

(* The gate accepts a verdict only for a request that has none, and a      *)
(* withdrawal only once.                                                   *)
LEMMA PerformKeeps ==
    ASSUME IInv, NEW m \in mail, Perform(m)
    PROVE  IInv'
<1> DEFINE e == [number |-> m.number, action |-> m.action, approval |-> m.approval]
           n == [m EXCEPT !.at = "performed"]
<1>1. m.number \in 1..MaxSends /\ m.action \in Action /\ m.approval \in Approval
  BY DEF IInv, TypeOK
<1>2. /\ mail' = (mail \ {m}) \union {n} /\ effective' = Append(effective, e)
      /\ UNCHANGED <<commandsOn, sent, con>>
      /\ status' = [status EXCEPT ![m.approval] = Outcome(m.action)]
  BY DEF Perform, Becomes
<1>3. /\ n \in [number : 1..MaxSends, action : Action, approval : Approval,
             at : {"sent", "admitted", "refused", "performed", "completed", "failed"}]
      /\ n.number = m.number /\ n.action = m.action /\ n.approval = m.approval
      /\ e = [number |-> n.number, action |-> n.action, approval |-> n.approval]
  BY DEF IInv, TypeOK
<1>4. e \in Decision /\ e.number = m.number /\ e.action = m.action /\ e.approval = m.approval
  BY <1>1 DEF Decision
<1> HIDE DEF e, n
<1>5. Outcome(m.action) \in Status \ {"none", "pending"}
      /\ (m.action = "cancel" => Outcome(m.action) = "cancelled")
  BY <1>1 DEF Outcome, Action, Status
<1>6. /\ effective' \in Seq(Decision) /\ Range(effective)' = Range(effective) \union {e}
      /\ DOMAIN effective' = DOMAIN effective \union {Len(effective) + 1}
      /\ effective'[Len(effective) + 1] = e /\ Len(effective) \in Nat
      /\ \A i \in DOMAIN effective : i \in 1..Len(effective) /\ effective'[i] = effective[i]
  <2>1. effective \in Seq(Decision)
    BY DEF IInv, TypeOK
  <2> QED
    BY <2>1, <1>2, <1>4, EffectAppended
<1>14. TypeOK'
  BY <1>2, <1>3, <1>5, <1>6 DEF IInv, TypeOK
<1>7. /\ status \in [Approval -> Status]
      /\ \A i \in DOMAIN effective : effective[i] \in Range(effective)
      /\ \A d \in Range(effective) : d \in Decision /\ d.approval \in Approval
  <2>1. effective \in Seq(Decision) /\ status \in [Approval -> Status]
    BY DEF IInv, TypeOK
  <2>2. Range(effective) \subseteq Decision /\ \A i \in DOMAIN effective : effective[i] \in Range(effective)
    BY <2>1, RangeTyped
  <2> QED
    BY <2>1, <2>2 DEF Decision
<1>8. ASSUME NEW d \in Range(effective), d.approval = m.approval
      PROVE  m.action = "cancel" /\ d.action # "cancel"
  <2>1. status[m.approval] \notin {"none", "pending"}
    BY <1>8 DEF IInv, Settled
  <2>2. m.action = "cancel" /\ status[m.approval] # "cancelled"
    BY <2>1 DEF Perform, Accepts
  <2> QED
    BY <2>2, <1>8 DEF IInv, Settled
<1>9. Settled'
  <2> SUFFICES ASSUME NEW d \in Range(effective)'
               PROVE  /\ status'[d.approval] \notin {"none", "pending"}
                      /\ d.action = "cancel" => status'[d.approval] = "cancelled"
    BY DEF Settled
  <2>1. CASE d = e
    BY <2>1, <1>1, <1>2, <1>4, <1>5, <1>7
  <2>2. CASE d \in Range(effective) /\ d.approval = m.approval
    BY <2>2, <1>1, <1>2, <1>5, <1>7, <1>8
  <2>3. CASE d \in Range(effective) /\ d.approval # m.approval
    BY <2>3, <1>2, <1>7 DEF IInv, Settled
  <2> QED
    BY <2>1, <2>2, <2>3, <1>6
<1>10. MailTrue'
  BY <1>2, <1>3, <1>6 DEF IInv, MailTrue
<1>11. AwaitsOwn'
  BY <1>2, <1>3 DEF IInv, AwaitsOwn
<1>12. HistoryTrue'
  BY <1>2, <1>6 DEF IInv, HistoryTrue
<1>13. OneVerdict'
  <2> SUFFICES ASSUME NEW i \in DOMAIN effective', NEW j \in DOMAIN effective', i < j,
                      effective'[i].approval = effective'[j].approval
               PROVE  effective'[i].action # "cancel" /\ effective'[j].action = "cancel"
    BY DEF OneVerdict
  <2>1. i \in DOMAIN effective /\ (j \in DOMAIN effective \/ j = Len(effective) + 1)
    BY <1>6
  <2>2. CASE j \in DOMAIN effective
    BY <2>1, <2>2, <1>6 DEF IInv, OneVerdict
  <2>3. CASE j = Len(effective) + 1
    BY <2>1, <2>3, <1>4, <1>6, <1>7, <1>8
  <2> QED
    BY <2>1, <2>2, <2>3
<1> QED
  BY <1>14, <1>9, <1>10, <1>11, <1>12, <1>13 DEF IInv

(* What the actions and the clock do to a request undoes no decision.      *)
LEMMA GateKeeps ==
    ASSUME IInv, NEW a \in Approval,
           \/ GateChanges(a, {"none"}, "pending")
           \/ GateChanges(a, {"approved"}, "consumed")
           \/ GateChanges(a, {"pending", "approved"}, "expired")
    PROVE  IInv'
<1>1. PICK after \in {"pending", "consumed", "expired"} :
        /\ status' = [status EXCEPT ![a] = after]
        /\ status[a] # "cancelled"
        /\ after = "pending" => status[a] = "none"
        /\ UNCHANGED <<commandsOn, effective, mail, sent, con>>
  BY DEF GateChanges
<1>2. status \in [Approval -> Status] /\ \A d \in Range(effective) : d.approval \in Approval
  <2>1. effective \in Seq(Decision) /\ status \in [Approval -> Status]
    BY DEF IInv, TypeOK
  <2>2. Range(effective) \subseteq Decision
    BY <2>1, RangeTyped
  <2> QED
    BY <2>1, <2>2 DEF Decision
<1>3. TypeOK'
  BY <1>1, <1>2 DEF IInv, TypeOK, Status
<1>4. Settled'
  BY <1>1, <1>2 DEF IInv, Settled
<1> QED
  BY <1>1, <1>3, <1>4 DEF IInv, MailTrue, AwaitsOwn, HistoryTrue, OneVerdict
-----------------------------------------------------------------------------
(* The steps of the consoles, except those that send and receive.          *)
LEMMA QuietConsole ==
    ASSUME IInv, NEW c \in Console,
           \/ Open(c) \/ Refresh(c) \/ Close(c)
           \/ \E a \in Approval : Select(c, a)
           \/ \E x \in Action : Decide(c, x)
    PROVE  IInv'
<1>1. con[c] \in ConsoleState /\ con[c].awaits <= sent /\ sent \in Nat
  BY ConsoleAssumption DEF IInv, TypeOK, AwaitsOwn
<1>2. CASE Open(c)
  <2> DEFINE s == [con[c] EXCEPT !.at = "refreshing"]
  <2>1. s \in ConsoleState /\ s.at = "refreshing" /\ s.awaits = con[c].awaits
        /\ s.history = con[c].history
    BY <1>1 DEF ConsoleState
  <2>2. con' = [con EXCEPT ![c] = s] /\ UNCHANGED <<serverVars, mail, sent>>
    BY <1>2 DEF Open
  <2> HIDE DEF s
  <2> QED
    BY <1>1, <2>1, <2>2, ConsoleStep
<1>3. CASE Refresh(c)
  <2> DEFINE F == IF con[c].at = "idle" THEN Filter ELSE {con[c].filter}
  <2>0. F \subseteq Status
    BY <1>1, ConsoleAssumption DEF ConsoleState
  <2>1. PICK f \in F :
          /\ con' = [con EXCEPT ![c].at = "idle", ![c].filter = f,
                 ![c].shown = {a \in Approval : status[a] = f},
                 ![c].selected = Selection(c, {a \in Approval : status[a] = f})]
          /\ UNCHANGED <<serverVars, mail, sent>>
    BY <1>3, Zenon DEF Refresh
  <2> DEFINE l == {a \in Approval : status[a] = f}
             s == [con[c] EXCEPT !.at = "idle", !.filter = f, !.shown = l,
                                 !.selected = Selection(c, l)]
  <2>2. Selection(c, l) \in Approval \union {None}
    BY DEF Selection
  <2>3. l \in SUBSET Approval
    OBVIOUS
  <2>4. con' = [con EXCEPT ![c] = s]
    BY <2>1
  <2> HIDE DEF l
  <2>5. s \in ConsoleState /\ s.at = "idle" /\ s.awaits = con[c].awaits
        /\ s.history = con[c].history
    BY <1>1, <2>2, <2>3, <2>0 DEF ConsoleState
  <2> HIDE DEF s
  <2> QED
    BY <1>1, <2>1, <2>4, <2>5, ConsoleStep
<1>4. ASSUME NEW a \in Approval, Select(c, a) PROVE IInv'
  <2> DEFINE s == [con[c] EXCEPT !.selected = a]
  <2>1. s \in ConsoleState /\ s.at = con[c].at /\ s.awaits = con[c].awaits
        /\ s.history = con[c].history
    BY <1>1 DEF ConsoleState
  <2>2. con' = [con EXCEPT ![c] = s] /\ con[c].at = "idle"
        /\ UNCHANGED <<serverVars, mail, sent>>
    BY <1>4 DEF Select
  <2> HIDE DEF s
  <2> QED
    BY <1>1, <2>1, <2>2, ConsoleStep
<1>5. ASSUME NEW x \in Action, Decide(c, x) PROVE IInv'
  <2> DEFINE s == [con[c] EXCEPT !.at = "dialing", !.action = x]
  <2>1. s \in ConsoleState /\ s.at = "dialing" /\ s.awaits = con[c].awaits
        /\ s.history = con[c].history /\ s.selected = con[c].selected
    BY <1>1 DEF ConsoleState
  <2>2. con' = [con EXCEPT ![c] = s] /\ con[c].selected # None
        /\ UNCHANGED <<serverVars, mail, sent>>
    BY <1>5 DEF Decide
  <2> HIDE DEF s
  <2> QED
    BY <1>1, <2>1, <2>2, ConsoleStep
<1>6. CASE Close(c)
  <2>1. Closed \in ConsoleState /\ Closed.at = "closed" /\ Closed.awaits = 0
        /\ Closed.history = <<>>
    BY ConsoleAssumption DEF Closed, ConsoleState, Status, Action
  <2>2. con' = [con EXCEPT ![c] = Closed] /\ UNCHANGED <<serverVars, mail, sent>>
    BY <1>6 DEF Close
  <2>3. Closed.awaits <= sent /\ Closed.at \notin {"dialing", "waiting"}
    BY <1>1, <2>1
  <2> QED
    BY <2>1, <2>2, <2>3, ConsoleStep
<1> QED
  BY <1>2, <1>3, <1>4, <1>5, <1>6

(* A console that is told of an error forgets everything.                  *)
LEMMA RejectedKeeps ==
    ASSUME IInv, NEW c \in Console, NEW m \in mail, Rejected(c, m)
    PROVE  IInv'
<1>1. Closed \in ConsoleState /\ Closed.at = "closed" /\ Closed.awaits = 0
      /\ Closed.history = <<>>
  BY ConsoleAssumption DEF Closed, ConsoleState, Status, Action
<1>2. \A d \in Console : con'[d] = IF d = c THEN Closed ELSE con[d]
  BY DEF IInv, TypeOK, Rejected
<1>3. sent \in Nat /\ sent' = sent /\ mail' = mail \ {m}
      /\ UNCHANGED <<status, commandsOn, effective>>
  BY ConsoleAssumption DEF IInv, TypeOK, Rejected, serverVars
<1>4. TypeOK'
  BY <1>1, <1>3 DEF IInv, TypeOK, Rejected
<1>5. AwaitsOwn'
  BY <1>1, <1>2, <1>3 DEF IInv, AwaitsOwn
<1>6. HistoryTrue'
  BY <1>1, <1>2, <1>3 DEF IInv, HistoryTrue
<1> QED
  BY <1>3, <1>4, <1>5, <1>6 DEF IInv, Settled, MailTrue, OneVerdict

(* Every step keeps the invariant.                                         *)
LEMMA StepKeeps == IInv /\ [Next]_vars => IInv'
<1> SUFFICES ASSUME IInv, [Next]_vars PROVE IInv'
  OBVIOUS
<1>1. ASSUME NEW c \in Console,
             \/ Open(c) \/ Refresh(c) \/ Close(c)
             \/ \E a \in Approval : Select(c, a)
             \/ \E x \in Action : Decide(c, x)
      PROVE  IInv'
  BY <1>1, QuietConsole
<1>2. ASSUME NEW c \in Console, Send(c) PROVE IInv'
  BY <1>2, SendKeeps
<1>3. ASSUME NEW c \in Console, NEW m \in mail, Confirmed(c, m) PROVE IInv'
  BY <1>3, ConfirmedKeeps
<1>4. ASSUME NEW c \in Console, NEW m \in mail, Rejected(c, m) PROVE IInv'
  BY <1>4, RejectedKeeps
<1>5. ASSUME NEW m \in mail, Lost(m) \/ Admit(m) \/ Refuse(m) \/ Retain(m)
      PROVE  IInv'
  <2>1. UNCHANGED <<serverVars, sent, con>>
    BY <1>5 DEF Lost, Admit, Refuse, Retain
  <2>2. \/ mail' = mail \ {m}
        \/ \E l \in {"admitted", "refused", "failed", "completed"} :
             Becomes(m, l) /\ (l = "completed" => m.at = "performed")
    BY <1>5 DEF Lost, Admit, Refuse, Retain
  <2> QED
    BY <2>1, <2>2, MailStep
<1>6. ASSUME NEW m \in mail, Perform(m) PROVE IInv'
  BY <1>6, PerformKeeps
<1>7. CASE StartCommands \/ StopCommands
  BY <1>7 DEF StartCommands, StopCommands, IInv, TypeOK, Settled, MailTrue, AwaitsOwn,
              HistoryTrue, OneVerdict
<1>8. ASSUME NEW a \in Approval,
             \/ GateChanges(a, {"none"}, "pending")
             \/ GateChanges(a, {"approved"}, "consumed")
             \/ GateChanges(a, {"pending", "approved"}, "expired")
      PROVE  IInv'
  BY <1>8, GateKeeps
<1>9. CASE UNCHANGED vars
  BY <1>9 DEF vars, serverVars, IInv, TypeOK, Settled, MailTrue, AwaitsOwn,
              HistoryTrue, OneVerdict
<1> QED
  BY <1>1, <1>2, <1>3, <1>4, <1>5, <1>6, <1>7, <1>8, <1>9 DEF Next

LEMMA AlwaysInvariant == Spec => []IInv
BY InitEstablishes, StepKeeps, PTL DEF Spec

(* What a console remembers took effect, for any number of consoles,       *)
(* requests and decisions, whatever is lost or given up.                   *)
THEOREM HistoryAlwaysTrue == Spec => []HistoryTrue
<1>1. IInv => HistoryTrue
  BY DEF IInv
<1> QED
  BY <1>1, AlwaysInvariant, PTL

(* Of two decisions that take effect on a request the first is a verdict   *)
(* and the second its withdrawal, for any number of consoles, requests and *)
(* decisions: one verdict at most, and none after it was withdrawn.        *)
THEOREM AlwaysOneVerdict == Spec => []OneVerdict
<1>1. IInv => OneVerdict
  BY DEF IInv
<1> QED
  BY <1>1, AlwaysInvariant, PTL
=============================================================================
