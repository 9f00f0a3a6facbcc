---------------------------- MODULE OwnerConsole ----------------------------
(***************************************************************************)
(* How an owner decides on approval requests: the operator consoles        *)
(* (agents/approval_operator_console.py), the workflow that sends each of  *)
(* their requests over a connection of its own (agents/approval_owner.py), *)
(* and the command interface that executes them in the runtime             *)
(* (agents/approval_commands.py).                                          *)
(*                                                                         *)
(* Every console is a process of its own.  What it shows is a copy of the  *)
(* gate's requests, taken when it was last refreshed.  A decision that was *)
(* sent is executed by a thread of the runtime whether or not the console  *)
(* still waits for it; a request or a reply may be lost.  Any failure of   *)
(* an exchange ends the console, which nothing of it survives: the owner   *)
(* opens another and decides again.                                        *)
(*                                                                         *)
(* An exchange that only reads (list, get) is one step, taken when the     *)
(* gate reads its records.  The consoles are in decision mode, and the     *)
(* words the owner has to type are a part of Decide.                       *)
(***************************************************************************)
EXTENDS Integers, Sequences, FiniteSets, Functions

CONSTANTS
    Console,        \* operator consoles
    Approval,       \* identifiers of approval requests
    Filter,         \* the statuses that owners list
    None,           \* no selection
    HistoryLimit,   \* decisions a console remembers
    MaxSends        \* bound: decisions ever sent

Status == {"none", "pending", "approved", "denied", "consumed", "cancelled", "expired"}
Action == {"approve", "deny", "cancel"}

ASSUME ConsoleAssumption ==
    /\ HistoryLimit \in Nat \ {0} /\ MaxSends \in Nat
    /\ "pending" \in Filter /\ Filter \subseteq Status
    /\ None \notin Approval

VARIABLES
    status,     \* the status of each request at the gate
    commandsOn, \* the command interface is RUNNING
    mail,       \* the decisions under way: sent, in a thread, or being answered
    sent,       \* how many decisions were ever sent
    effective,  \* the decisions that changed a request, in the order they did
    con         \* each console

serverVars == <<status, commandsOn, effective>>
vars == <<serverVars, mail, sent, con>>

Closed == [at |-> "closed", shown |-> {}, filter |-> "pending", selected |-> None,
           action |-> "approve", awaits |-> 0, history |-> <<>>]
Outcome(x) == CASE x = "approve" -> "approved" [] x = "deny" -> "denied"
                [] x = "cancel" -> "cancelled"

Init ==
    /\ status = [a \in Approval |-> "none"]
    /\ commandsOn = FALSE
    /\ mail = {} /\ sent = 0 /\ effective = <<>>
    /\ con = [c \in Console |-> Closed]

----------------------------------------------------------------------------
(* The consoles                                                            *)

(* run refreshes the list before it shows anything.                        *)
Open(c) ==
    /\ con[c].at = "closed"
    /\ con' = [con EXCEPT ![c].at = "refreshing"]
    /\ UNCHANGED <<serverVars, mail, sent>>

Selection(c, listed) == IF con[c].selected \in listed THEN con[c].selected ELSE None

Refresh(c) ==
    /\ con[c].at \in {"idle", "refreshing"}
    /\ commandsOn
    /\ \E f \in IF con[c].at = "idle" THEN Filter ELSE {con[c].filter} :
         LET listed == {a \in Approval : status[a] = f} IN
         con' = [con EXCEPT ![c].at = "idle", ![c].filter = f, ![c].shown = listed,
                            ![c].selected = Selection(c, listed)]
    /\ UNCHANGED <<serverVars, mail, sent>>

Select(c, a) ==
    /\ con[c].at = "idle"
    /\ a \in con[c].shown
    /\ con' = [con EXCEPT ![c].selected = a]
    /\ UNCHANGED <<serverVars, mail, sent>>

Decidable(x, s) == IF x = "cancel" THEN s \in {"pending", "approved", "denied"}
                                   ELSE s = "pending"

(* The owner confirms; the console looks at the request once more, says    *)
(* that the decision is blocked (nothing changes), or goes on to send it.  *)
Decide(c, x) ==
    /\ con[c].at = "idle"
    /\ con[c].selected # None
    /\ commandsOn
    /\ Decidable(x, status[con[c].selected])
    /\ con' = [con EXCEPT ![c].at = "dialing", ![c].action = x]
    /\ UNCHANGED <<serverVars, mail, sent>>

(* _exchange: a connection, its handshake, and one frame with the decision *)
(* and an identifier of its own.                                           *)
Send(c) ==
    /\ con[c].at = "dialing"
    /\ sent < MaxSends
    /\ sent' = sent + 1
    /\ mail' = mail \union {[number |-> sent + 1, action |-> con[c].action,
                             approval |-> con[c].selected, at |-> "sent"]}
    /\ con' = [con EXCEPT ![c].at = "waiting", ![c].awaits = sent + 1]
    /\ UNCHANGED serverVars

(* The console reads frames, passing over those that only keep a           *)
(* connection alive, until there is one with text, the reply.              *)
Receives(c, m) ==
    /\ m \in mail /\ m.at \in {"completed", "failed"}
    /\ con[c].at = "waiting" /\ con[c].awaits = m.number

Affirmative_Any(m) == TRUE
Affirmative(m) == m.at = "completed"

Remembered(c, r) == IF Len(con[c].history) = HistoryLimit
                    THEN Append(Tail(con[c].history), r) ELSE Append(con[c].history, r)

(* A decision that took effect is remembered, and the list is refreshed.   *)
Confirmed(c, m) ==
    /\ Receives(c, m) /\ Affirmative(m)
    /\ mail' = mail \ {m}
    /\ con' = [con EXCEPT ![c].at = "refreshing",
         ![c].history = Remembered(c, [number |-> m.number, action |-> con[c].action,
                                       approval |-> con[c].selected])]
    /\ UNCHANGED <<serverVars, sent>>

(* A reply that says error raises what neither execute_line nor run        *)
(* catches: the console ends.                                              *)
Rejected(c, m) ==
    /\ Receives(c, m) /\ ~Affirmative(m)
    /\ mail' = mail \ {m}
    /\ con' = [con EXCEPT ![c] = Closed]
    /\ UNCHANGED <<serverVars, sent>>

(* quit; or an exchange fails, and the console ends: no connection, a      *)
(* handshake that is refused, a timeout, the connection closed, a frame    *)
(* that is too long or not what was expected.                              *)
Close(c) ==
    /\ con[c].at # "closed"
    /\ con' = [con EXCEPT ![c] = Closed]
    /\ UNCHANGED <<serverVars, mail, sent>>

(* A request or a reply that nobody will see.                              *)
Lost(m) ==
    /\ m \in mail /\ m.at \in {"sent", "completed", "failed"}
    /\ mail' = mail \ {m}
    /\ UNCHANGED <<serverVars, sent, con>>

----------------------------------------------------------------------------
(* The command interface, one thread for every decision                    *)

StartCommands == ~commandsOn /\ commandsOn' = TRUE
                 /\ UNCHANGED <<status, effective, mail, sent, con>>
StopCommands == commandsOn /\ commandsOn' = FALSE
                /\ UNCHANGED <<status, effective, mail, sent, con>>

Becomes(m, l) == mail' = (mail \ {m}) \union {[m EXCEPT !.at = l]}

Admit(m) ==
    /\ m \in mail /\ m.at = "sent"
    /\ commandsOn
    /\ Becomes(m, "admitted")
    /\ UNCHANGED <<serverVars, sent, con>>

(* The interface is not running, or the token or a field is not valid; or  *)
(* the gate raises: it is not running or the status does not allow it.     *)
Refuse(m) ==
    /\ m \in mail /\ m.at \in {"sent", "admitted"}
    /\ Becomes(m, "refused")
    /\ UNCHANGED <<serverVars, sent, con>>

Accepts_Withdrawn(x, s) ==
    IF x = "cancel" THEN s \notin {"none", "consumed", "cancelled", "expired"}
                    ELSE s \in {"pending", "cancelled"}
Accepts(x, s) == IF x = "cancel" THEN s \notin {"none", "consumed", "cancelled", "expired"}
                                 ELSE s = "pending"

Perform(m) ==
    /\ m \in mail /\ m.at = "admitted"
    /\ Accepts(m.action, status[m.approval])
    /\ status' = [status EXCEPT ![m.approval] = Outcome(m.action)]
    /\ effective' = Append(effective,
         [number |-> m.number, action |-> m.action, approval |-> m.approval])
    /\ Becomes(m, "performed")
    /\ UNCHANGED <<commandsOn, sent, con>>

(* The audit record is kept, and the reply goes out.                       *)
Retain(m) ==
    /\ m \in mail /\ m.at \in {"performed", "refused"}
    /\ Becomes(m, IF m.at = "performed" THEN "completed" ELSE "failed")
    /\ UNCHANGED <<serverVars, sent, con>>

----------------------------------------------------------------------------
(* What else happens at the gate: a protected action asks, uses up an      *)
(* approval, or it lapses.                                                 *)
GateChanges(a, before, after) ==
    /\ status[a] \in before
    /\ status' = [status EXCEPT ![a] = after]
    /\ UNCHANGED <<commandsOn, effective, mail, sent, con>>

Next ==
    \/ \E c \in Console :
         \/ Open(c) \/ Refresh(c) \/ Close(c)
         \/ \E a \in Approval : Select(c, a)
         \/ \E x \in Action : Decide(c, x)
         \/ Send(c)
         \/ \E m \in mail : Confirmed(c, m) \/ Rejected(c, m)
    \/ \E m \in mail : Lost(m) \/ Admit(m) \/ Refuse(m) \/ Perform(m) \/ Retain(m)
    \/ StartCommands \/ StopCommands
    \/ \E a \in Approval :
         \/ GateChanges(a, {"none"}, "pending")
         \/ GateChanges(a, {"approved"}, "consumed")
         \/ GateChanges(a, {"pending", "approved"}, "expired")

Spec == Init /\ [][Next]_vars

----------------------------------------------------------------------------
Decision == [number : 1..MaxSends, action : Action, approval : Approval]
ConsoleState ==
    [at : {"closed", "refreshing", "idle", "dialing", "waiting"}, shown : SUBSET Approval,
     filter : Status, selected : Approval \union {None}, action : Action,
     awaits : 0..MaxSends, history : Seq(Decision)]

TypeOK ==
    /\ status \in [Approval -> Status] /\ commandsOn \in BOOLEAN
    /\ mail \subseteq [number : 1..MaxSends, action : Action, approval : Approval,
                       at : {"sent", "admitted", "refused", "performed", "completed",
                             "failed"}]
    /\ sent \in 0..MaxSends
    /\ effective \in Seq(Decision)
    /\ con \in [Console -> ConsoleState]

(* What a console remembers of its session happened: every record is of a  *)
(* decision it sent that took effect as the owner confirmed it, on the     *)
(* request that was selected, whatever other exchanges were lost, refused  *)
(* or given up (approval_operator_console.py:390).                         *)
HistoryTrue == \A c \in Console : \A i \in DOMAIN con[c].history :
    con[c].history[i] \in Range(effective)

(* However many consoles decide on a request, and however late a decision  *)
(* arrives that its console gave up: of two decisions that take effect on  *)
(* a request, the first is a verdict and the second its withdrawal.  So    *)
(* there is one verdict at most, and none after it was withdrawn           *)
(* (approval.py:566).                                                      *)
OneVerdict == \A i, j \in DOMAIN effective :
    i < j /\ effective[i].approval = effective[j].approval =>
        effective[i].action # "cancel" /\ effective[j].action = "cancel"
=============================================================================
