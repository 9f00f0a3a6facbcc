---------------------------- MODULE OneTimeGrant ----------------------------
(***************************************************************************)
(* What the approval gate promises, without identifiers, clocks, threads   *)
(* or capacity: for every protected request (a subject) the owner may      *)
(* grant what was asked for, a grant is used at most once, and a refusal   *)
(* stands until the owner withdraws it.                                    *)
(***************************************************************************)
EXTENDS Integers

CONSTANT Subject

VARIABLES
    standing,   \* what stands for each subject
    grants,     \* how often the owner granted
    uses        \* how often a grant was used

vars == <<standing, grants, uses>>

Standing == {"none", "pending", "approved", "denied"}

Init ==
    /\ standing = [s \in Subject |-> "none"]
    /\ grants = 0
    /\ uses = 0

(* Time may take away what was asked or granted, never a refusal, and it   *)
(* may do so just before anything else happens.                            *)
MayLapse(W) == \A s \in W : standing[s] \in {"pending", "approved"}
After(W) == [s \in Subject |-> IF s \in W THEN "none" ELSE standing[s]]

Lapse(W) ==
    /\ standing' = After(W)
    /\ UNCHANGED <<grants, uses>>

Ask(W, s) ==
    /\ After(W)[s] = "none"
    /\ standing' = [After(W) EXCEPT ![s] = "pending"]
    /\ UNCHANGED <<grants, uses>>

Grant(W, s) ==
    /\ After(W)[s] = "pending"
    /\ standing' = [After(W) EXCEPT ![s] = "approved"]
    /\ grants' = grants + 1
    /\ UNCHANGED uses

Refuse(W, s) ==
    /\ After(W)[s] = "pending"
    /\ standing' = [After(W) EXCEPT ![s] = "denied"]
    /\ UNCHANGED <<grants, uses>>

Use(W, s) ==
    /\ After(W)[s] = "approved"
    /\ standing' = [After(W) EXCEPT ![s] = "none"]
    /\ uses' = uses + 1
    /\ UNCHANGED grants

Withdraw(W, s) ==
    /\ After(W)[s] # "none"
    /\ standing' = [After(W) EXCEPT ![s] = "none"]
    /\ UNCHANGED <<grants, uses>>

Next ==
    \E W \in SUBSET Subject :
        /\ MayLapse(W)
        /\ \/ Lapse(W)
           \/ \E s \in Subject :
                 Ask(W, s) \/ Grant(W, s) \/ Refuse(W, s)
                 \/ Use(W, s) \/ Withdraw(W, s)

Spec == Init /\ [][Next]_vars
=============================================================================
