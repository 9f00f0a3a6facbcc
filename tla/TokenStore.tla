----------------------------- MODULE TokenStore -----------------------------
(***************************************************************************)
(* The protected file of the approval owner's token,                       *)
(* agents/approval_tokens.py.                                              *)
(*                                                                         *)
(* Several processes (the operator's provisioning script, the service that *)
(* loads the token) work on one file with no lock between them.  A write   *)
(* goes to a temporary file that replaces the token file when it is        *)
(* complete.  A process may be killed, a call of the operating system may  *)
(* fail, and the machine may lose its power: what was not yet written back *)
(* is then lost.                                                           *)
(*                                                                         *)
(* A token is the number of its drawing; the date of an envelope is the    *)
(* number of the token drawn on that date.                                 *)
(***************************************************************************)
EXTENDS Integers, Sequences

CONSTANTS
    Process,        \* the processes that use the store
    None,           \* no file, no dates
    MaxTokens,      \* bound: tokens ever drawn
    MaxPowerLosses  \* bound: power losses

VARIABLES
    file,       \* the token file as processes see it: None or a content
    disk,       \* the token file that the directory on the disk names
    temp,       \* the temporary file of each process
    pc,         \* where each process is
    job,        \* the operation and the envelope each process writes
    seen,       \* the envelope of the first of metadata's two reads
    answer,     \* the metadata each process was given last
    drawn,      \* tokens drawn so far
    held,       \* every content the token file has had, oldest first
    since,      \* how long held was when each process began its operation
    losses      \* power losses so far

fileVars == <<file, disk, held>>
vars == <<file, disk, temp, pc, job, seen, answer, drawn, held, since, losses>>

Token == 1..MaxTokens
Envelope == [token : Token, created : Token, rotated : 0..MaxTokens, synced : BOOLEAN]
NotWritten == [token |-> 0, created |-> 0, rotated |-> 0, synced |-> FALSE]
Content == Envelope \union {NotWritten}

ASSUME StoreAssumption ==
    MaxTokens \in Nat /\ MaxPowerLosses \in Nat /\ None \notin Content

NoJob == [op |-> "none", envelope |-> NotWritten]

Busy(p) == pc[p] # "idle"
Goto(p, l) == pc' = [pc EXCEPT ![p] = l]

Init ==
    /\ file = None /\ disk = None /\ held = <<>>
    /\ temp = [p \in Process |-> None]
    /\ pc = [p \in Process |-> "idle"]
    /\ job = [p \in Process |-> NoJob]
    /\ seen = [p \in Process |-> None]
    /\ answer = [p \in Process |-> None]
    /\ since = [p \in Process |-> 0]
    /\ drawn = 0 /\ losses = 0

----------------------------------------------------------------------------
(* The beginning of an operation.  provision raises at once when the file  *)
(* exists and may not be reused, rotate and verify when it does not exist. *)

Birth(op, created) == IF op = "provision" THEN drawn + 1 ELSE created

Draw(p, op, created) ==
    /\ drawn < MaxTokens
    /\ drawn' = drawn + 1
    /\ job' = [job EXCEPT ![p] =
         [op |-> op,
          envelope |-> [token |-> drawn + 1,
                        created |-> Birth(op, created),
                        rotated |-> IF op = "rotate" THEN drawn + 1 ELSE 0,
                        synced |-> FALSE]]]
    /\ Goto(p, "built")

Begin(p) == ~Busy(p) /\ since' = [since EXCEPT ![p] = Len(held)]

Provision(p) ==
    /\ Begin(p)
    /\ file = None
    /\ Draw(p, "provision", 0)
    /\ UNCHANGED <<fileVars, temp, seen, answer, losses>>

Rotate(p) ==
    /\ Begin(p)
    /\ file # None
    /\ Draw(p, "rotate", file.created)
    /\ UNCHANGED <<fileVars, temp, seen, answer, losses>>

(* verify, and provision of a file that exists and may be reused.          *)
Verify(p) ==
    /\ Begin(p)
    /\ file # None
    /\ Goto(p, "stored")
    /\ UNCHANGED <<fileVars, temp, job, seen, answer, drawn, losses>>

----------------------------------------------------------------------------
(* _write_envelope                                                         *)

Leave(p) ==
    /\ Goto(p, "idle")
    /\ job' = [job EXCEPT ![p] = NoJob]
    /\ seen' = [seen EXCEPT ![p] = None]

CheckAgain(p) ==
    /\ pc[p] = "built"
    /\ IF file # None /\ job[p].op # "rotate"
       THEN Leave(p)                        \* ApprovalTokenExistsError
       ELSE Goto(p, "checked") /\ UNCHANGED <<job, seen>>
    /\ UNCHANGED <<fileVars, temp, answer, drawn, since, losses>>

CreateTemporary(p) ==
    /\ pc[p] = "checked"
    /\ temp' = [temp EXCEPT ![p] = NotWritten]
    /\ Goto(p, "opened")
    /\ UNCHANGED <<fileVars, job, seen, answer, drawn, since, losses>>

WriteTemporary(p) ==
    /\ pc[p] = "opened"
    /\ temp' = [temp EXCEPT ![p] = job[p].envelope]
    /\ Goto(p, "written")
    /\ UNCHANGED <<fileVars, job, seen, answer, drawn, since, losses>>

Synchronise(p) ==
    /\ pc[p] = "written"
    /\ temp' = [temp EXCEPT ![p].synced = TRUE]
    /\ Goto(p, "synced")
    /\ UNCHANGED <<fileVars, job, seen, answer, drawn, since, losses>>

ReadyToReplace_Early == {"written", "synced"}
ReadyToReplace == {"synced"}

Replace(p) ==
    /\ pc[p] \in ReadyToReplace
    /\ file' = temp[p]
    /\ held' = Append(held, temp[p])
    /\ temp' = [temp EXCEPT ![p] = None]
    /\ Goto(p, "replaced")
    /\ UNCHANGED <<disk, job, seen, answer, drawn, since, losses>>

RestrictMode(p) ==
    /\ pc[p] = "replaced"
    /\ Goto(p, "stored")
    /\ UNCHANGED <<fileVars, temp, job, seen, answer, drawn, since, losses>>

Unlinked_Never(p) == temp
Unlinked(p) == [temp EXCEPT ![p] = None]

(* An OSError anywhere between mkstemp and the second chmod: the finally   *)
(* clause removes the temporary file; the token file stays as it is.       *)
Fail(p) ==
    /\ pc[p] \in {"checked", "opened", "written", "synced", "replaced"}
    /\ temp' = Unlinked(p)
    /\ Leave(p)
    /\ UNCHANGED <<fileVars, answer, drawn, since, losses>>

----------------------------------------------------------------------------
(* metadata reads the file twice: once itself and once through load.       *)

ReadDates(p) ==
    /\ pc[p] = "stored"
    /\ file # None
    /\ seen' = [seen EXCEPT ![p] = file]
    /\ Goto(p, "dated")
    /\ UNCHANGED <<fileVars, temp, job, answer, drawn, since, losses>>

Report_TokenFirst(first, second) == [second EXCEPT !.token = first.token]
Report(first, second) == [first EXCEPT !.token = second.token]

ReadToken(p) ==
    /\ pc[p] = "dated"
    /\ file # None
    /\ answer' = [answer EXCEPT ![p] = Report(seen[p], file)]
    /\ Leave(p)
    /\ UNCHANGED <<fileVars, temp, drawn, since, losses>>

----------------------------------------------------------------------------
(* What the environment does.                                              *)

(* The process is killed.  No finally clause runs: its temporary file stays *)
(* in the directory, where nobody looks at it again.                       *)
Killed(p) ==
    /\ Busy(p)
    /\ Leave(p)
    /\ temp' = [temp EXCEPT ![p] = None]
    /\ UNCHANGED <<fileVars, answer, drawn, since, losses>>

(* The operating system writes the directory back when it likes.           *)
WriteBack ==
    /\ disk # file
    /\ disk' = file
    /\ UNCHANGED <<file, held, temp, pc, job, seen, answer, drawn, since, losses>>

(* A rename that was not written back is undone by a power loss, and what  *)
(* was written to a file but not synchronised is gone.                     *)
Survivor == IF disk = None \/ disk.synced THEN disk ELSE NotWritten

PowerLoss ==
    /\ losses < MaxPowerLosses
    /\ losses' = losses + 1
    /\ file' = Survivor /\ disk' = Survivor
    /\ held' = IF Survivor = file THEN held ELSE Append(held, Survivor)
    /\ temp' = [p \in Process |-> None]
    /\ pc' = [p \in Process |-> "idle"]
    /\ job' = [p \in Process |-> NoJob]
    /\ seen' = [p \in Process |-> None]
    /\ UNCHANGED <<answer, drawn, since>>

Next ==
    \/ \E p \in Process :
         \/ Provision(p) \/ Rotate(p) \/ Verify(p)
         \/ CheckAgain(p) \/ CreateTemporary(p) \/ WriteTemporary(p)
         \/ Synchronise(p) \/ Replace(p) \/ RestrictMode(p) \/ Fail(p)
         \/ ReadDates(p) \/ ReadToken(p) \/ Killed(p)
    \/ WriteBack \/ PowerLoss

Spec == Init /\ [][Next]_vars

----------------------------------------------------------------------------
TypeOK ==
    /\ {file, disk} \subseteq Content \union {None}
    /\ temp \in [Process -> Content \union {None}]
    /\ seen \in [Process -> Content \union {None}]
    /\ answer \in [Process -> Content \union {None}]
    /\ pc \in [Process -> {"idle", "built", "checked", "opened", "written", "synced",
                           "replaced", "stored", "dated"}]
    /\ job \in [Process -> [op : {"none", "provision", "rotate"}, envelope : Content]]
    /\ held \in Seq(Content \union {None})
    /\ since \in [Process -> Nat]
    /\ drawn \in 0..MaxTokens /\ losses \in 0..MaxPowerLosses

(* Whoever opens the token file, at any time and after any crash, failure  *)
(* or power loss, finds no file or one complete envelope (the temporary    *)
(* file, fsync and os.replace of _write_envelope).                         *)
AlwaysWhole == {file, disk} \subseteq Envelope \union {None}

(* A write that ends or raises leaves no temporary file behind: those left *)
(* are of processes that were killed.                                      *)
Tidy == \A p \in Process :
    (temp[p] # None) <=> (pc[p] \in {"opened", "written", "synced"})

Dates(e) == <<e.created, e.rotated>>

(* What metadata reports is current: its dates and its token were in the   *)
(* file while the operation ran, the token not before the dates, and for a *)
(* write not before its own envelope.                                      *)
AnswersCurrent == [][\A p \in Process :
    answer'[p] # answer[p] =>
        \E i, j \in since[p]..Len(held) :
            /\ 0 < i /\ i <= j
            /\ held[i] # None /\ Dates(held[i]) = Dates(answer'[p])
            /\ held[j] # None /\ held[j].token = answer'[p].token
            /\ job[p].op # "none" =>
                 \E k \in 1..i :
                    held[k] # None /\ held[k].token = job[p].envelope.token]_vars

(* "Existing files are never overwritten by this method" (provision): a    *)
(* file that exists is replaced by a rotation or by nothing.               *)
NeverOverwritten == [][
    file # None /\ file' # file /\ losses' = losses => file'.rotated # 0]_vars
=============================================================================
