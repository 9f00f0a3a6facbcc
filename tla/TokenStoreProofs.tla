-------------------------- MODULE TokenStoreProofs --------------------------
(***************************************************************************)
(* Proofs about TokenStore, for every set of processes and every bound.    *)
(* That the token file is whole is inductive only with what the steps of   *)
(* _write_envelope establish one after the other: the envelope was drawn,  *)
(* the temporary file holds it, and it is synchronised before it replaces  *)
(* the token file.                                                         *)
(*                                                                         *)
(* What metadata answers is about the past, so the invariant for it says   *)
(* of what the file has held what each process that is to read has been    *)
(* told of it so far (HInv).                                               *)
(***************************************************************************)
EXTENDS TokenStore, TLAPS

Durable(f) == f # None => f \in Envelope /\ f.synced

Drawn == {"built", "checked", "opened", "written", "synced"}

(* What a process has established where it is.                             *)
Established(p) ==
    /\ pc[p] \in Drawn => job[p].envelope \in Envelope
    /\ pc[p] \in {"written", "synced"} => temp[p] \in Envelope
    /\ pc[p] = "synced" => temp[p].synced
    /\ pc[p] = "dated" => seen[p] \in Envelope

IInv ==
    /\ TypeOK
    /\ Durable(file) /\ Durable(disk)
    /\ \A p \in Process : Established(p)
    /\ Tidy

-----------------------------------------------------------------------------
(* Nothing that survives a power loss is partly written, because only      *)
(* synchronised files are renamed into place (approval_tokens.py,          *)
(* os.fsync before os.replace).                                            *)
LEMMA SurvivorDurable ==
    ASSUME Durable(disk)
    PROVE  Survivor = disk
  BY DEF Durable, Survivor

(* A drawn token makes an envelope, for a provisioning and for a rotation  *)
(* of a file that is whole.                                                *)
LEMMA DrawKeeps ==
    ASSUME IInv, NEW p \in Process, NEW op \in {"provision", "rotate"}, NEW created,
           op = "rotate" => created \in Token,
           ~Busy(p), Draw(p, op, created)
    PROVE  /\ drawn' \in 0..MaxTokens
           /\ job' \in [Process -> [op : {"none", "provision", "rotate"}, envelope : Content]]
           /\ job'[p].envelope \in Envelope
           /\ \A q \in Process \ {p} : job'[q] = job[q]
<1> DEFINE e == [token |-> drawn + 1, created |-> Birth(op, created),
                 rotated |-> IF op = "rotate" THEN drawn + 1 ELSE 0, synced |-> FALSE]
<1>1. drawn \in 0..MaxTokens /\ drawn < MaxTokens /\ MaxTokens \in Nat
  BY StoreAssumption DEF IInv, TypeOK, Draw
<1>2. drawn + 1 \in Token /\ drawn + 1 \in 0..MaxTokens /\ 0 \in 0..MaxTokens
  BY <1>1 DEF Token
<1>3. Birth(op, created) \in Token
  BY <1>2 DEF Birth
<1>4. e \in Envelope
  BY <1>2, <1>3 DEF Envelope
<1>5. job' = [job EXCEPT ![p] = [op |-> op, envelope |-> e]]
  BY DEF Draw
<1>6. job \in [Process -> [op : {"none", "provision", "rotate"}, envelope : Content]]
  BY DEF IInv, TypeOK
<1> HIDE DEF e
<1>7. [op |-> op, envelope |-> e] \in [op : {"none", "provision", "rotate"}, envelope : Content]
  BY <1>4 DEF Content
<1>8. drawn' = drawn + 1
  BY DEF Draw
<1> QED
  BY <1>2, <1>4, <1>5, <1>6, <1>7, <1>8
(* The empty directory satisfies the invariant.                            *)
LEMMA InitEstablishes == Init => IInv
<1> SUFFICES ASSUME Init PROVE IInv
  OBVIOUS
<1>1. NoJob \in [op : {"none", "provision", "rotate"}, envelope : Content]
  BY DEF NoJob, Content
<1>2. TypeOK
  BY <1>1, StoreAssumption DEF Init, TypeOK
<1> QED
  BY <1>2 DEF Init, IInv, Durable, Established, Drawn, Tidy

(* Every step of a process, of the operating system and of the power       *)
(* supply keeps the invariant.                                             *)
LEMMA StepPreserves == IInv /\ [Next]_vars => IInv'
<1> SUFFICES ASSUME IInv, [Next]_vars PROVE IInv'
  OBVIOUS
<1> USE DEF IInv
<1>0. NoJob \in [op : {"none", "provision", "rotate"}, envelope : Content]
  BY DEF NoJob, Content
<1>1. ASSUME NEW p \in Process, Provision(p) PROVE IInv'
  <2>1. Draw(p, "provision", 0) /\ Begin(p) /\ ~Busy(p)
    BY <1>1 DEF Provision, Begin
  <2>2. /\ drawn' \in 0..MaxTokens
        /\ job' \in [Process -> [op : {"none", "provision", "rotate"}, envelope : Content]]
        /\ job'[p].envelope \in Envelope
        /\ \A q \in Process \ {p} : job'[q] = job[q]
    BY <2>1, DrawKeeps
  <2>3. pc' = [pc EXCEPT ![p] = "built"]
    BY <2>1 DEF Draw, Goto
  <2>4. since' \in [Process -> Nat]
    BY <2>1 DEF Begin, TypeOK
  <2>5. TypeOK'
    BY <1>1, <2>2, <2>3, <2>4 DEF TypeOK, Provision, fileVars
  <2> QED
    BY <1>1, <2>1, <2>2, <2>3, <2>5
       DEF TypeOK, Provision, fileVars, Durable, Established, Drawn, Tidy, Busy
<1>2. ASSUME NEW p \in Process, Rotate(p) PROVE IInv'
  <2>1. Draw(p, "rotate", file.created) /\ Begin(p) /\ ~Busy(p)
    BY <1>2 DEF Rotate, Begin
  <2>2. file.created \in Token
    BY <1>2 DEF Rotate, Durable, Envelope
  <2>3. /\ drawn' \in 0..MaxTokens
        /\ job' \in [Process -> [op : {"none", "provision", "rotate"}, envelope : Content]]
        /\ job'[p].envelope \in Envelope
        /\ \A q \in Process \ {p} : job'[q] = job[q]
    BY <2>1, <2>2, DrawKeeps
  <2>4. pc' = [pc EXCEPT ![p] = "built"]
    BY <2>1 DEF Draw, Goto
  <2>5. since' \in [Process -> Nat]
    BY <2>1 DEF Begin, TypeOK
  <2>6. TypeOK'
    BY <1>2, <2>3, <2>4, <2>5 DEF TypeOK, Rotate, fileVars
  <2> QED
    BY <1>2, <2>1, <2>3, <2>4, <2>6
       DEF TypeOK, Rotate, fileVars, Durable, Established, Drawn, Tidy, Busy
<1>3. ASSUME NEW p \in Process, Verify(p) PROVE IInv'
  <2>1. TypeOK'
    BY <1>3 DEF TypeOK, Verify, Begin, Goto, fileVars
  <2> QED
    BY <1>3, <2>1
       DEF TypeOK, Verify, Begin, Goto, fileVars, Durable, Established, Drawn, Tidy, Busy
<1>4. ASSUME NEW p \in Process, CheckAgain(p) PROVE IInv'
  <2>1. UNCHANGED <<file, disk, held, temp, answer, drawn, since, losses>>
    BY <1>4 DEF CheckAgain, fileVars
  <2>2. pc[p] = "built"
    BY <1>4 DEF CheckAgain
  <2>3. CASE file # None /\ job[p].op # "rotate"
    <3>1. Leave(p)
      BY <1>4, <2>3 DEF CheckAgain
    <3>2. TypeOK'
      BY <1>0, <2>1, <3>1 DEF TypeOK, Leave, Goto
    <3> QED
      BY <2>1, <2>2, <3>1, <3>2 DEF TypeOK, Leave, Goto, Durable, Established, Drawn, Tidy
  <2>4. CASE ~(file # None /\ job[p].op # "rotate")
    <3>1. Goto(p, "checked") /\ UNCHANGED <<job, seen>>
      BY <1>4, <2>4 DEF CheckAgain
    <3>2. TypeOK'
      BY <2>1, <3>1 DEF TypeOK, Goto
    <3> QED
      BY <2>1, <2>2, <3>1, <3>2 DEF TypeOK, Goto, Durable, Established, Drawn, Tidy
  <2> QED
    BY <2>3, <2>4
<1>5. ASSUME NEW p \in Process, CreateTemporary(p) PROVE IInv'
  <2>1. TypeOK'
    BY <1>5 DEF TypeOK, CreateTemporary, Goto, fileVars, Content
  <2>2. NotWritten # None
    BY StoreAssumption DEF Content
  <2> QED
    BY <1>5, <2>1, <2>2
       DEF TypeOK, CreateTemporary, Goto, fileVars, Durable, Established, Drawn, Tidy
<1>6. ASSUME NEW p \in Process, WriteTemporary(p) PROVE IInv'
  <2>1. job[p].envelope \in Envelope /\ job[p].envelope # None
    BY <1>6, StoreAssumption DEF WriteTemporary, Established, Drawn, Content
  <2>2. TypeOK'
    BY <1>6, <2>1 DEF TypeOK, WriteTemporary, Goto, fileVars, Content
  <2> QED
    BY <1>6, <2>1, <2>2
       DEF TypeOK, WriteTemporary, Goto, fileVars, Durable, Established, Drawn, Tidy
<1>7. ASSUME NEW p \in Process, Synchronise(p) PROVE IInv'
  <2> DEFINE s == [temp[p] EXCEPT !.synced = TRUE]
  <2>1. temp[p] \in Envelope
    BY <1>7 DEF Synchronise, Established
  <2>2. s \in Envelope /\ s.synced
    BY <2>1 DEF Envelope
  <2>3. s # None /\ s \in Content
    BY <2>2, StoreAssumption DEF Content
  <2>4. temp' = [temp EXCEPT ![p] = s]
    BY <1>7 DEF Synchronise
  <2> HIDE DEF s
  <2>5. TypeOK'
    BY <1>7, <2>3, <2>4 DEF TypeOK, Synchronise, Goto, fileVars
  <2> QED
    BY <1>7, <2>2, <2>3, <2>4, <2>5
       DEF TypeOK, Synchronise, Goto, fileVars, Durable, Established, Drawn, Tidy
<1>8. ASSUME NEW p \in Process, Replace(p) PROVE IInv'
  <2>1. temp[p] \in Envelope /\ temp[p].synced
    BY <1>8 DEF Replace, ReadyToReplace, Established
  <2>2. TypeOK'
    BY <1>8, <2>1 DEF TypeOK, Replace, Goto, Content
  <2> QED
    BY <1>8, <2>1, <2>2
       DEF TypeOK, Replace, ReadyToReplace, Goto, Durable, Established, Drawn, Tidy
<1>9. ASSUME NEW p \in Process, RestrictMode(p) PROVE IInv'
  <2>1. TypeOK'
    BY <1>9 DEF TypeOK, RestrictMode, Goto, fileVars
  <2> QED
    BY <1>9, <2>1
       DEF TypeOK, RestrictMode, Goto, fileVars, Durable, Established, Drawn, Tidy
<1>10. ASSUME NEW p \in Process, Fail(p) PROVE IInv'
  <2>1. TypeOK'
    BY <1>0, <1>10 DEF TypeOK, Fail, Unlinked, Leave, Goto, fileVars
  <2> QED
    BY <1>10, <2>1
       DEF TypeOK, Fail, Unlinked, Leave, Goto, fileVars, Durable, Established, Drawn, Tidy
<1>11. ASSUME NEW p \in Process, ReadDates(p) PROVE IInv'
  <2>1. file \in Envelope
    BY <1>11 DEF ReadDates, Durable
  <2>2. TypeOK'
    BY <1>11 DEF TypeOK, ReadDates, Goto, fileVars
  <2> QED
    BY <1>11, <2>1, <2>2
       DEF TypeOK, ReadDates, Goto, fileVars, Durable, Established, Drawn, Tidy
<1>12. ASSUME NEW p \in Process, ReadToken(p) PROVE IInv'
  <2>1. file \in Envelope /\ seen[p] \in Envelope
    BY <1>12 DEF ReadToken, Durable, Established
  <2>2. Report(seen[p], file) \in Content
    BY <2>1 DEF Report, Envelope, Content
  <2>3. TypeOK'
    BY <1>0, <1>12, <2>2 DEF TypeOK, ReadToken, Leave, Goto, fileVars
  <2> QED
    BY <1>12, <2>3
       DEF TypeOK, ReadToken, Leave, Goto, fileVars, Durable, Established, Drawn, Tidy
<1>13. ASSUME NEW p \in Process, Killed(p) PROVE IInv'
  <2>1. TypeOK'
    BY <1>0, <1>13 DEF TypeOK, Killed, Leave, Goto, fileVars
  <2> QED
    BY <1>13, <2>1
       DEF TypeOK, Killed, Leave, Goto, fileVars, Durable, Established, Drawn, Tidy
<1>14. ASSUME WriteBack PROVE IInv'
  BY <1>14 DEF WriteBack, TypeOK, Durable, Established, Tidy
<1>15. ASSUME PowerLoss PROVE IInv'
  <2>1. Survivor = disk
    BY SurvivorDurable
  <2>2. losses' \in 0..MaxPowerLosses
    BY <1>15, StoreAssumption DEF PowerLoss, TypeOK
  <2>3. held' \in Seq(Content \union {None})
    BY <1>15, <2>1 DEF PowerLoss, TypeOK
  <2>4. TypeOK'
    BY <1>0, <1>15, <2>1, <2>2, <2>3 DEF PowerLoss, TypeOK
  <2> QED
    BY <1>15, <2>1, <2>4 DEF PowerLoss, Durable, Established, Drawn, Tidy
<1>16. ASSUME UNCHANGED vars PROVE IInv'
  BY <1>16 DEF vars, TypeOK, Durable, Established, Tidy
<1> QED
  BY <1>1, <1>2, <1>3, <1>4, <1>5, <1>6, <1>7, <1>8, <1>9, <1>10, <1>11, <1>12,
     <1>13, <1>14, <1>15, <1>16 DEF Next

-----------------------------------------------------------------------------
(* The invariant is what the properties need.                              *)
LEMMA Suffices == IInv => TypeOK /\ AlwaysWhole /\ Tidy
  BY DEF IInv, Durable, AlwaysWhole

(* The variables keep their types: above all, no content but the kinds     *)
(* there are, absent, partial or whole, is ever found in a file.           *)
THEOREM TypeAlwaysCorrect == Spec => []TypeOK
<1> QED
  BY InitEstablishes, StepPreserves, Suffices, PTL DEF Spec

(* Whatever processes, kills, failures and power losses there are, whoever *)
(* opens the token file finds no file or one complete envelope             *)
(* (_write_envelope, approval_tokens.py).                                  *)
THEOREM FileAlwaysWhole == Spec => []AlwaysWhole
<1> QED
  BY InitEstablishes, StepPreserves, Suffices, PTL DEF Spec

(* Only a process that was killed leaves a temporary file behind: one that *)
(* ends or raises has removed it (the finally clause of _write_envelope).  *)
THEOREM TemporaryAlwaysTidy == Spec => []Tidy
<1> QED
  BY InitEstablishes, StepPreserves, Suffices, PTL DEF Spec

-----------------------------------------------------------------------------
(* held[k] is what p has been writing, at i at the latest. *)
Tells(p, i) ==
    job[p].op # "none" =>
        \E k \in 1..i : held[k] # None /\ held[k].token = job[p].envelope.token

(* What the contents so far tell of a process that is about to read.       *)
Told(p) ==
    /\ since[p] \in 0..Len(held)
    /\ pc[p] = "idle" => job[p] = NoJob
    /\ pc[p] \in {"written", "synced"} => temp[p].token = job[p].envelope.token
    /\ pc[p] \in {"replaced", "stored"} => Tells(p, Len(held))
    /\ pc[p] = "dated" => \E i \in since[p]..Len(held) :
                             0 < i /\ held[i] = seen[p] /\ Tells(p, i)

(* The newest content is the file.                                         *)
HInv ==
    /\ file = IF held = <<>> THEN None ELSE held[Len(held)]
    /\ \A p \in Process : Told(p)

(* Where nothing happens to p and the contents so far are still there, it  *)
(* is told the same.                                                       *)
LEMMA StillTold ==
    ASSUME IInv, NEW p \in Process, Told(p),
           Len(held) <= Len(held)', held' \in Seq(Content \union {None}),
           \A k \in 1..Len(held) : held'[k] = held[k],
           pc'[p] = pc[p], job'[p] = job[p], temp'[p] = temp[p], seen'[p] = seen[p],
           since'[p] = since[p]
    PROVE  Told(p)'
<1>1. Len(held) \in Nat /\ Len(held)' \in Nat /\ since[p] \in Nat
  BY DEF IInv, TypeOK
<1>2. \A i \in 0..Len(held) : Tells(p, i) => Tells(p, i)'
  BY <1>1 DEF Tells
<1>3. Tells(p, Len(held))' \/ ~Tells(p, Len(held))
  BY <1>1 DEF Tells
<1>4. pc[p] = "dated" => \E i \in since[p]..Len(held)' :
                            0 < i /\ held'[i] = seen[p] /\ Tells(p, i)'
  BY <1>1, <1>2 DEF Told
<1> QED
  BY <1>1, <1>3, <1>4 DEF Told

(* The same of all processes but one. *)
LEMMA OthersTold ==
    ASSUME IInv, HInv, NEW p \in Process,
           Len(held) <= Len(held)', held' \in Seq(Content \union {None}),
           \A k \in 1..Len(held) : held'[k] = held[k],
           \A q \in Process \ {p} : /\ pc'[q] = pc[q] /\ job'[q] = job[q]
                                    /\ temp'[q] = temp[q] /\ seen'[q] = seen[q]
                                    /\ since'[q] = since[q],
           Told(p)'
    PROVE  \A q \in Process : Told(q)'
<1> SUFFICES ASSUME NEW q \in Process, q # p PROVE Told(q)'
  OBVIOUS
<1>1. Told(q)
  BY DEF HInv
<1> QED
  BY <1>1, StillTold

(* An operation that is over has nothing to be told. *)
LEMMA LeaveTold ==
    ASSUME IInv, HInv, NEW p \in Process, Leave(p), UNCHANGED <<fileVars, since>>,
           \A q \in Process \ {p} : temp'[q] = temp[q]
    PROVE  HInv'
<1>1. UNCHANGED <<file, held, since>>
  BY DEF fileVars
<1>2. /\ pc'[p] = "idle" /\ job'[p] = NoJob
      /\ \A q \in Process \ {p} : pc'[q] = pc[q] /\ job'[q] = job[q] /\ seen'[q] = seen[q]
  BY DEF Leave, Goto, IInv, TypeOK
<1>3. Told(p)'
  BY <1>1, <1>2 DEF HInv, Told
<1>4. /\ Len(held)' = Len(held) /\ Len(held) \in Nat /\ held' \in Seq(Content \union {None})
      /\ \A k \in 1..Len(held) : held'[k] = held[k]
  BY <1>1 DEF IInv, TypeOK
<1>5. \A q \in Process : Told(q)'
  BY <1>1, <1>2, <1>3, <1>4, OthersTold
<1> QED
  BY <1>1, <1>5 DEF HInv

(* A step of p to another place within its operation. *)
LEMMA MoveTold ==
    ASSUME IInv, HInv, NEW p \in Process, UNCHANGED <<file, held>>,
           \A q \in Process \ {p} : /\ pc'[q] = pc[q] /\ job'[q] = job[q]
                                    /\ temp'[q] = temp[q] /\ seen'[q] = seen[q]
                                    /\ since'[q] = since[q],
           Told(p)'
    PROVE  HInv'
<1>1. /\ Len(held)' = Len(held) /\ Len(held) \in Nat /\ held' \in Seq(Content \union {None})
      /\ \A k \in 1..Len(held) : held'[k] = held[k]
  BY DEF IInv, TypeOK
<1>2. \A q \in Process : Told(q)'
  BY <1>1, OthersTold
<1> QED
  BY <1>2 DEF HInv

LEMMA ToldStep == IInv /\ HInv /\ [Next]_vars => HInv'
<1> SUFFICES ASSUME IInv, HInv, [Next]_vars PROVE HInv'
  OBVIOUS
<1>0. /\ held \in Seq(Content \union {None}) /\ Len(held) \in Nat
      /\ \A q \in Process : Told(q) /\ since[q] \in 0..Len(held)
      /\ DOMAIN pc = Process /\ DOMAIN job = Process /\ DOMAIN temp = Process
      /\ DOMAIN seen = Process /\ DOMAIN since = Process
  BY DEF IInv, TypeOK, HInv, Told
<1>1. ASSUME NEW p \in Process, Provision(p) \/ Rotate(p) PROVE HInv'
  <2>1. /\ UNCHANGED <<file, held, temp, seen>> /\ since' = [since EXCEPT ![p] = Len(held)]
        /\ pc' = [pc EXCEPT ![p] = "built"]
        /\ \A q \in Process \ {p} : job'[q] = job[q]
    BY <1>0, <1>1 DEF Provision, Rotate, Begin, Draw, Goto, fileVars
  <2>2. Told(p)'
    BY <1>0, <2>1 DEF Told
  <2> QED
    BY <1>0, <2>1, <2>2, MoveTold
<1>2. ASSUME NEW p \in Process, Verify(p) PROVE HInv'
  <2>1. /\ UNCHANGED <<file, held, temp, seen, job>>
        /\ since' = [since EXCEPT ![p] = Len(held)]
        /\ pc' = [pc EXCEPT ![p] = "stored"] /\ pc[p] = "idle"
    BY <1>0, <1>2 DEF Verify, Begin, Busy, Goto, fileVars
  <2>2. job'[p].op = "none"
    BY <1>0, <2>1 DEF Told, NoJob
  <2>3. Told(p)'
    BY <1>0, <2>1, <2>2 DEF Told, Tells
  <2> QED
    BY <1>0, <2>1, <2>3, MoveTold
<1>3. ASSUME NEW p \in Process, CheckAgain(p) PROVE HInv'
  <2>1. CASE Leave(p)
    BY <1>3, <2>1, LeaveTold DEF CheckAgain
  <2>2. CASE Goto(p, "checked") /\ UNCHANGED <<job, seen>>
    <3>1. UNCHANGED <<file, held, temp, seen, job, since>> /\ pc' = [pc EXCEPT ![p] = "checked"]
      BY <1>3, <2>2 DEF CheckAgain, Goto, fileVars
    <3>2. Told(p)'
      BY <1>0, <3>1 DEF Told
    <3> QED
      BY <1>0, <3>1, <3>2, MoveTold
  <2> QED
    BY <1>3, <2>1, <2>2 DEF CheckAgain
<1>4. ASSUME NEW p \in Process, CreateTemporary(p) PROVE HInv'
  <2>1. /\ UNCHANGED <<file, held, seen, job, since>> /\ pc' = [pc EXCEPT ![p] = "opened"]
        /\ \A q \in Process \ {p} : temp'[q] = temp[q]
    BY <1>0, <1>4 DEF CreateTemporary, Goto, fileVars
  <2>2. Told(p)'
    BY <1>0, <2>1 DEF Told
  <2> QED
    BY <1>0, <2>1, <2>2, MoveTold
<1>5. ASSUME NEW p \in Process, WriteTemporary(p) PROVE HInv'
  <2>1. /\ UNCHANGED <<file, held, seen, job, since>> /\ pc' = [pc EXCEPT ![p] = "written"]
        /\ temp'[p] = job[p].envelope
        /\ \A q \in Process \ {p} : temp'[q] = temp[q]
    BY <1>0, <1>5 DEF WriteTemporary, Goto, fileVars
  <2>2. Told(p)'
    BY <1>0, <2>1 DEF Told
  <2> QED
    BY <1>0, <2>1, <2>2, MoveTold
<1>6. ASSUME NEW p \in Process, Synchronise(p) PROVE HInv'
  <2>1. temp[p] \in Envelope /\ temp[p].token = job[p].envelope.token /\ pc[p] = "written"
    BY <1>0, <1>6 DEF Synchronise, IInv, Established, Told
  <2>2. /\ UNCHANGED <<file, held, seen, job, since>> /\ pc' = [pc EXCEPT ![p] = "synced"]
        /\ temp'[p] = [temp[p] EXCEPT !.synced = TRUE]
        /\ \A q \in Process \ {p} : temp'[q] = temp[q]
    BY <1>0, <1>6 DEF Synchronise, Goto, fileVars
  <2>3. temp'[p].token = temp[p].token
    BY <2>1, <2>2 DEF Envelope
  <2>4. Told(p)'
    BY <1>0, <2>1, <2>2, <2>3 DEF Told
  <2> QED
    BY <1>0, <2>2, <2>4, MoveTold
<1>7. ASSUME NEW p \in Process, Replace(p) PROVE HInv'
  <2>1. /\ pc[p] = "synced" /\ temp[p] \in Envelope /\ temp[p] # None
        /\ temp[p].token = job[p].envelope.token
    BY <1>0, <1>7, StoreAssumption
       DEF Replace, ReadyToReplace, IInv, Established, Told, Content
  <2>2. /\ UNCHANGED <<seen, job, since>> /\ pc' = [pc EXCEPT ![p] = "replaced"]
        /\ file' = temp[p] /\ held' = Append(held, temp[p])
        /\ \A q \in Process \ {p} : temp'[q] = temp[q]
    BY <1>0, <1>7 DEF Replace, Goto
  <2>3. /\ held' \in Seq(Content \union {None}) /\ Len(held)' = Len(held) + 1 /\ held' # <<>>
        /\ held'[Len(held) + 1] = temp[p] /\ \A k \in 1..Len(held) : held'[k] = held[k]
    BY <1>0, <2>1, <2>2 DEF Content
  <2>4. Told(p)'
    <3>1. Len(held) + 1 \in 1..(Len(held) + 1)
      BY <1>0
    <3>2. Tells(p, Len(held))'
      BY <2>1, <2>2, <2>3, <3>1 DEF Tells
    <3> QED
      BY <1>0, <2>2, <2>3, <3>2 DEF Told
  <2>5. \A q \in Process : Told(q)'
    BY <1>0, <2>2, <2>3, <2>4, OthersTold
  <2> QED
    BY <2>2, <2>3, <2>5 DEF HInv
<1>8. ASSUME NEW p \in Process, RestrictMode(p) PROVE HInv'
  <2>1. /\ UNCHANGED <<file, held, temp, seen, job, since>> /\ pc[p] = "replaced"
        /\ pc' = [pc EXCEPT ![p] = "stored"]
    BY <1>8 DEF RestrictMode, Goto, fileVars
  <2>2. Told(p)'
    BY <1>0, <2>1 DEF Told, Tells
  <2> QED
    BY <1>0, <2>1, <2>2, MoveTold
<1>9. ASSUME NEW p \in Process, Fail(p) \/ Killed(p) PROVE HInv'
  <2>1. /\ Leave(p) /\ UNCHANGED <<fileVars, since>>
        /\ \A q \in Process \ {p} : temp'[q] = temp[q]
    BY <1>0, <1>9 DEF Fail, Killed, Unlinked
  <2> QED
    BY <2>1, LeaveTold
<1>10. ASSUME NEW p \in Process, ReadDates(p) PROVE HInv'
  <2>1. /\ UNCHANGED <<file, held, temp, job, since>> /\ pc[p] = "stored"
        /\ pc' = [pc EXCEPT ![p] = "dated"] /\ file # None
        /\ seen' = [seen EXCEPT ![p] = file]
    BY <1>10 DEF ReadDates, Goto, fileVars
  <2>2. 0 < Len(held) /\ held[Len(held)] = file
    BY <1>0, <2>1 DEF HInv
  <2>3. Tells(p, Len(held))'
    BY <1>0, <2>1 DEF Told, Tells
  <2>4. \E i \in since'[p]..Len(held)' : 0 < i /\ held'[i] = seen'[p] /\ Tells(p, i)'
    BY <1>0, <2>1, <2>2, <2>3
  <2>5. Told(p)'
    BY <1>0, <2>1, <2>4 DEF Told
  <2> QED
    BY <1>0, <2>1, <2>5, MoveTold
<1>11. ASSUME NEW p \in Process, ReadToken(p) PROVE HInv'
  BY <1>11, LeaveTold DEF ReadToken
<1>12. ASSUME PowerLoss PROVE HInv'
  <2>1. Survivor = disk /\ disk \in Content \union {None}
    BY SurvivorDurable DEF IInv, TypeOK
  <2>2. /\ held' = IF disk = file THEN held ELSE Append(held, disk)
        /\ file' = disk /\ since' = since
        /\ \A p \in Process : pc'[p] = "idle" /\ job'[p] = NoJob
    BY <1>12, <2>1 DEF PowerLoss
  <2>3. /\ Len(held)' \in Nat /\ Len(held) <= Len(held)'
        /\ file' = IF held' = <<>> THEN None ELSE held'[Len(held)']
    BY <1>0, <2>1, <2>2 DEF HInv
  <2>4. \A p \in Process : Told(p)'
    BY <1>0, <2>2, <2>3 DEF Told
  <2> QED
    BY <2>3, <2>4 DEF HInv
<1>13. ASSUME WriteBack \/ UNCHANGED vars PROVE HInv'
  <2>1. UNCHANGED <<file, held, temp, pc, job, seen, since>>
    BY <1>13 DEF WriteBack, vars
  <2> QED
    BY <2>1 DEF HInv, Told, Tells
<1> QED
  BY <1>1, <1>2, <1>3, <1>4, <1>5, <1>6, <1>7, <1>8, <1>9, <1>10, <1>11, <1>12, <1>13 DEF Next

(* Only the second read of metadata makes an answer. *)
LEMMA AnswerIsRead ==
    ASSUME IInv, [Next]_vars, NEW p \in Process, answer'[p] # answer[p]
    PROVE  ReadToken(p)
<1>1. DOMAIN answer = Process
  BY DEF IInv, TypeOK
<1>2. ASSUME NEW q \in Process, ReadToken(q) PROVE ReadToken(p)
  BY <1>1, <1>2 DEF ReadToken
<1>3. ASSUME UNCHANGED answer PROVE FALSE
  BY <1>3
<1>4. CASE \E q \in Process : \/ Provision(q) \/ Rotate(q) \/ Verify(q)
                              \/ CheckAgain(q) \/ CreateTemporary(q) \/ WriteTemporary(q)
                              \/ Synchronise(q) \/ Replace(q) \/ RestrictMode(q) \/ Fail(q)
                              \/ ReadDates(q) \/ Killed(q)
  BY <1>3, <1>4 DEF Provision, Rotate, Verify, CheckAgain, CreateTemporary, WriteTemporary,
     Synchronise, Replace, RestrictMode, Fail, ReadDates, Killed
<1>5. CASE WriteBack \/ PowerLoss \/ UNCHANGED vars
  BY <1>3, <1>5 DEF WriteBack, PowerLoss, vars
<1> QED
  BY <1>2, <1>4, <1>5 DEF Next

(* What metadata answers was in the file during the operation, dates       *)
(* before token, and a write is answered with nothing older than itself,   *)
(* though other processes write between its two reads                      *)
(* (approval_tokens.py:399).                                               *)
THEOREM AnswersAlwaysCurrent == Spec => AnswersCurrent
<1>1. Init => HInv
  BY DEF Init, HInv, Told, NoJob
<1>2. ASSUME IInv, HInv, [Next]_vars, NEW p \in Process, answer'[p] # answer[p]
      PROVE  \E i, j \in since[p]..Len(held) :
                /\ 0 < i /\ i <= j
                /\ held[i] # None /\ Dates(held[i]) = Dates(answer'[p])
                /\ held[j] # None /\ held[j].token = answer'[p].token
                /\ job[p].op # "none" =>
                     \E k \in 1..i :
                        held[k] # None /\ held[k].token = job[p].envelope.token
  <2>1. ReadToken(p)
    BY <1>2, AnswerIsRead
  <2>2. /\ pc[p] = "dated" /\ file # None /\ file \in Envelope
        /\ seen[p] \in Envelope /\ seen[p] # None
        /\ answer'[p] = [seen[p] EXCEPT !.token = file.token]
    BY <1>2, <2>1, StoreAssumption
       DEF ReadToken, Report, IInv, TypeOK, Durable, Established, Content
  <2>3. /\ Dates(answer'[p]) = Dates(seen[p]) /\ answer'[p].token = file.token
    BY <2>2 DEF Dates, Envelope
  <2>4. since[p] \in Nat /\ Len(held) \in Nat
    BY <1>2 DEF IInv, TypeOK
  <2>5. PICK i \in since[p]..Len(held) : 0 < i /\ held[i] = seen[p] /\ Tells(p, i)
    BY <1>2, <2>2 DEF HInv, Told
  <2>6. held[Len(held)] = file
    BY <1>2, <2>2 DEF HInv
  <2>7. Len(held) \in since[p]..Len(held) /\ i <= Len(held)
    BY <2>4, <2>5
  <2> QED
    BY <2>2, <2>3, <2>5, <2>6, <2>7 DEF Tells
<1>3. IInv /\ HInv /\ [Next]_vars =>
         [\A p \in Process :
            answer'[p] # answer[p] =>
                \E i, j \in since[p]..Len(held) :
                    /\ 0 < i /\ i <= j
                    /\ held[i] # None /\ Dates(held[i]) = Dates(answer'[p])
                    /\ held[j] # None /\ held[j].token = answer'[p].token
                    /\ job[p].op # "none" =>
                         \E k \in 1..i :
                            held[k] # None /\ held[k].token = job[p].envelope.token]_vars
  BY <1>2
<1> QED
  BY <1>1, <1>3, InitEstablishes, StepPreserves, ToldStep, PTL DEF Spec, AnswersCurrent
=============================================================================
