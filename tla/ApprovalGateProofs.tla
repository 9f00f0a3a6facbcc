------------------------- MODULE ApprovalGateProofs -------------------------
(***************************************************************************)
(* Proofs about ApprovalGate, for every set of threads and requests and    *)
(* every bound.  The inductive invariant says that the table of records    *)
(* and the fingerprint index agree (TableOK); the timestamps of a decision *)
(* follow from it, because what the index does not reach is not swept.     *)
(* The refinement of OneTimeGrant needs the agreement of the two: what the *)
(* index leads to is the standing of a request, a sweep is the lapse of    *)
(* some of them, and pruning the table loses none.                         *)
(* Pruning keeps the newest finished records, which takes counting: what   *)
(* is dropped leaves HistoryLimit newer ones behind.  That every change is *)
(* announced rests on the types of the state and on this, that a thread    *)
(* enters the lock with an empty outbox (Silent).                          *)
(* That no grant is used twice is then proved of the abstraction's steps.  *)
(***************************************************************************)
EXTENDS ApprovalGate, FiniteSetTheorems, SequenceTheorems, TLAPS

(* A record as the gate keeps it: typed, and stamped within its lifetime.  *)
RecordOK(r) ==
    /\ r \in Record
    /\ r.status \in {"approved", "denied"} => r.decided # Never /\ r.decided < r.expires
    /\ r.status = "consumed" => r.consumed < r.expires

(* A table of records and an index into it that tell the same story.       *)
TableOK(recs, index, n) ==
    /\ \A i \in DOMAIN recs : i \in 1..n /\ RecordOK(recs[i])
    /\ \A f \in DOMAIN index :
          /\ f \in Fingerprint
          /\ index[f] \in DOMAIN recs
          /\ recs[index[f]].fp = f
          /\ recs[index[f]].status \notin TerminalStatus
    /\ \A i \in DOMAIN recs :
          recs[i].status \notin TerminalStatus =>
             recs[i].fp \in DOMAIN index /\ index[recs[i].fp] = i

(* Nothing in the table that time could still end is past its expiry.      *)
Fresh(recs, t) ==
    \A i \in DOMAIN recs :
        recs[i].status \in {"pending", "approved"} => t < recs[i].expires

IInv ==
    /\ clock \in Nat
    /\ sequence \in Nat
    /\ call \in [Proc -> Call]
    /\ TableOK(records, active, sequence)

-----------------------------------------------------------------------------
(* Dropping excess records loses no open one: _prune_locked keeps the      *)
(* table and its index in agreement (approval.py:752).                     *)
LEMMA PruneKeepsTable ==
    ASSUME NEW recs, NEW index, NEW n, TableOK(recs, index, n)
    PROVE  /\ TableOK(Prune(recs), index, n)
           /\ \A i \in DOMAIN Prune(recs) : i \in DOMAIN recs /\ Prune(recs)[i] = recs[i]
           /\ \A i \in DOMAIN recs :
                 recs[i].status \notin TerminalStatus => i \in DOMAIN Prune(recs)
<1>1. Excess(recs) \subseteq Terminal(recs)
  BY DEF Excess
<1>2. DOMAIN Prune(recs) = DOMAIN recs \ Excess(recs)
  BY DEF Prune
<1>3. \A i \in DOMAIN Prune(recs) : i \in DOMAIN recs /\ Prune(recs)[i] = recs[i]
  BY DEF Prune
<1>4. \A i \in DOMAIN recs :
         recs[i].status \notin TerminalStatus => i \in DOMAIN Prune(recs)
  BY <1>1, <1>2 DEF Terminal
<1>5. TableOK(Prune(recs), index, n)
  BY <1>3, <1>4 DEF TableOK
<1> QED
  BY <1>3, <1>4, <1>5

(* The sweep keeps table and index in agreement and leaves nothing overdue *)
(* behind; what it does not expire it leaves as it was (approval.py:666).  *)
LEMMA SweepKeepsTable ==
    ASSUME TableOK(records, active, sequence), sequence \in Nat, NEW t \in Nat
    PROVE  /\ TableOK(Swept(t), SweptIndex(t), sequence)
           /\ Fresh(Swept(t), t)
           /\ \A i \in DOMAIN Swept(t) :
                 /\ i \in DOMAIN records
                 /\ Swept(t)[i].status # "expired" => Swept(t)[i] = records[i]
                 /\ records[i].status \in TerminalStatus \union {"denied"} =>
                       Swept(t)[i] = records[i]
<1> DEFINE E == Expirable(t)
           R == [i \in DOMAIN records |->
                    IF i \in E
                    THEN [records[i] EXCEPT !.status = "expired", !.decided = t]
                    ELSE records[i]]
<1>1. E \subseteq DOMAIN records
  BY DEF Expirable
<1>2. \A i \in E : records[i].status \in {"pending", "approved"}
  BY DEF Expirable
<1>3. \A i \in DOMAIN records \ E : R[i] = records[i]
  OBVIOUS
<1>4. \A i \in E : /\ R[i] = [records[i] EXCEPT !.status = "expired", !.decided = t]
                   /\ records[i] \in Record
  BY <1>1 DEF TableOK, RecordOK
<1>5. \A i \in E : /\ R[i] \in Record
                   /\ R[i].status = "expired"
                   /\ R[i].fp = records[i].fp
  <2> SUFFICES ASSUME NEW i \in E
               PROVE  R[i] \in Record /\ R[i].status = "expired" /\ R[i].fp = records[i].fp
    OBVIOUS
  <2> DEFINE r == records[i]
  <2>1. r \in Record /\ R[i] = [r EXCEPT !.status = "expired", !.decided = t]
    BY <1>4
  <2> HIDE DEF r, R, E
  <2>2. [r EXCEPT !.status = "expired", !.decided = t] \in Record
    BY <2>1 DEF Record, Status, TerminalStatus
  <2>3. /\ [r EXCEPT !.status = "expired", !.decided = t].status = "expired"
        /\ [r EXCEPT !.status = "expired", !.decided = t].fp = r.fp
    BY <2>1 DEF Record
  <2> QED
    BY <2>1, <2>2, <2>3 DEF r
<1>6. \A i \in DOMAIN R : i \in 1..sequence /\ RecordOK(R[i])
  BY <1>1, <1>3, <1>5 DEF TableOK, RecordOK
<1>7. \A f \in DOMAIN SweptIndex(t) :
         f \in DOMAIN active /\ SweptIndex(t)[f] = active[f] /\ active[f] \notin E
  BY DEF SweptIndex
<1>8. \A f \in DOMAIN active : active[f] \notin E => f \in DOMAIN SweptIndex(t)
  BY DEF SweptIndex
<1>9. TableOK(R, SweptIndex(t), sequence)
  <2>1. \A f \in DOMAIN SweptIndex(t) :
          /\ f \in Fingerprint
          /\ SweptIndex(t)[f] \in DOMAIN R
          /\ R[SweptIndex(t)[f]].fp = f
          /\ R[SweptIndex(t)[f]].status \notin TerminalStatus
    BY <1>3, <1>7 DEF TableOK
  <2>2. \A i \in DOMAIN R : R[i].status \notin TerminalStatus =>
             R[i].fp \in DOMAIN SweptIndex(t) /\ SweptIndex(t)[R[i].fp] = i
    <3> SUFFICES ASSUME NEW i \in DOMAIN records, R[i].status \notin TerminalStatus
                 PROVE  R[i].fp \in DOMAIN SweptIndex(t) /\ SweptIndex(t)[R[i].fp] = i
      OBVIOUS
    <3>1. i \notin E /\ R[i] = records[i]
      BY <1>3, <1>5 DEF TerminalStatus
    <3>2. records[i].fp \in DOMAIN active /\ active[records[i].fp] = i
      BY <3>1 DEF TableOK
    <3> QED
      BY <3>1, <3>2, <1>7, <1>8
  <2> QED
    BY <1>6, <2>1, <2>2 DEF TableOK
<1>10. Fresh(R, t)
  <2> SUFFICES ASSUME NEW i \in DOMAIN records, R[i].status \in {"pending", "approved"}
               PROVE  t < R[i].expires
    BY DEF Fresh
  <2>1. i \notin E /\ R[i] = records[i]
    BY <1>3, <1>5
  <2>2. records[i].fp \in DOMAIN active /\ active[records[i].fp] = i
    BY <2>1 DEF TableOK, TerminalStatus
  <2>3. records[i].expires \in Nat
    BY DEF TableOK, RecordOK, Record
  <2>4. ~(t >= records[i].expires)
    BY <2>1, <2>2 DEF Expirable
  <2> QED
    BY <2>1, <2>3, <2>4
<1>11. Swept(t) = Prune(R)
  BY DEF Swept
<1>12. /\ TableOK(Prune(R), SweptIndex(t), sequence)
       /\ \A i \in DOMAIN Prune(R) : i \in DOMAIN R /\ Prune(R)[i] = R[i]
  BY <1>9, PruneKeepsTable
<1>13. Fresh(Prune(R), t)
  BY <1>10, <1>12 DEF Fresh
<1>14. \A i \in DOMAIN R :
          /\ R[i].status # "expired" => R[i] = records[i]
          /\ records[i].status \in TerminalStatus \union {"denied"} => R[i] = records[i]
  BY <1>2, <1>3, <1>5 DEF TerminalStatus
<1> QED
  BY <1>11, <1>12, <1>13, <1>14

(* Changing one open record keeps the agreement when the index keeps the   *)
(* records that stay open and loses the one that does not.                 *)
LEMMA UpdateKeepsTable ==
    ASSUME NEW recs, NEW index, NEW n, TableOK(recs, index, n),
           NEW i \in DOMAIN recs, recs[i].status \notin TerminalStatus,
           NEW new, DOMAIN new = DOMAIN recs,
           \A j \in DOMAIN recs \ {i} : new[j] = recs[j],
           RecordOK(new[i]), new[i].fp = recs[i].fp
    PROVE  /\ new[i].status \notin TerminalStatus => TableOK(new, index, n)
           /\ new[i].status \in TerminalStatus =>
                 TableOK(new, Without(index, recs[i].fp), n)
<1> DEFINE f == recs[i].fp
<1>1. f \in DOMAIN index /\ index[f] = i
  BY DEF TableOK
<1>2. \A g \in DOMAIN index : index[g] = i => g = f
  BY DEF TableOK
<1>3. \A j \in DOMAIN recs : recs[j].status \notin TerminalStatus /\ recs[j].fp = f => j = i
  BY <1>1 DEF TableOK
<1>4. \A j \in DOMAIN new : j \in 1..n /\ RecordOK(new[j])
  BY DEF TableOK
<1>5. ASSUME new[i].status \notin TerminalStatus
      PROVE  TableOK(new, index, n)
  BY <1>1, <1>2, <1>4, <1>5 DEF TableOK
<1>6. ASSUME new[i].status \in TerminalStatus
      PROVE  TableOK(new, Without(index, f), n)
  <2>1. \A g \in DOMAIN Without(index, f) :
           g \in DOMAIN index /\ g # f /\ Without(index, f)[g] = index[g]
    BY DEF Without
  <2>2. \A g \in DOMAIN index : g # f => g \in DOMAIN Without(index, f)
    BY DEF Without
  <2>3. \A g \in DOMAIN Without(index, f) :
          /\ g \in Fingerprint
          /\ Without(index, f)[g] \in DOMAIN new
          /\ new[Without(index, f)[g]].fp = g
          /\ new[Without(index, f)[g]].status \notin TerminalStatus
    BY <1>2, <2>1 DEF TableOK
  <2>4. \A j \in DOMAIN new : new[j].status \notin TerminalStatus =>
             new[j].fp \in DOMAIN Without(index, f) /\ Without(index, f)[new[j].fp] = j
    BY <1>3, <1>6, <2>1, <2>2 DEF TableOK
  <2> QED
    BY <1>4, <2>3, <2>4 DEF TableOK
<1> QED
  BY <1>5, <1>6

(* What the types of a call say of its time and its request.               *)
LEMMA CallTyped ==
    ASSUME call \in [Proc -> Call], NEW p \in Proc
    PROVE  /\ call[p] # NoCall => call[p].now \in Nat
           /\ call[p].op # "none" => call[p].now \in Nat
           /\ call[p].op = "authorize" => call[p].fp \in Fingerprint
<1>1. call[p] \in Call
  OBVIOUS
<1>2. CASE call[p] = NoCall
  BY <1>2 DEF NoCall
<1>3. CASE call[p] \in [op : {"authorize"}, fp : Fingerprint, now : Nat]
  BY <1>3 DEF NoCall
<1>4. CASE call[p] \in [op : {"approved", "denied", "cancelled"}, id : Id, now : Nat]
  BY <1>4 DEF NoCall
<1> QED
  BY <1>1, <1>2, <1>3, <1>4 DEF Call
Stamped(r, s, t) == [[r EXCEPT !.status = s] EXCEPT !.decided = t]

(* Deciding a record stamps it and leaves the rest of it alone.            *)
LEMMA StampedRecord ==
    ASSUME NEW r \in Record, NEW s \in Status, NEW t \in Nat
    PROVE  /\ Stamped(r, s, t) \in Record
           /\ Stamped(r, s, t).status = s
           /\ Stamped(r, s, t).decided = t
           /\ Stamped(r, s, t).fp = r.fp
           /\ Stamped(r, s, t).expires = r.expires
  BY DEF Record, Stamped

-----------------------------------------------------------------------------
LEMMA InitEstablishes == Init => IInv
<1> SUFFICES ASSUME Init PROVE IInv
  OBVIOUS
<1>1. DOMAIN records = {} /\ DOMAIN active = {}
  BY DEF Init
<1>2. TableOK(records, active, sequence)
  BY <1>1 DEF TableOK
<1> QED
  BY <1>2 DEF Init, IInv, Call

(* A call that sweeps and raises leaves the swept table.                   *)
LEMMA AbandonStep ==
    ASSUME IInv, NEW p \in Proc, NEW t \in Nat, Abandon(p, t)
    PROVE  IInv'
<1>1. TableOK(Swept(t), SweptIndex(t), sequence)
  BY SweepKeepsTable DEF IInv
<1>2. TableOK(records', active', sequence')
  BY <1>1 DEF Abandon
<1>3. TableOK(records, active, sequence)'
  BY <1>2 DEF TableOK, RecordOK
<1> QED
  BY <1>3 DEF IInv, Abandon, Call

LEMMA ConsumeStep ==
    ASSUME IInv, NEW p \in Proc, Consume(p)
    PROVE  IInv'
<1> DEFINE t == call[p].now
           f == call[p].fp
           recs == Swept(t)
           index == SweptIndex(t)
           new == [recs EXCEPT ![index[f]].status = "consumed",
                               ![index[f]].consumed = t]
<1>1. t \in Nat
  BY CallTyped DEF IInv, Consume, Entered
<1>2. TableOK(recs, index, sequence) /\ Fresh(recs, t)
  BY <1>1, SweepKeepsTable DEF IInv
<1>3. /\ f \in DOMAIN index
      /\ recs[index[f]].status = "approved"
      /\ records' = Prune(new)
      /\ active' = Without(index, f)
      /\ sequence' = sequence /\ clock' = clock
      /\ call' = [call EXCEPT ![p] = NoCall]
  BY DEF Consume, Leave, Usable
<1> HIDE DEF recs, index, t, f
<1> DEFINE i == index[f]
<1>4. i \in DOMAIN recs /\ recs[i].fp = f /\ RecordOK(recs[i]) /\ t < recs[i].expires
  BY <1>2, <1>3 DEF TableOK, Fresh
<1>5. new[i] = [[recs[i] EXCEPT !.status = "consumed"] EXCEPT !.consumed = t]
  BY <1>4
<1>6. RecordOK(new[i]) /\ new[i].fp = f /\ new[i].status = "consumed"
  BY <1>1, <1>4, <1>5 DEF RecordOK, Record, Status, TerminalStatus
<1>7. DOMAIN new = DOMAIN recs /\ \A j \in DOMAIN recs \ {i} : new[j] = recs[j]
  BY <1>4
<1>8. TableOK(new, Without(index, f), sequence)
  <2>1. recs[i].status \notin TerminalStatus /\ new[i].status \in TerminalStatus
    BY <1>3, <1>6 DEF TerminalStatus
  <2> HIDE DEF new, i
  <2>2. TableOK(new, Without(index, recs[i].fp), sequence)
    BY <2>1, <1>2, <1>4, <1>6, <1>7, UpdateKeepsTable
  <2> QED
    BY <2>2, <1>4
<1>9. TableOK(records', active', sequence')
  BY <1>3, <1>8, PruneKeepsTable
<1>10. TableOK(records, active, sequence)'
  BY <1>9 DEF TableOK, RecordOK
<1> QED
  BY <1>3, <1>10 DEF IInv, Call

LEMMA ReplayStep ==
    ASSUME IInv, NEW p \in Proc, Replay(p)
    PROVE  IInv'
<1>1. call[p].now \in Nat
  BY CallTyped DEF IInv, Replay, Entered
<1>2. TableOK(Swept(call[p].now), SweptIndex(call[p].now), sequence)
  BY <1>1, SweepKeepsTable DEF IInv
<1>3. TableOK(records', active', sequence')
  BY <1>2 DEF Replay
<1>4. TableOK(records, active, sequence)'
  BY <1>3 DEF TableOK, RecordOK
<1> QED
  BY <1>4 DEF IInv, Replay, Leave, Call

LEMMA RequestStep ==
    ASSUME IInv, NEW p \in Proc, Request(p)
    PROVE  IInv'
<1> DEFINE t == call[p].now
           f == call[p].fp
           i == sequence + 1
           recs == Swept(t)
           index == SweptIndex(t)
           new == [fp |-> f, status |-> "pending", expires |-> t + TTL,
                   decided |-> Never, consumed |-> Never]
           table == With(recs, i, new)
           pointers == With(index, f, i)
<1>1. t \in Nat /\ f \in Fingerprint
  BY CallTyped DEF IInv, Request, Entered
<1>2. TableOK(recs, index, sequence)
  BY <1>1, SweepKeepsTable DEF IInv
<1>3. /\ f \notin DOMAIN index
      /\ sequence' = i
      /\ records' = Prune(table)
      /\ active' = pointers
      /\ clock' = clock
      /\ call' = [call EXCEPT ![p] = NoCall]
  BY DEF Request, Leave
<1>4. RecordOK(new) /\ new.fp = f /\ new.status \notin TerminalStatus
  BY <1>1, GateAssumption
     DEF RecordOK, Record, Status, OpenStatus, TerminalStatus
<1>5. sequence \in Nat /\ i \notin DOMAIN recs
  BY <1>2 DEF IInv, TableOK
<1> HIDE DEF recs, index, t, f, new
<1>6. /\ DOMAIN table = DOMAIN recs \union {i}
      /\ table[i] = new
      /\ \A j \in DOMAIN recs : table[j] = recs[j]
  BY <1>5 DEF With
<1>7. /\ DOMAIN pointers = DOMAIN index \union {f}
      /\ pointers[f] = i
      /\ \A g \in DOMAIN index : pointers[g] = index[g]
  BY <1>3 DEF With
<1> HIDE DEF table, pointers
<1>8. TableOK(table, pointers, i)
  <2>1. \A j \in DOMAIN table : j \in 1..i /\ RecordOK(table[j])
    BY <1>2, <1>4, <1>5, <1>6 DEF TableOK
  <2>2. \A g \in DOMAIN pointers :
          /\ g \in Fingerprint
          /\ pointers[g] \in DOMAIN table
          /\ table[pointers[g]].fp = g
          /\ table[pointers[g]].status \notin TerminalStatus
    BY <1>1, <1>2, <1>4, <1>6, <1>7 DEF TableOK
  <2>3. \A j \in DOMAIN table : table[j].status \notin TerminalStatus =>
             table[j].fp \in DOMAIN pointers /\ pointers[table[j].fp] = j
    BY <1>2, <1>3, <1>4, <1>6, <1>7 DEF TableOK
  <2> QED
    BY <2>1, <2>2, <2>3 DEF TableOK
<1>9. TableOK(records', active', sequence')
  BY <1>3, <1>8, PruneKeepsTable
<1>10. TableOK(records, active, sequence)'
  BY <1>9 DEF TableOK, RecordOK
<1> QED
  BY <1>3, <1>5, <1>10 DEF IInv, Call

LEMMA DecideStep ==
    ASSUME IInv, NEW p \in Proc, NEW verdict \in {"approved", "denied"},
           Decide(p, verdict)
    PROVE  IInv'
<1> DEFINE t == call[p].now
           i == call[p].id
           recs == Swept(t)
           index == SweptIndex(t)
           new == [recs EXCEPT ![i].status = verdict, ![i].decided = t]
<1>1. t \in Nat
  BY CallTyped DEF IInv, Decide, Entered
<1>2. TableOK(recs, index, sequence) /\ Fresh(recs, t)
  BY <1>1, SweepKeepsTable DEF IInv
<1>3. /\ i \in DOMAIN recs
      /\ recs[i].status = "pending"
      /\ records' = Prune(new)
      /\ active' = index
      /\ sequence' = sequence /\ clock' = clock
      /\ call' = [call EXCEPT ![p] = NoCall]
  BY DEF Decide, Leave
<1> HIDE DEF recs, index, t, i
<1>4. RecordOK(recs[i]) /\ t < recs[i].expires
  BY <1>2, <1>3 DEF TableOK, Fresh
<1>5. new[i] = Stamped(recs[i], verdict, t)
  BY <1>3 DEF Stamped
<1>6. RecordOK(new[i]) /\ new[i].fp = recs[i].fp /\ new[i].status = verdict
  <2> HIDE DEF new
  <2>1. recs[i] \in Record /\ verdict \in Status
    BY <1>4 DEF RecordOK, Status, OpenStatus
  <2>2. /\ new[i] \in Record
        /\ new[i].status = verdict /\ new[i].decided = t
        /\ new[i].fp = recs[i].fp /\ new[i].expires = recs[i].expires
    BY <2>1, <1>1, <1>5, StampedRecord
  <2> QED
    BY <2>2, <1>1, <1>4 DEF RecordOK, Never
<1>7. DOMAIN new = DOMAIN recs /\ \A j \in DOMAIN recs \ {i} : new[j] = recs[j]
  BY <1>3
<1>8. TableOK(new, index, sequence)
  <2>1. recs[i].status \notin TerminalStatus /\ new[i].status \notin TerminalStatus
    BY <1>3, <1>6 DEF TerminalStatus
  <2> HIDE DEF new
  <2> QED
    BY <2>1, <1>2, <1>3, <1>6, <1>7, UpdateKeepsTable
<1>9. TableOK(records', active', sequence')
  BY <1>3, <1>8, PruneKeepsTable
<1>10. TableOK(records, active, sequence)'
  BY <1>9 DEF TableOK, RecordOK
<1> QED
  BY <1>3, <1>10 DEF IInv, Call

LEMMA CancelStep ==
    ASSUME IInv, NEW p \in Proc, Cancel(p)
    PROVE  IInv'
<1> DEFINE t == call[p].now
           i == call[p].id
           recs == Swept(t)
           index == SweptIndex(t)
           new == [recs EXCEPT ![i].status = "cancelled", ![i].decided = t]
<1>1. t \in Nat
  BY CallTyped DEF IInv, Cancel, Entered
<1>2. TableOK(recs, index, sequence)
  BY <1>1, SweepKeepsTable DEF IInv
<1>3. /\ i \in DOMAIN recs
      /\ recs[i].status \in OpenStatus
      /\ records' = Prune(new)
      /\ active' = Without(index, recs[i].fp)
      /\ sequence' = sequence /\ clock' = clock
      /\ call' = [call EXCEPT ![p] = NoCall]
  BY DEF Cancel, Leave, Open
<1> HIDE DEF recs, index, t, i
<1>4. RecordOK(recs[i])
  BY <1>2, <1>3 DEF TableOK
<1>5. new[i] = Stamped(recs[i], "cancelled", t)
  BY <1>3 DEF Stamped
<1>6. RecordOK(new[i]) /\ new[i].fp = recs[i].fp /\ new[i].status = "cancelled"
  <2> HIDE DEF new
  <2>1. recs[i] \in Record /\ "cancelled" \in Status
    BY <1>4 DEF RecordOK, Status, TerminalStatus
  <2>2. /\ new[i] \in Record
        /\ new[i].status = "cancelled" /\ new[i].fp = recs[i].fp
    BY <2>1, <1>1, <1>5, StampedRecord
  <2> QED
    BY <2>2 DEF RecordOK
<1>7. DOMAIN new = DOMAIN recs /\ \A j \in DOMAIN recs \ {i} : new[j] = recs[j]
  BY <1>3
<1>8. TableOK(new, Without(index, recs[i].fp), sequence)
  <2>1. recs[i].status \notin TerminalStatus /\ new[i].status \in TerminalStatus
    BY <1>3, <1>6 DEF OpenStatus, TerminalStatus
  <2> HIDE DEF new
  <2> QED
    BY <2>1, <1>2, <1>3, <1>6, <1>7, UpdateKeepsTable
<1>9. TableOK(records', active', sequence')
  BY <1>3, <1>8, PruneKeepsTable
<1>10. TableOK(records, active, sequence)'
  BY <1>9 DEF TableOK, RecordOK
<1> QED
  BY <1>3, <1>10 DEF IInv, Call
-----------------------------------------------------------------------------
(* Every step keeps the invariant: one case per action.                    *)
LEMMA StepPreserves == IInv /\ [Next]_vars => IInv'
<1> SUFFICES ASSUME IInv, [Next]_vars PROVE IInv'
  OBVIOUS
<1> USE DEF IInv
<1>1. CASE UNCHANGED <<records, active, sequence, clock>> /\ call' \in [Proc -> Call]
  BY <1>1 DEF TableOK, RecordOK
<1>2. CASE Tick
  <2>1. TableOK(records, active, sequence)'
    BY <1>2 DEF Tick, gateVars, TableOK, RecordOK
  <2> QED
    BY <2>1, <1>2 DEF Tick, gateVars, Call
<1>3. ASSUME NEW p \in Proc,
             \/ Start(p) \/ Stop(p) \/ RejectIdentity(p) \/ RaiseStopped(p) \/ Publish(p)
      PROVE  IInv'
  <2>1. UNCHANGED <<records, active, sequence, clock>> /\ call' \in [Proc -> Call]
    BY <1>3 DEF Start, Stop, RejectIdentity, RaiseStopped, Publish, gateVars, Call
  <2> QED
    BY <2>1, <1>1
<1>4. ASSUME NEW p \in Proc, NEW f \in Fingerprint, BeginAuthorize(p, f)
      PROVE  IInv'
  <2>1. [op |-> "authorize", fp |-> f, now |-> clock] \in Call
    BY DEF Call
  <2>2. UNCHANGED <<records, active, sequence, clock>> /\ call' \in [Proc -> Call]
    BY <1>4, <2>1 DEF BeginAuthorize, gateVars
  <2> QED
    BY <2>2, <1>1
<1>5. ASSUME NEW p \in Proc, NEW verdict \in {"approved", "denied", "cancelled"},
             NEW i \in Id, BeginDecision(p, verdict, i)
      PROVE  IInv'
  <2>1. [op |-> verdict, id |-> i, now |-> clock] \in Call
    BY DEF Call
  <2>2. UNCHANGED <<records, active, sequence, clock>> /\ call' \in [Proc -> Call]
    BY <1>5, <2>1 DEF BeginDecision, gateVars
  <2> QED
    BY <2>2, <1>1
<1>6. ASSUME NEW p \in Proc, Consume(p) \/ Replay(p) \/ Request(p) \/ Cancel(p)
      PROVE  IInv'
  BY <1>6, ConsumeStep, ReplayStep, RequestStep, CancelStep
<1>7. ASSUME NEW p \in Proc, NEW verdict \in {"approved", "denied"}, Decide(p, verdict)
      PROVE  IInv'
  BY <1>7, DecideStep
<1>8. ASSUME NEW p \in Proc, RaiseFull(p) \/ RaiseUncancellable(p)
      PROVE  IInv'
  <2>1. call[p].now \in Nat /\ Abandon(p, call[p].now)
    BY <1>8, CallTyped DEF RaiseFull, RaiseUncancellable, Entered
  <2> QED
    BY <2>1, AbandonStep
<1>9. ASSUME NEW p \in Proc, NEW verdict \in {"approved", "denied"},
             RaiseUndecidable(p, verdict)
      PROVE  IInv'
  <2>1. call[p].now \in Nat /\ Abandon(p, call[p].now)
    BY <1>9, CallTyped DEF RaiseUndecidable, Entered
  <2> QED
    BY <2>1, AbandonStep
<1>10. ASSUME NEW p \in Proc, ReadAndPublish(p)
       PROVE  IInv'
  <2>1. TableOK(Swept(clock), SweptIndex(clock), sequence)
    BY SweepKeepsTable
  <2>2. TableOK(records', active', sequence')
    BY <1>10, <2>1 DEF ReadAndPublish
  <2>3. TableOK(records, active, sequence)'
    BY <2>2 DEF TableOK, RecordOK
  <2> QED
    BY <1>10, <2>3 DEF ReadAndPublish, Leave, Call
<1>11. ASSUME NEW p \in Proc, ReadSilently(p)
       PROVE  IInv'
  BY <1>11, AbandonStep DEF ReadSilently
<1>12. CASE UNCHANGED vars
  BY <1>12, <1>1 DEF vars
<1> HIDE DEF IInv
<1>13. CASE Next
  BY <1>2, <1>3, <1>4, <1>5, <1>6, <1>7, <1>8, <1>9, <1>10, <1>11, <1>13
     DEF Next, Locked
<1> QED
  BY <1>12, <1>13

(* The invariant holds throughout every behaviour of the gate.             *)
THEOREM Invariance == Spec => []IInv
<1>1. Init => IInv
  BY InitEstablishes
<1>2. IInv /\ [Next]_vars => IInv'
  BY StepPreserves
<1> QED
  BY <1>1, <1>2, PTL DEF Spec

(* In every execution, for any number of threads, the fingerprint index    *)
(* and the open records correspond one to one: a protected request never   *)
(* has two open approvals, and none is out of a replay's reach.            *)
THEOREM IndexAlwaysExact == Spec => []IndexExact
<1>1. IInv => IndexExact
  BY DEF IInv, TableOK, IndexExact
<1> QED
  BY <1>1, Invariance, PTL

(* In every execution no decision and no use is stamped at or after the    *)
(* expiry of the approval, although the stamp was taken before the lock.   *)
THEOREM AlwaysDecidedInTime == Spec => []DecidedInTime
<1>1. IInv => DecidedInTime
  BY DEF IInv, TableOK, RecordOK, DecidedInTime
<1> QED
  BY <1>1, Invariance, PTL

-----------------------------------------------------------------------------
(* The gate implements the one-time grant: what stands for a request is    *)
(* the status of the record its fingerprint leads to.                      *)
StandingOf(recs, index) ==
    [f \in Fingerprint |-> IF f \in DOMAIN index THEN recs[index[f]].status ELSE "none"]

(* The requests whose approvals a sweep at time t lapses.                  *)
Lapsed(t) == {f \in DOMAIN active : active[f] \in Expirable(t)}

CInv == DOMAIN counts = {"approved", "denied", "consumed", "expired"}

(* Pruning loses nothing the index leads to, so what stands, stands.       *)
LEMMA PruneStands ==
    ASSUME NEW recs, NEW index,
           \A f \in DOMAIN index : /\ index[f] \in DOMAIN recs
                                   /\ recs[index[f]].status \notin TerminalStatus
    PROVE  StandingOf(Prune(recs), index) = StandingOf(recs, index)
<1>1. \A f \in DOMAIN index : Prune(recs)[index[f]] = recs[index[f]]
  BY DEF Prune, Excess, Terminal
<1> QED
  BY <1>1 DEF StandingOf

(* A sweep makes lapse what it expires, and nothing else.                  *)
LEMMA SweepLapses ==
    ASSUME IInv, NEW t \in Nat
    PROVE  /\ Lapsed(t) \in SUBSET Fingerprint
           /\ Grants!MayLapse(Lapsed(t))
           /\ StandingOf(Swept(t), SweptIndex(t)) = Grants!After(Lapsed(t))
<1>1. /\ DOMAIN active \subseteq Fingerprint
      /\ \A f \in DOMAIN active : Standing[f] = records[active[f]].status
  BY DEF IInv, TableOK, Standing
<1>2. Lapsed(t) \in SUBSET Fingerprint
  BY <1>1 DEF Lapsed
<1>3. Grants!MayLapse(Lapsed(t))
  BY <1>1 DEF Grants!MayLapse, Lapsed, Expirable
<1>4. /\ DOMAIN SweptIndex(t) = DOMAIN active \ Lapsed(t)
      /\ \A f \in DOMAIN SweptIndex(t) : SweptIndex(t)[f] = active[f]
  BY DEF SweptIndex, Lapsed
<1>5. \A f \in DOMAIN SweptIndex(t) : Swept(t)[active[f]] = records[active[f]]
  <2>1. TableOK(Swept(t), SweptIndex(t), sequence)
    BY SweepKeepsTable DEF IInv
  <2>2. \A f \in DOMAIN SweptIndex(t) :
          active[f] \in DOMAIN Swept(t) /\ Swept(t)[active[f]].status # "expired"
    BY <1>4, <2>1 DEF TableOK, TerminalStatus
  <2> QED
    BY <2>2, SweepKeepsTable DEF IInv
<1>6. \A f \in Fingerprint : StandingOf(Swept(t), SweptIndex(t))[f] = Grants!After(Lapsed(t))[f]
  <2> SUFFICES ASSUME NEW f \in Fingerprint
               PROVE  StandingOf(Swept(t), SweptIndex(t))[f] = Grants!After(Lapsed(t))[f]
    OBVIOUS
  <2>1. CASE f \in DOMAIN SweptIndex(t)
    BY <1>1, <1>4, <1>5, <2>1 DEF StandingOf, Grants!After
  <2>2. CASE f \notin DOMAIN SweptIndex(t)
    BY <1>4, <2>2 DEF StandingOf, Grants!After, Standing
  <2> QED
    BY <2>1, <2>2
<1>7. StandingOf(Swept(t), SweptIndex(t)) = Grants!After(Lapsed(t))
  BY <1>6 DEF StandingOf, Grants!After
<1> QED
  BY <1>2, <1>3, <1>7

(* What stands, with v for the request f.                                  *)
Put(F, f, v) == [F EXCEPT ![f] = v]

(* An open record changes its status, or is finished and leaves the index. *)
LEMMA UpdateStands ==
    ASSUME NEW recs, NEW index, NEW n, TableOK(recs, index, n),
           NEW i \in DOMAIN recs, recs[i].status \notin TerminalStatus,
           NEW new, DOMAIN new = DOMAIN recs,
           \A j \in DOMAIN recs \ {i} : new[j] = recs[j]
    PROVE  /\ recs[i].fp \in Fingerprint
           /\ StandingOf(recs, index)[recs[i].fp] = recs[i].status
           /\ StandingOf(Prune(new), Without(index, recs[i].fp))
                = Put(StandingOf(recs, index), recs[i].fp, "none")
           /\ new[i].status \notin TerminalStatus =>
                StandingOf(Prune(new), index)
                  = Put(StandingOf(recs, index), recs[i].fp, new[i].status)
<1> DEFINE f == recs[i].fp
<1>1. f \in DOMAIN index /\ index[f] = i /\ f \in Fingerprint
  BY DEF TableOK
<1>2. \A g \in DOMAIN index : g # f =>
         /\ index[g] \in DOMAIN new
         /\ new[index[g]] = recs[index[g]]
         /\ new[index[g]].status \notin TerminalStatus
  BY <1>1 DEF TableOK
<1> HIDE DEF f
<1>3. StandingOf(recs, index)[f] = recs[i].status
  BY <1>1 DEF StandingOf
<1>4. /\ DOMAIN Without(index, f) = DOMAIN index \ {f}
      /\ \A g \in DOMAIN index : g # f => Without(index, f)[g] = index[g]
  BY DEF Without
<1>5. StandingOf(Prune(new), Without(index, f)) = Put(StandingOf(recs, index), f, "none")
  <2>1. StandingOf(Prune(new), Without(index, f)) = StandingOf(new, Without(index, f))
    BY <1>2, <1>4, PruneStands
  <2>2. StandingOf(new, Without(index, f)) = Put(StandingOf(recs, index), f, "none")
    BY <1>2, <1>4 DEF StandingOf, Put
  <2> QED
    BY <2>1, <2>2
<1>6. ASSUME new[i].status \notin TerminalStatus
      PROVE  StandingOf(Prune(new), index)
               = Put(StandingOf(recs, index), f, new[i].status)
  <2>1. \A g \in DOMAIN index : /\ index[g] \in DOMAIN new
                                /\ new[index[g]].status \notin TerminalStatus
    BY <1>1, <1>2, <1>6
  <2>2. StandingOf(Prune(new), index) = StandingOf(new, index)
    BY <2>1, PruneStands
  <2>3. StandingOf(new, index) = Put(StandingOf(recs, index), f, new[i].status)
    BY <1>1, <1>2 DEF StandingOf, Put
  <2> QED
    BY <2>2, <2>3
<1> QED
  BY <1>1, <1>3, <1>5, <1>6 DEF f

-----------------------------------------------------------------------------
(* What the gate's steps are for the abstraction.                          *)
LEMMA StandingIs ==
    /\ Standing = StandingOf(records, active)
    /\ Standing' = StandingOf(records', active')
  BY DEF Standing, StandingOf

(* A step that only sweeps.                                                *)
LEMMA SweepOnly ==
    ASSUME IInv, CInv, NEW t \in Nat,
           records' = Swept(t), active' = SweptIndex(t), counts' = Expire(t)
    PROVE  Grants!Next
<1>1. Standing' = Grants!After(Lapsed(t))
  BY SweepLapses, StandingIs
<1>2. counts.approved' = counts.approved /\ counts.consumed' = counts.consumed
  BY DEF CInv, Expire
<1>3. Grants!Lapse(Lapsed(t))
  BY <1>1, <1>2 DEF Grants!Lapse
<1> QED
  BY <1>3, SweepLapses DEF Grants!Next

LEMMA ConsumeUses ==
    ASSUME IInv, CInv, NEW p \in Proc, Consume(p)
    PROVE  Grants!Next
<1> DEFINE t == call[p].now
           f == call[p].fp
           recs == Swept(t)
           index == SweptIndex(t)
           i == index[f]
           new == [recs EXCEPT ![i].status = "consumed", ![i].consumed = t]
<1>1. t \in Nat
  BY CallTyped DEF IInv, Consume, Entered
<1>2. TableOK(recs, index, sequence) /\ StandingOf(recs, index) = Grants!After(Lapsed(t))
  BY <1>1, SweepKeepsTable, SweepLapses DEF IInv
<1>3. /\ f \in DOMAIN index
      /\ recs[i].status = "approved"
      /\ records' = Prune(new)
      /\ active' = Without(index, f)
      /\ counts' = [Expire(t) EXCEPT !.consumed = @ + 1]
  BY DEF Consume, Usable
<1> HIDE DEF recs, index, t, f
<1>4. i \in DOMAIN recs /\ recs[i].fp = f
  BY <1>2, <1>3 DEF TableOK
<1>5. DOMAIN new = DOMAIN recs /\ \A j \in DOMAIN recs \ {i} : new[j] = recs[j]
  OBVIOUS
<1> HIDE DEF new, i
<1>6. /\ f \in Fingerprint
      /\ StandingOf(recs, index)[f] = "approved"
      /\ StandingOf(Prune(new), Without(index, f)) = Put(StandingOf(recs, index), f, "none")
  <2>1. recs[i].status \notin TerminalStatus
    BY <1>3 DEF TerminalStatus
  <2>2. /\ recs[i].fp \in Fingerprint
        /\ StandingOf(recs, index)[recs[i].fp] = recs[i].status
        /\ StandingOf(Prune(new), Without(index, recs[i].fp))
             = Put(StandingOf(recs, index), recs[i].fp, "none")
    BY <1>2, <1>4, <1>5, <2>1, UpdateStands
  <2> QED
    BY <1>3, <1>4, <2>2
<1>7. /\ Grants!After(Lapsed(t))[f] = "approved"
      /\ Standing' = [Grants!After(Lapsed(t)) EXCEPT ![f] = "none"]
  BY <1>2, <1>3, <1>6, StandingIs DEF Put
<1>8. counts.approved' = counts.approved /\ counts.consumed' = counts.consumed + 1
  BY <1>3 DEF CInv, Expire
<1>9. Grants!Use(Lapsed(t), f)
  BY <1>7, <1>8 DEF Grants!Use
<1> QED
  BY <1>1, <1>6, <1>9, SweepLapses DEF Grants!Next

LEMMA RequestAsks ==
    ASSUME IInv, CInv, NEW p \in Proc, Request(p)
    PROVE  Grants!Next
<1> DEFINE t == call[p].now
           f == call[p].fp
           i == sequence + 1
           recs == Swept(t)
           index == SweptIndex(t)
           new == [fp |-> f, status |-> "pending", expires |-> t + TTL,
                   decided |-> Never, consumed |-> Never]
           table == With(recs, i, new)
           pointers == With(index, f, i)
<1>1. t \in Nat /\ f \in Fingerprint
  BY CallTyped DEF IInv, Request, Entered
<1>2. TableOK(recs, index, sequence) /\ StandingOf(recs, index) = Grants!After(Lapsed(t))
  BY <1>1, SweepKeepsTable, SweepLapses DEF IInv
<1>3. /\ f \notin DOMAIN index
      /\ records' = Prune(table) /\ active' = pointers /\ counts' = Expire(t)
  BY DEF Request
<1>4. sequence \in Nat /\ i \notin DOMAIN recs
  BY <1>2 DEF IInv, TableOK
<1>5. new.status = "pending"
  OBVIOUS
<1> HIDE DEF recs, index, t, f, new, i
<1>6. /\ DOMAIN table = DOMAIN recs \union {i}
      /\ table[i] = new
      /\ \A j \in DOMAIN recs : table[j] = recs[j]
  BY <1>4 DEF With
<1>7. /\ DOMAIN pointers = DOMAIN index \union {f}
      /\ pointers[f] = i
      /\ \A g \in DOMAIN index : pointers[g] = index[g]
  BY <1>3 DEF With
<1> HIDE DEF table, pointers
<1>8. \A g \in DOMAIN pointers : /\ pointers[g] \in DOMAIN table
                                 /\ table[pointers[g]].status \notin TerminalStatus
  BY <1>2, <1>5, <1>6, <1>7 DEF TableOK, TerminalStatus
<1>9. \A g \in DOMAIN index : table[pointers[g]] = recs[index[g]]
  BY <1>2, <1>6, <1>7 DEF TableOK
<1>10. StandingOf(table, pointers) = [StandingOf(recs, index) EXCEPT ![f] = "pending"]
  BY <1>1, <1>3, <1>5, <1>6, <1>7, <1>9 DEF StandingOf
<1>11. /\ Grants!After(Lapsed(t))[f] = "none"
       /\ Standing' = [Grants!After(Lapsed(t)) EXCEPT ![f] = "pending"]
  <2>1. StandingOf(recs, index)[f] = "none"
    BY <1>1, <1>3 DEF StandingOf
  <2> QED
    BY <1>2, <1>3, <1>8, <1>10, <2>1, PruneStands, StandingIs
<1>12. counts.approved' = counts.approved /\ counts.consumed' = counts.consumed
  BY <1>3 DEF CInv, Expire
<1>13. Grants!Ask(Lapsed(t), f)
  BY <1>11, <1>12 DEF Grants!Ask
<1> QED
  BY <1>1, <1>13, SweepLapses DEF Grants!Next

LEMMA DecideGrantsOrRefuses ==
    ASSUME IInv, CInv, NEW p \in Proc, NEW verdict \in {"approved", "denied"},
           Decide(p, verdict)
    PROVE  Grants!Next
<1> DEFINE t == call[p].now
           i == call[p].id
           recs == Swept(t)
           index == SweptIndex(t)
           f == recs[i].fp
           new == [recs EXCEPT ![i].status = verdict, ![i].decided = t]
<1>1. t \in Nat
  BY CallTyped DEF IInv, Decide, Entered
<1>2. TableOK(recs, index, sequence) /\ StandingOf(recs, index) = Grants!After(Lapsed(t))
  BY <1>1, SweepKeepsTable, SweepLapses DEF IInv
<1>3. /\ i \in DOMAIN recs
      /\ recs[i].status = "pending"
      /\ records' = Prune(new)
      /\ active' = index
      /\ counts' = [Expire(t) EXCEPT ![verdict] = @ + 1]
  BY DEF Decide
<1> HIDE DEF recs, index, t, i
<1>4. /\ DOMAIN new = DOMAIN recs
      /\ \A j \in DOMAIN recs \ {i} : new[j] = recs[j]
  OBVIOUS
<1>5. new[i].status = verdict
  <2>1. new[i] = Stamped(recs[i], verdict, t)
    BY <1>3 DEF Stamped
  <2>2. RecordOK(recs[i]) /\ verdict \in Status
    BY <1>2, <1>3 DEF TableOK, Status, OpenStatus
  <2> HIDE DEF new
  <2> QED
    BY <1>1, <2>1, <2>2, StampedRecord DEF RecordOK
<1> HIDE DEF new
<1>6. /\ f \in Fingerprint
      /\ StandingOf(recs, index)[f] = "pending"
      /\ StandingOf(Prune(new), index) = Put(StandingOf(recs, index), f, verdict)
  <2>1. recs[i].status \notin TerminalStatus /\ new[i].status \notin TerminalStatus
    BY <1>3, <1>5 DEF TerminalStatus
  <2>2. /\ recs[i].fp \in Fingerprint
        /\ StandingOf(recs, index)[recs[i].fp] = recs[i].status
        /\ StandingOf(Prune(new), index)
             = Put(StandingOf(recs, index), recs[i].fp, new[i].status)
    BY <1>2, <1>3, <1>4, <2>1, UpdateStands
  <2> QED
    BY <1>3, <1>5, <2>2
<1>7. /\ Grants!After(Lapsed(t))[f] = "pending"
      /\ Standing' = [Grants!After(Lapsed(t)) EXCEPT ![f] = verdict]
  BY <1>2, <1>3, <1>6, StandingIs DEF Put
<1> HIDE DEF f
<1>8. CASE verdict = "approved"
  <2>1. counts.approved' = counts.approved + 1 /\ counts.consumed' = counts.consumed
    BY <1>3, <1>8 DEF CInv, Expire
  <2>2. Grants!Grant(Lapsed(t), f)
    BY <1>7, <1>8, <2>1 DEF Grants!Grant
  <2> QED
    BY <1>1, <1>6, <2>2, SweepLapses DEF Grants!Next
<1>9. CASE verdict = "denied"
  <2>1. counts.approved' = counts.approved /\ counts.consumed' = counts.consumed
    BY <1>3, <1>9 DEF CInv, Expire
  <2>2. Grants!Refuse(Lapsed(t), f)
    BY <1>7, <1>9, <2>1 DEF Grants!Refuse
  <2> QED
    BY <1>1, <1>6, <2>2, SweepLapses DEF Grants!Next
<1> QED
  BY <1>8, <1>9

LEMMA CancelWithdraws ==
    ASSUME IInv, CInv, NEW p \in Proc, Cancel(p)
    PROVE  Grants!Next
<1> DEFINE t == call[p].now
           i == call[p].id
           recs == Swept(t)
           index == SweptIndex(t)
           f == recs[i].fp
           new == [recs EXCEPT ![i].status = "cancelled", ![i].decided = t]
<1>1. t \in Nat
  BY CallTyped DEF IInv, Cancel, Entered
<1>2. TableOK(recs, index, sequence) /\ StandingOf(recs, index) = Grants!After(Lapsed(t))
  BY <1>1, SweepKeepsTable, SweepLapses DEF IInv
<1>3. /\ i \in DOMAIN recs
      /\ recs[i].status \in OpenStatus
      /\ records' = Prune(new)
      /\ active' = Without(index, f)
      /\ counts' = Expire(t)
  BY DEF Cancel, Open
<1> HIDE DEF recs, index, t, i
<1>4. DOMAIN new = DOMAIN recs /\ \A j \in DOMAIN recs \ {i} : new[j] = recs[j]
  OBVIOUS
<1> HIDE DEF new
<1>5. /\ f \in Fingerprint
      /\ StandingOf(recs, index)[f] # "none"
      /\ StandingOf(Prune(new), Without(index, f)) = Put(StandingOf(recs, index), f, "none")
  BY <1>2, <1>3, <1>4, UpdateStands DEF OpenStatus, TerminalStatus
<1>6. /\ Grants!After(Lapsed(t))[f] # "none"
      /\ Standing' = [Grants!After(Lapsed(t)) EXCEPT ![f] = "none"]
  BY <1>2, <1>3, <1>5, StandingIs DEF Put
<1> HIDE DEF f
<1>7. counts.approved' = counts.approved /\ counts.consumed' = counts.consumed
  BY <1>3 DEF CInv, Expire
<1>8. Grants!Withdraw(Lapsed(t), f)
  BY <1>6, <1>7 DEF Grants!Withdraw
<1> QED
  BY <1>1, <1>5, <1>8, SweepLapses DEF Grants!Next

LEMMA CountsKept == CInv /\ [Next]_vars => CInv'
<1> SUFFICES ASSUME CInv, [Next]_vars PROVE CInv'
  OBVIOUS
<1>1. DOMAIN counts' = DOMAIN counts
  BY DEF Next, vars, gateVars, Locked, Tick, Start, Stop, BeginAuthorize, BeginDecision,
     RejectIdentity, RaiseStopped, Abandon, Expire, Consume, Replay, Request, RaiseFull,
     Decide, RaiseUndecidable, Cancel, RaiseUncancellable, ReadAndPublish, ReadSilently,
     Publish
<1> QED
  BY <1>1 DEF CInv

(* Every step of the gate is a step of the one-time grant or changes       *)
(* nothing of it.                                                          *)
LEMMA StepImplements ==
    IInv /\ CInv /\ [Next]_vars => [Grants!Next]_(Grants!vars)
<1> SUFFICES ASSUME IInv, CInv, [Next]_vars PROVE Grants!Next \/ UNCHANGED Grants!vars
  OBVIOUS
<1>1. ASSUME UNCHANGED <<records, active, counts>> PROVE UNCHANGED Grants!vars
  BY <1>1 DEF Grants!vars, Standing
<1>2. ASSUME NEW p \in Proc,
             \/ Start(p) \/ Stop(p) \/ RejectIdentity(p) \/ RaiseStopped(p) \/ Publish(p)
             \/ \E f \in Fingerprint : BeginAuthorize(p, f)
             \/ \E verdict \in {"approved", "denied", "cancelled"}, i \in Id :
                  BeginDecision(p, verdict, i)
      PROVE  UNCHANGED Grants!vars
  <2>1. UNCHANGED <<records, active, counts>>
    BY <1>2 DEF Start, Stop, RejectIdentity, RaiseStopped, Publish, BeginAuthorize,
       BeginDecision, gateVars
  <2> QED
    BY <2>1, <1>1
<1>3. ASSUME NEW t \in Nat, NEW p \in Proc, Abandon(p, t) PROVE Grants!Next
  BY <1>3, SweepOnly DEF Abandon, Expire
<1>4. ASSUME NEW p \in Proc,
             \/ RaiseFull(p) \/ RaiseUncancellable(p)
             \/ \E verdict \in {"approved", "denied"} : RaiseUndecidable(p, verdict)
      PROVE  Grants!Next
  <2>1. call[p].now \in Nat /\ Abandon(p, call[p].now)
    BY <1>4, CallTyped DEF IInv, RaiseFull, RaiseUncancellable, RaiseUndecidable, Entered
  <2> QED
    BY <2>1, <1>3
<1>5. ASSUME NEW p \in Proc, Replay(p) PROVE Grants!Next
  <2>1. call[p].now \in Nat
    BY <1>5, CallTyped DEF IInv, Replay, Entered
  <2> QED
    BY <1>5, <2>1, SweepOnly DEF Replay
<1>6. ASSUME NEW p \in Proc, ReadAndPublish(p) \/ ReadSilently(p) PROVE Grants!Next
  BY <1>3, <1>6, SweepOnly DEF IInv, ReadAndPublish, ReadSilently
<1>7. ASSUME NEW p \in Proc, Consume(p) \/ Request(p) \/ Cancel(p) PROVE Grants!Next
  BY <1>7, ConsumeUses, RequestAsks, CancelWithdraws
<1>8. ASSUME NEW p \in Proc, NEW verdict \in {"approved", "denied"}, Decide(p, verdict)
      PROVE  Grants!Next
  BY <1>8, DecideGrantsOrRefuses
<1>9. ASSUME Tick \/ UNCHANGED vars PROVE UNCHANGED Grants!vars
  BY <1>1, <1>9 DEF Tick, vars, gateVars
<1> QED
  BY <1>2, <1>4, <1>5, <1>6, <1>7, <1>8, <1>9 DEF Next, Locked

(* For any number of threads, requests and records: whatever the gate does *)
(* about a protected request is a step of the one-time grant, so a grant   *)
(* is used at most once, and a refusal stands until the owner withdraws it.*)
THEOREM AlwaysImplementsOneTimeGrant == Spec => ImplementsOneTimeGrant
<1>1. Spec => []IInv
  BY Invariance
<1>2. Init => CInv /\ Grants!Init
  <2> SUFFICES ASSUME Init PROVE CInv /\ Grants!Init
    OBVIOUS
  <2>1. /\ DOMAIN active = {}
        /\ counts = [approved |-> 0, denied |-> 0, consumed |-> 0, expired |-> 0]
    BY DEF Init
  <2>2. Standing = [f \in Fingerprint |-> "none"]
    BY <2>1 DEF Standing
  <2> QED
    BY <2>1, <2>2 DEF CInv, Grants!Init
<1>3. CInv /\ [Next]_vars => CInv'
  BY CountsKept
<1>4. IInv /\ CInv /\ [Next]_vars => [Grants!Next]_(Grants!vars)
  BY StepImplements
<1> QED
  BY <1>1, <1>2, <1>3, <1>4, PTL DEF Spec, ImplementsOneTimeGrant, Grants!Spec

-----------------------------------------------------------------------------
(* A step leaves finished records as they are, or drops them, and takes a  *)
(* refusal back only by a cancellation.                                    *)
Final ==
    \A i \in DOMAIN records :
        /\ records[i].status \in TerminalStatus =>
              i \notin DOMAIN records' \/ records'[i] = records[i]
        /\ records[i].status = "denied" /\ i \in DOMAIN records' =>
              records'[i].status \in {"denied", "cancelled"}

(* The step sweeps at t, then changes the record j, which was open, or adds *)
(* it; new is the table before pruning.                                    *)
Changes(t, j, new) ==
    /\ records' = Prune(new)
    /\ DOMAIN new = DOMAIN Swept(t) \union {j}
    /\ \A i \in DOMAIN Swept(t) : i # j => new[i] = Swept(t)[i]
    /\ j \in DOMAIN Swept(t) =>
          \/ Swept(t)[j].status \in {"pending", "approved"}
          \/ Swept(t)[j].status = "denied" /\ new[j].status = "cancelled"
    /\ j \notin DOMAIN Swept(t) => j = sequence + 1 /\ new[j].status = "pending"

(* What a step can do to the records: nothing, a sweep, or a sweep and one *)
(* change.                                                                 *)
LEMMA StepChanges ==
    ASSUME IInv, Next
    PROVE  \/ UNCHANGED records
           \/ \E t \in Nat : records' = Swept(t) \/ \E j, new : Changes(t, j, new)
<1> DEFINE Goal == \/ UNCHANGED records
                   \/ \E t \in Nat : records' = Swept(t) \/ \E j, new : Changes(t, j, new)
<1>1. ASSUME NEW p \in Proc, Consume(p) PROVE Goal
  <2> DEFINE t == call[p].now
             j == SweptIndex(t)[call[p].fp]
             new == [Swept(t) EXCEPT ![j].status = "consumed", ![j].consumed = t]
  <2>1. t \in Nat
    BY <1>1, CallTyped DEF IInv, Consume, Entered
  <2>2. /\ records' = Prune(new) /\ Swept(t)[j].status = "approved"
        /\ j \in DOMAIN Swept(t)
    BY <1>1, <2>1, SweepKeepsTable DEF Consume, Usable, IInv, TableOK
  <2>3. Changes(t, j, new)
    <3>1. DOMAIN new = DOMAIN Swept(t) \union {j}
      BY <2>2
    <3>2. \A i \in DOMAIN Swept(t) : i # j => new[i] = Swept(t)[i]
      OBVIOUS
    <3> HIDE DEF t, j, new
    <3> QED
      BY <2>2, <3>1, <3>2 DEF Changes
  <2> HIDE DEF t, j, new
  <2> QED
    BY <2>1, <2>3
<1>2. ASSUME NEW p \in Proc, Request(p) PROVE Goal
  <2> DEFINE t == call[p].now
             j == sequence + 1
             rec == [fp |-> call[p].fp, status |-> "pending", expires |-> t + TTL,
                     decided |-> Never, consumed |-> Never]
             new == With(Swept(t), j, rec)
  <2>1. t \in Nat
    BY <1>2, CallTyped DEF IInv, Request, Entered
  <2>2. records' = Prune(new)
    BY <1>2 DEF Request
  <2>3. j \notin DOMAIN Swept(t)
    BY <2>1, SweepKeepsTable DEF IInv, TableOK
  <2>4. Changes(t, j, new)
    <3>1. DOMAIN new = DOMAIN Swept(t) \union {j} /\ new[j].status = "pending"
      BY DEF With
    <3>2. \A i \in DOMAIN Swept(t) : i # j => new[i] = Swept(t)[i]
      BY DEF With
    <3>3. j = sequence + 1
      OBVIOUS
    <3> HIDE DEF t, j, new
    <3> QED
      BY <2>2, <2>3, <3>1, <3>2, <3>3 DEF Changes
  <2> HIDE DEF t, j, new
  <2> QED
    BY <2>1, <2>4
<1>3. ASSUME NEW p \in Proc, NEW verdict \in {"approved", "denied"}, Decide(p, verdict)
      PROVE  Goal
  <2> DEFINE t == call[p].now
             j == call[p].id
             new == [Swept(t) EXCEPT ![j].status = verdict, ![j].decided = t]
  <2>1. t \in Nat
    BY <1>3, CallTyped DEF IInv, Decide, Entered
  <2>2. /\ records' = Prune(new) /\ Swept(t)[j].status = "pending"
        /\ j \in DOMAIN Swept(t)
    BY <1>3 DEF Decide
  <2>3. Changes(t, j, new)
    <3>1. DOMAIN new = DOMAIN Swept(t) \union {j}
      BY <2>2
    <3>2. \A i \in DOMAIN Swept(t) : i # j => new[i] = Swept(t)[i]
      OBVIOUS
    <3> HIDE DEF t, j, new
    <3> QED
      BY <2>2, <3>1, <3>2 DEF Changes
  <2> HIDE DEF t, j, new
  <2> QED
    BY <2>1, <2>3
<1>4. ASSUME NEW p \in Proc, Cancel(p) PROVE Goal
  <2> DEFINE t == call[p].now
             j == call[p].id
             new == [Swept(t) EXCEPT ![j].status = "cancelled", ![j].decided = t]
  <2>1. t \in Nat
    BY <1>4, CallTyped DEF IInv, Cancel, Entered
  <2>2. /\ records' = Prune(new) /\ j \in DOMAIN Swept(t)
        /\ Swept(t)[j].status \in {"pending", "approved", "denied"}
    BY <1>4 DEF Cancel, Open, OpenStatus
  <2>3. new[j].status = "cancelled"
    <3>1. new[j] = Stamped(Swept(t)[j], "cancelled", t)
      BY <2>2 DEF Stamped
    <3>2. TableOK(Swept(t), SweptIndex(t), sequence)
      BY <2>1, SweepKeepsTable DEF IInv
    <3>3. Swept(t)[j] \in Record /\ "cancelled" \in Status
      BY <2>2, <3>2 DEF TableOK, RecordOK, Status, TerminalStatus
    <3> HIDE DEF new, t, j
    <3> QED
      BY <2>1, <3>1, <3>3, StampedRecord
  <2>4. Changes(t, j, new)
    <3>1. DOMAIN new = DOMAIN Swept(t) \union {j}
      BY <2>2
    <3>2. \A i \in DOMAIN Swept(t) : i # j => new[i] = Swept(t)[i]
      OBVIOUS
    <3> HIDE DEF t, j, new
    <3> QED
      BY <2>2, <2>3, <3>1, <3>2 DEF Changes
  <2> HIDE DEF t, j, new
  <2> QED
    BY <2>1, <2>4
<1>5. ASSUME NEW p \in Proc,
             \/ Replay(p) \/ RaiseFull(p) \/ RaiseUncancellable(p)
             \/ \E verdict \in {"approved", "denied"} : RaiseUndecidable(p, verdict)
      PROVE  Goal
  <2>1. call[p].now \in Nat
    BY <1>5, CallTyped
       DEF IInv, Replay, RaiseFull, RaiseUncancellable, RaiseUndecidable, Entered
  <2>2. records' = Swept(call[p].now)
    BY <1>5 DEF Replay, RaiseFull, RaiseUncancellable, RaiseUndecidable, Abandon
  <2> QED
    BY <2>1, <2>2
<1>6. ASSUME NEW p \in Proc, ReadAndPublish(p) \/ ReadSilently(p) PROVE Goal
  BY <1>6 DEF ReadAndPublish, ReadSilently, Abandon, IInv
<1>7. ASSUME NEW p \in Proc,
             \/ Start(p) \/ Stop(p) \/ RejectIdentity(p) \/ RaiseStopped(p) \/ Publish(p)
             \/ \E f \in Fingerprint : BeginAuthorize(p, f)
             \/ \E verdict \in {"approved", "denied", "cancelled"}, i \in Id :
                  BeginDecision(p, verdict, i)
      PROVE  Goal
  BY <1>7 DEF Start, Stop, RejectIdentity, RaiseStopped, Publish, BeginAuthorize,
     BeginDecision, gateVars
<1>8. ASSUME Tick PROVE Goal
  BY <1>8 DEF Tick, gateVars
<1> HIDE DEF Goal
<1>9. Goal
  BY <1>1, <1>2, <1>3, <1>4, <1>5, <1>6, <1>7, <1>8 DEF Next, Locked
<1> QED
  BY <1>9 DEF Goal

LEMMA StepIsFinal ==
    ASSUME IInv, Next
    PROVE  Final
<1>1. CASE UNCHANGED records
  BY <1>1 DEF Final
<1>2. ASSUME NEW t \in Nat, records' = Swept(t) PROVE Final
  BY <1>2, SweepKeepsTable DEF IInv, Final
<1>3. ASSUME NEW t \in Nat, NEW j, NEW new, Changes(t, j, new) PROVE Final
  <2> SUFFICES ASSUME NEW i \in DOMAIN records, i \in DOMAIN records',
                      records[i].status \in TerminalStatus \union {"denied"}
               PROVE  /\ records[i].status \in TerminalStatus => records'[i] = records[i]
                      /\ records[i].status = "denied" =>
                            records'[i].status \in {"denied", "cancelled"}
    BY DEF Final
  <2>1. i \in DOMAIN new /\ records'[i] = new[i]
    BY <1>3 DEF Prune, Changes
  <2>2. i # sequence + 1
    BY DEF IInv, TableOK
  <2>3. i \in DOMAIN Swept(t) /\ Swept(t)[i] = records[i]
    BY <1>3, <2>1, <2>2, SweepKeepsTable DEF IInv, Changes
  <2> QED
    BY <1>3, <2>1, <2>3 DEF TerminalStatus, Changes
<1> QED
  BY <1>1, <1>2, <1>3, StepChanges

(* For any number of threads and records, a finished record never changes  *)
(* and a refusal ends only by a cancellation (approval.py:666, 559).       *)
THEOREM AlwaysTerminalFinal == Spec => TerminalFinal
<1>1. Spec => []IInv
  BY Invariance
<1>2. IInv /\ [Next]_vars => Final \/ UNCHANGED vars
  BY StepIsFinal
<1>3. (Final \/ UNCHANGED vars) =>
        [\A i \in DOMAIN records :
            /\ records[i].status \in TerminalStatus =>
                  i \notin DOMAIN records' \/ records'[i] = records[i]
            /\ records[i].status = "denied" /\ i \in DOMAIN records' =>
                  records'[i].status \in {"denied", "cancelled"}]_vars
  BY DEF Final
<1> QED
  BY <1>1, <1>2, <1>3, PTL DEF Spec, TerminalFinal

-----------------------------------------------------------------------------
(* A set of numbers that is not empty has a least member.                  *)
LEMMA Least ==
    ASSUME NEW T \in SUBSET Nat, T # {}
    PROVE  \E x \in T : \A y \in T : x <= y
<1> DEFINE R == {ss \in Nat \X Nat : ss[1] < ss[2]}
<1>1. IsWellFoundedOn(R, Nat)
  BY NatLessThanWellFounded DEF OpToRel
<1> HIDE DEF R
<1>2. PICK x \in T : \A y \in T : ~ (<<y, x>> \in R)
  BY <1>1, WFMin
<1>3. \A y \in T : ~ (y < x)
  BY <1>2 DEF R
<1> QED
  BY <1>3

(* A bounded set of numbers that is not empty has a greatest member.       *)
LEMMA Greatest ==
    ASSUME NEW n \in Nat, NEW T \in SUBSET (1..n), T # {}
    PROVE  \E x \in T : \A y \in T : y <= x
<1> DEFINE U == {n - x : x \in T}
<1>1. U \in SUBSET Nat /\ U # {}
  <2>1. \A x \in T : n - x \in Nat
    OBVIOUS
  <2> QED
    BY <2>1
<1>2. PICK u \in U : \A v \in U : u <= v
  BY <1>1, Least
<1>3. PICK x \in T : u = n - x
  OBVIOUS
<1>4. \A y \in T : n - x <= n - y
  BY <1>2, <1>3
<1> QED
  BY <1>4

(* The finished records of a table that are newer than i.                  *)
Newer(recs, i) == {j \in Terminal(recs) : j > i}

LEMMA NewerFinite ==
    ASSUME NEW n \in Nat, NEW recs, DOMAIN recs \subseteq 1..n, NEW i \in Int
    PROVE  /\ IsFiniteSet(Newer(recs, i))
           /\ Cardinality(Newer(recs, i)) \in Nat
           /\ \A S : S \subseteq Newer(recs, i) =>
                /\ IsFiniteSet(S)
                /\ Cardinality(S) <= Cardinality(Newer(recs, i))
<1>1. Newer(recs, i) \subseteq 1..n
  BY DEF Newer, Terminal
<1>2. IsFiniteSet(1..n)
  BY FS_Interval
<1>3. IsFiniteSet(Newer(recs, i))
  BY <1>1, <1>2, FS_Subset
<1> QED
  BY <1>3, FS_Subset, FS_CardinalityType

(* _prune_locked drops the oldest finished records: what it keeps is newer *)
(* than what it drops, and HistoryLimit finished records newer than a      *)
(* dropped one survive the drop (approval.py:752).                         *)
LEMMA PruneOldest ==
    ASSUME NEW n \in Nat, NEW recs, DOMAIN recs \subseteq 1..n,
           NEW gone \in DOMAIN recs \ DOMAIN Prune(recs)
    PROVE  /\ \A kept \in DOMAIN Prune(recs) :
                 recs[kept].status \in TerminalStatus => gone < kept
           /\ HistoryLimit <= Cardinality(Newer(Prune(recs), gone))
<1>1. Excess(recs) = {i \in Terminal(recs) : Cardinality(Newer(recs, i)) >= HistoryLimit}
  BY DEF Excess, Newer
<1>2. /\ DOMAIN Prune(recs) = DOMAIN recs \ Excess(recs)
      /\ \A i \in DOMAIN Prune(recs) : Prune(recs)[i] = recs[i]
  BY DEF Prune
<1>3. gone \in Excess(recs) /\ gone \in 1..n
  BY <1>2
<1>4. Excess(recs) \subseteq 1..n /\ HistoryLimit \in Nat
  BY <1>1, GateAssumption DEF Terminal
<1>5. ASSUME NEW kept \in DOMAIN Prune(recs), recs[kept].status \in TerminalStatus
      PROVE  gone < kept
  <2>1. kept \in Terminal(recs) /\ kept \in 1..n /\ kept # gone
    BY <1>2, <1>3, <1>5 DEF Terminal
  <2>2. ~ (Cardinality(Newer(recs, kept)) >= HistoryLimit)
    BY <1>1, <1>2, <1>5, <2>1
  <2>3. CASE kept < gone
    <3>1. Newer(recs, gone) \subseteq Newer(recs, kept)
      BY <2>1, <2>3, <1>3 DEF Newer, Terminal
    <3>2. Cardinality(Newer(recs, gone)) <= Cardinality(Newer(recs, kept))
      BY <2>1, <3>1, NewerFinite
    <3>3. Cardinality(Newer(recs, gone)) >= HistoryLimit
      BY <1>1, <1>3
    <3> QED
      BY <1>3, <1>4, <2>1, <2>2, <3>2, <3>3, NewerFinite
  <2> QED
    BY <1>3, <2>1, <2>3
<1>6. PICK last \in Excess(recs) : \A i \in Excess(recs) : i <= last
  BY <1>3, <1>4, Greatest
<1>7. Newer(recs, last) \subseteq Newer(Prune(recs), gone)
  <2> SUFFICES ASSUME NEW j \in Terminal(recs), j > last
               PROVE  j \in Newer(Prune(recs), gone)
    BY DEF Newer
  <2>1. j \in 1..n /\ last \in 1..n /\ gone <= last
    BY <1>3, <1>4, <1>6 DEF Terminal
  <2>2. j \notin Excess(recs)
    BY <1>4, <1>6, <2>1
  <2>3. j \in Terminal(Prune(recs))
    BY <1>2, <2>2 DEF Terminal
  <2> QED
    BY <1>3, <2>1, <2>3 DEF Newer
<1>8. DOMAIN Prune(recs) \subseteq 1..n /\ last \in 1..n
  BY <1>2, <1>4
<1>9. Cardinality(Newer(recs, last)) <= Cardinality(Newer(Prune(recs), gone))
  BY <1>3, <1>7, <1>8, NewerFinite
<1>10. Cardinality(Newer(recs, last)) >= HistoryLimit
  BY <1>1
<1> QED
  BY <1>3, <1>4, <1>5, <1>8, <1>9, <1>10, NewerFinite

(* A pruned table holds HistoryLimit finished records at most, and exactly *)
(* as many if there were enough before.                                    *)
LEMMA PruneExact ==
    ASSUME NEW n \in Nat, NEW recs, DOMAIN recs \subseteq 1..n,
           NEW m \in Int, HistoryLimit <= Cardinality(Newer(recs, m))
    PROVE  Cardinality(Terminal(Prune(recs))) = HistoryLimit
<1> DEFINE T == Terminal(Prune(recs))
<1>1. Excess(recs) = {i \in Terminal(recs) : Cardinality(Newer(recs, i)) >= HistoryLimit}
  BY DEF Excess, Newer
<1>2. /\ DOMAIN Prune(recs) = DOMAIN recs \ Excess(recs)
      /\ \A i \in DOMAIN Prune(recs) : Prune(recs)[i] = recs[i]
  BY DEF Prune
<1>3. T \subseteq 1..n /\ T = Terminal(recs) \ Excess(recs) /\ Terminal(recs) \subseteq 1..n
  BY <1>2 DEF Terminal
<1>4. HistoryLimit \in Nat \ {0}
  BY GateAssumption
<1> HIDE DEF T
<1>5. IsFiniteSet(T) /\ Cardinality(T) \in Nat
  <2>1. IsFiniteSet(1..n)
    BY FS_Interval
  <2>2. IsFiniteSet(T)
    BY <1>3, <2>1, FS_Subset
  <2> QED
    BY <2>2, FS_CardinalityType
<1>6. Cardinality(T) <= HistoryLimit
  <2>1. CASE T = {}
    BY <2>1, <1>4, FS_EmptySet
  <2>2. CASE T # {}
    <3>1. T \in SUBSET Nat
      BY <1>3
    <3>2. PICK x \in T : \A y \in T : x <= y
      BY <2>2, <3>1, Least
    <3>3. x \in Terminal(recs) /\ x \in Int /\ x \notin Excess(recs)
      BY <1>3
    <3>4. /\ Cardinality(T \ {x}) = Cardinality(T) - 1
          /\ Cardinality(T \ {x}) \in Nat
      <4>1. IsFiniteSet(T \ {x}) /\ Cardinality(T \ {x}) = Cardinality(T) - 1
        BY <1>5, <3>2, FS_RemoveElement
      <4> QED
        BY <4>1, FS_CardinalityType
    <3>5. T \ {x} \subseteq Newer(recs, x)
      <4> SUFFICES ASSUME NEW y \in T, y # x PROVE y \in Newer(recs, x)
        OBVIOUS
      <4>1. x <= y /\ y \in Int /\ y \in Terminal(recs)
        BY <1>3, <3>2
      <4> QED
        BY <4>1, <3>3 DEF Newer
    <3>6. /\ Cardinality(T \ {x}) <= Cardinality(Newer(recs, x))
          /\ Cardinality(Newer(recs, x)) \in Nat
      BY <3>3, <3>5, NewerFinite
    <3>7. ~ (Cardinality(Newer(recs, x)) >= HistoryLimit)
      BY <1>1, <3>3
    <3> QED
      BY <1>4, <1>5, <3>4, <3>6, <3>7
  <2> QED
    BY <2>1, <2>2
<1>7. HistoryLimit <= Cardinality(T)
  <2>1. CASE Excess(recs) = {}
    <3>1. Newer(recs, m) \subseteq T
      BY <1>3, <2>1 DEF Newer
    <3>2. Cardinality(Newer(recs, m)) <= Cardinality(T) /\ Cardinality(Newer(recs, m)) \in Nat
      BY <3>1, <1>5, FS_Subset, NewerFinite
    <3> QED
      BY <3>2, <1>4, <1>5
  <2>2. CASE Excess(recs) # {}
    <3>1. PICK gone : gone \in Excess(recs)
      BY <2>2
    <3>2. gone \in DOMAIN recs \ DOMAIN Prune(recs) /\ gone \in Int
      BY <1>1, <1>2, <1>3, <3>1 DEF Terminal
    <3>3. HistoryLimit <= Cardinality(Newer(Prune(recs), gone))
      BY <3>2, PruneOldest
    <3>4. Newer(Prune(recs), gone) \subseteq T
      BY DEF Newer, T
    <3>5. /\ Cardinality(Newer(Prune(recs), gone)) <= Cardinality(T)
          /\ Cardinality(Newer(Prune(recs), gone)) \in Nat
      BY <3>4, <1>5, FS_Subset, FS_CardinalityType
    <3> QED
      BY <3>3, <3>5, <1>4, <1>5
  <2> QED
    BY <2>1, <2>2
<1> QED
  BY <1>4, <1>5, <1>6, <1>7 DEF T

(* A step drops no record that is newer than a finished one it leaves, and *)
(* no more than it must.                                                   *)
OldestFirst ==
    \A gone \in DOMAIN records \ DOMAIN records' :
        /\ \A kept \in DOMAIN records' :
              records'[kept].status \in TerminalStatus => gone < kept
        /\ Cardinality(Terminal(records')) = HistoryLimit

(* What is dropped had enough newer finished records above it.             *)
LEMMA DroppedExact ==
    ASSUME NEW n \in Nat, NEW recs, DOMAIN recs \subseteq 1..n,
           NEW gone \in DOMAIN recs \ DOMAIN Prune(recs)
    PROVE  Cardinality(Terminal(Prune(recs))) = HistoryLimit
<1>1. gone \in Excess(recs) /\ gone \in Int
  BY DEF Prune
<1>2. HistoryLimit <= Cardinality(Newer(recs, gone))
  <2>1. Cardinality(Newer(recs, gone)) >= HistoryLimit
    BY <1>1 DEF Excess, Newer
  <2>2. Cardinality(Newer(recs, gone)) \in Nat
    BY <1>1, NewerFinite
  <2> QED
    BY <2>1, <2>2, GateAssumption
<1> QED
  BY <1>1, <1>2, PruneExact

(* A sweep is one pruning of a table with the same identifiers.            *)
LEMMA SweepDropsOldest ==
    ASSUME IInv, NEW t \in Nat, NEW gone \in DOMAIN records \ DOMAIN Swept(t)
    PROVE  /\ \A kept \in DOMAIN Swept(t) :
                 Swept(t)[kept].status \in TerminalStatus => gone < kept
           /\ HistoryLimit <= Cardinality(Newer(Swept(t), gone))
           /\ Cardinality(Terminal(Swept(t))) = HistoryLimit
<1> DEFINE R == [i \in DOMAIN records |->
                    IF i \in Expirable(t)
                    THEN [records[i] EXCEPT !.status = "expired", !.decided = t]
                    ELSE records[i]]
<1>1. Swept(t) = Prune(R) /\ DOMAIN R = DOMAIN records
  BY DEF Swept
<1>2. sequence \in Nat /\ DOMAIN records \subseteq 1..sequence
  BY DEF IInv, TableOK
<1> HIDE DEF R
<1>3. \A kept \in DOMAIN Prune(R) : Prune(R)[kept] = R[kept]
  BY DEF Prune
<1>4. gone \in DOMAIN R \ DOMAIN Prune(R) /\ DOMAIN R \subseteq 1..sequence
  BY <1>1, <1>2
<1>5. Cardinality(Terminal(Prune(R))) = HistoryLimit
  BY <1>2, <1>4, DroppedExact
<1> QED
  BY <1>1, <1>2, <1>3, <1>5, PruneOldest

(* The step that changes one record prunes twice: what the first pruning   *)
(* drops leaves HistoryLimit newer finished records behind, so the record  *)
(* that finishes next stays only if it is newer still.                     *)
LEMMA ChangeDropsOldest ==
    ASSUME IInv, NEW t \in Nat, NEW j, NEW new, Changes(t, j, new)
    PROVE  OldestFirst
<1> DEFINE n == sequence + 1
           recs == Swept(t)
<1>1. sequence \in Nat /\ n \in Nat /\ DOMAIN records \subseteq 1..sequence
  BY DEF IInv, TableOK
<1>2. DOMAIN recs \subseteq DOMAIN records
  BY SweepKeepsTable DEF IInv
<1>3. DOMAIN new \subseteq 1..n
  BY <1>1, <1>2 DEF Changes
<1>7. ASSUME NEW gone \in DOMAIN records \ DOMAIN records'
      PROVE  Cardinality(Terminal(records')) = HistoryLimit
  <2>1. records' = Prune(new) /\ gone \notin DOMAIN Prune(new)
    BY <1>7 DEF Changes
  <2>2. CASE gone \in DOMAIN new
    BY <1>1, <1>3, <2>1, <2>2, DroppedExact
  <2>3. CASE gone \notin DOMAIN new
    <3>1. gone \in DOMAIN records \ DOMAIN recs /\ gone \in Int
      BY <1>1, <1>7, <2>3 DEF Changes
    <3>2. /\ HistoryLimit <= Cardinality(Newer(recs, gone)) /\ HistoryLimit \in Nat
      BY <3>1, SweepDropsOldest, GateAssumption
    <3>3. Newer(recs, gone) \subseteq Newer(new, gone)
      <4>1. j \in DOMAIN recs => recs[j].status \notin TerminalStatus
        BY DEF Changes, TerminalStatus
      <4> QED
        BY <4>1 DEF Changes, Newer, Terminal
    <3>4. DOMAIN recs \subseteq 1..n
      BY <1>1, <1>2
    <3> HIDE DEF recs, n
    <3>5. /\ Cardinality(Newer(recs, gone)) \in Nat /\ Cardinality(Newer(new, gone)) \in Nat
          /\ Cardinality(Newer(recs, gone)) <= Cardinality(Newer(new, gone))
      BY <1>1, <1>3, <3>1, <3>3, <3>4, NewerFinite
    <3>6. HistoryLimit <= Cardinality(Newer(new, gone))
      BY <3>2, <3>5
    <3> QED
      BY <1>1, <1>3, <2>1, <3>1, <3>6, PruneExact
  <2> QED
    BY <2>2, <2>3
<1> SUFFICES ASSUME NEW gone \in DOMAIN records \ DOMAIN records',
                    NEW kept \in DOMAIN records',
                    records'[kept].status \in TerminalStatus
             PROVE  gone < kept
  BY <1>7 DEF OldestFirst
<1>4. /\ records' = Prune(new)
      /\ kept \in DOMAIN new \ Excess(new)
      /\ new[kept].status \in TerminalStatus
  BY DEF Changes, Prune
<1>5. CASE gone \in DOMAIN new
  BY <1>1, <1>3, <1>4, <1>5, PruneOldest
<1>6. CASE gone \notin DOMAIN new
  <2>1. gone \in DOMAIN records \ DOMAIN recs
    BY <1>6 DEF Changes
  <2>2. CASE kept # j
    <3>1. kept \in DOMAIN recs /\ recs[kept].status \in TerminalStatus
      BY <1>4, <2>2 DEF Changes
    <3> QED
      BY <2>1, <3>1, SweepDropsOldest
  <2>3. CASE kept = j
    <3>1. j \in DOMAIN recs /\ recs[j].status \notin TerminalStatus
      BY <1>4, <2>3 DEF Changes, TerminalStatus
    <3>2. Newer(recs, gone) \subseteq Terminal(new)
      BY <3>1 DEF Changes, Newer, Terminal
    <3>3. /\ HistoryLimit <= Cardinality(Newer(recs, gone))
          /\ HistoryLimit \in Nat
      BY <2>1, SweepDropsOldest, GateAssumption
    <3>4. gone \in 1..n /\ kept \in 1..n /\ gone # kept
      BY <1>1, <1>3, <1>4, <2>1, <1>6
    <3>5. CASE kept < gone
      <4>1. Newer(recs, gone) \subseteq Newer(new, kept)
        BY <3>2, <3>4, <3>5, <1>3 DEF Newer, Terminal
      <4>2. DOMAIN recs \subseteq 1..n /\ gone \in Int /\ kept \in Int
        BY <1>1, <1>2, <3>4
      <4> HIDE DEF recs, n
      <4>3. /\ Cardinality(Newer(new, kept)) \in Nat
            /\ Cardinality(Newer(recs, gone)) <= Cardinality(Newer(new, kept))
        BY <4>1, <4>2, <1>1, <1>3, NewerFinite
      <4>4. Cardinality(Newer(recs, gone)) \in Nat
        BY <4>2, <1>1, NewerFinite
      <4>5. kept \in Excess(new)
        BY <4>3, <4>4, <3>3, <1>4 DEF Excess, Newer, Terminal
      <4> QED
        BY <4>5, <1>4
    <3> QED
      BY <3>4, <3>5
  <2> QED
    BY <2>2, <2>3
<1> QED
  BY <1>5, <1>6

(* For any history limit and any number of threads, what pruning drops is  *)
(* older than every finished record that stays, and a step that drops      *)
(* anything leaves exactly HistoryLimit finished records (approval.py:752),*)
(* although a call prunes once for its sweep and once for its own change.  *)
THEOREM OldestAlwaysPrunedFirst == Spec => OldestPrunedFirst
<1>1. Spec => []IInv
  BY Invariance
<1>2. ASSUME IInv, Next PROVE OldestFirst
  <2>1. CASE UNCHANGED records
    BY <2>1 DEF OldestFirst
  <2>2. ASSUME NEW t \in Nat, records' = Swept(t) PROVE OldestFirst
    BY <1>2, <2>2, SweepDropsOldest DEF OldestFirst
  <2> QED
    BY <1>2, <2>1, <2>2, StepChanges, ChangeDropsOldest
<1>3. IInv /\ [Next]_vars => OldestFirst \/ UNCHANGED vars
  BY <1>2
<1>4. (OldestFirst \/ UNCHANGED vars) =>
        [\A gone \in DOMAIN records \ DOMAIN records' :
            /\ \A kept \in DOMAIN records' :
                  records'[kept].status \in TerminalStatus => gone < kept
            /\ Cardinality(Terminal(records')) = HistoryLimit]_vars
  BY DEF OldestFirst
<1> QED
  BY <1>1, <1>3, <1>4, PTL DEF Spec, OldestPrunedFirst

-----------------------------------------------------------------------------
(* The k-th member of a finite set of numbers exists: the rank, the number *)
(* of smaller members, tells the members apart, so it takes every value.   *)
LEMMA AscendingLists ==
    ASSUME NEW S, IsFiniteSet(S), S \subseteq Int
    PROVE  /\ Cardinality(S) \in Nat
           /\ Ascending(S) \in [1..Cardinality(S) -> S]
           /\ Ascending(S) \in Seq(S)
<1> DEFINE n == Cardinality(S)
           Below(i) == {j \in S : j < i}
           rank == [i \in S |-> Cardinality(Below(i))]
<1>1. n \in Nat
  BY FS_CardinalityType
<1>2. \A i \in S : /\ IsFiniteSet(Below(i))
                   /\ Cardinality(Below(i)) \in 0..(n - 1)
  <2> SUFFICES ASSUME NEW i \in S
               PROVE  IsFiniteSet(Below(i)) /\ Cardinality(Below(i)) \in 0..(n - 1)
    OBVIOUS
  <2>1. Below(i) \subseteq S \ {i}
    OBVIOUS
  <2>2. IsFiniteSet(S \ {i}) /\ Cardinality(S \ {i}) = n - 1
    BY FS_RemoveElement
  <2> HIDE DEF Below, n
  <2>3. IsFiniteSet(Below(i)) /\ Cardinality(Below(i)) <= n - 1
    BY <2>1, <2>2, FS_Subset
  <2> QED
    BY <2>3, <1>1, FS_CardinalityType
<1>3. \A i, k \in S : i < k => Cardinality(Below(i)) < Cardinality(Below(k))
  <2> SUFFICES ASSUME NEW i \in S, NEW k \in S, i < k
               PROVE  Cardinality(Below(i)) < Cardinality(Below(k))
    OBVIOUS
  <2>1. Below(i) \union {i} \subseteq Below(k) /\ i \notin Below(i)
    <3>1. \A j \in Below(i) : j \in Int /\ j \in S /\ j < k
      OBVIOUS
    <3>2. i \in Int /\ ~ (i < i)
      OBVIOUS
    <3> QED
      BY <3>1, <3>2
  <2> HIDE DEF Below, n
  <2>2. Cardinality(Below(i) \union {i}) = Cardinality(Below(i)) + 1
    BY <1>2, <2>1, FS_AddElement
  <2>3. Cardinality(Below(i) \union {i}) <= Cardinality(Below(k))
    BY <1>2, <2>1, FS_Subset
  <2>4. Cardinality(Below(i)) \in Nat /\ Cardinality(Below(k)) \in Nat
    BY <1>1, <1>2
  <2> QED
    BY <2>2, <2>3, <2>4
<1> HIDE DEF Below, n
<1>4. rank \in [S -> 0..(n - 1)]
  BY <1>2
<1>5. \A i, k \in S : rank[i] = rank[k] => i = k
  <2> SUFFICES ASSUME NEW i \in S, NEW k \in S, i # k, rank[i] = rank[k] PROVE FALSE
    OBVIOUS
  <2>1. rank[i] = Cardinality(Below(i)) /\ rank[k] = Cardinality(Below(k))
    OBVIOUS
  <2>2. i < k \/ k < i
    OBVIOUS
  <2>3. /\ Cardinality(Below(i)) \in 0..(n - 1)
        /\ Cardinality(Below(k)) \in 0..(n - 1)
    BY <1>2
  <2> QED
    BY <2>1, <2>2, <2>3, <1>3, <1>1
<1> HIDE DEF rank
<1>6. rank \in Injection(S, 0..(n - 1))
  BY <1>4, <1>5 DEF Injection, IsInjective
<1>7. IsFiniteSet(0..(n - 1)) /\ Cardinality(0..(n - 1)) = n
  BY <1>1, FS_Interval
<1>8. rank \in Surjection(S, 0..(n - 1))
  BY <1>6, <1>7, FS_Injection DEF n
<1>9. \A k \in 1..n : \E i \in S : Cardinality(Below(i)) = k - 1
  <2> SUFFICES ASSUME NEW k \in 1..n PROVE \E i \in S : Cardinality(Below(i)) = k - 1
    OBVIOUS
  <2>1. k - 1 \in 0..(n - 1)
    BY <1>1
  <2>2. PICK i \in S : rank[i] = k - 1
    BY <1>8, <2>1 DEF Surjection
  <2> QED
    BY <2>2 DEF rank
<1>10. Ascending(S) = [k \in 1..n |-> CHOOSE i \in S : Cardinality(Below(i)) = k - 1]
  BY DEF Ascending, Below, n
<1>11. \A k \in 1..n : (CHOOSE i \in S : Cardinality(Below(i)) = k - 1) \in S
  BY <1>9
<1>12. Ascending(S) \in [1..n -> S]
  BY <1>10, <1>11
<1> QED
  BY <1>1, <1>12 DEF n

-----------------------------------------------------------------------------
(* The threads that are about to ask. *)
Asking == {q \in Proc : call[q].op = "authorize"}

(* The types the table does not settle; the identifiers still to be given  *)
(* out cover the requests in flight.                                       *)
Rest ==
    /\ state \in {"running", "stopped"}
    /\ clock \in 0..MaxTime
    /\ sequence \in 0..MaxRequests
    /\ sequence + Cardinality(Asking) <= MaxRequests
    /\ counts \in [{"approved", "denied", "consumed", "expired"} -> Nat]
    /\ history \in Seq(Event) /\ Len(history) <= HistoryLimit
    /\ lastError \in {"none", "capacity", "identity"}
    /\ outbox \in [Proc -> Seq(Event)]
    /\ published \subseteq Event

LEMMA RestTypes == IInv /\ Rest => TypeOK
  BY DEF IInv, Rest, TypeOK, TableOK, RecordOK

LEMMA AskingFinite ==
    /\ IsFiniteSet(Asking)
    /\ Cardinality(Asking) \in Nat
  BY GateAssumption, FS_Subset, FS_CardinalityType DEF Asking

(* A call that ends asks no more. *)
LEMMA CallEnds ==
    ASSUME call \in [Proc -> Call], NEW p \in Proc,
           call' = [call EXCEPT ![p] = NoCall]
    PROVE  /\ Cardinality(Asking') \in Nat
           /\ Cardinality(Asking') <= Cardinality(Asking)
           /\ call[p].op = "authorize" => Cardinality(Asking') = Cardinality(Asking) - 1
<1>1. call'[p] = NoCall /\ \A q \in Proc \ {p} : call'[q] = call[q]
  OBVIOUS
<1>2. NoCall.op # "authorize"
  BY DEF NoCall
<1>3. Asking' = Asking \ {p}
  BY <1>1, <1>2 DEF Asking
<1>4. call[p].op = "authorize" <=> p \in Asking
  BY DEF Asking
<1>5. /\ IsFiniteSet(Asking \ {p})
      /\ Cardinality(Asking \ {p}) = IF p \in Asking THEN Cardinality(Asking) - 1
                                                  ELSE Cardinality(Asking)
  BY AskingFinite, FS_RemoveElement
<1>6. Cardinality(Asking \ {p}) \in Nat
  BY <1>5, FS_CardinalityType
<1>7. Cardinality(Asking') = Cardinality(Asking \ {p})
  BY <1>3
<1> QED
  BY <1>4, <1>5, <1>6, <1>7, AskingFinite

(* What a sweep adds to the history, the outbox and the counters is typed. *)
LEMMA SweepTyped ==
    ASSUME IInv, Rest, NEW t \in Nat
    PROVE  /\ Cardinality(Expirable(t)) \in Nat
           /\ ExpiredEvents(t) \in Seq(Event)
           /\ Expire(t) \in [{"approved", "denied", "consumed", "expired"} -> Nat]
<1> DEFINE E == Expirable(t)
           n == Cardinality(E)
<1>1. E \subseteq 1..sequence /\ E \subseteq Id
  <2>1. E \subseteq DOMAIN records
    BY DEF Expirable
  <2>2. sequence \in Nat /\ MaxRequests \in Nat /\ sequence <= MaxRequests
    BY GateAssumption DEF Rest
  <2> HIDE DEF E
  <2> QED
    BY <2>1, <2>2 DEF IInv, TableOK, Id
<1>2. IsFiniteSet(E) /\ n \in Nat
  <2>1. IsFiniteSet(1..sequence)
    BY FS_Interval DEF IInv
  <2> HIDE DEF E
  <2> QED
    BY <1>1, <2>1, FS_Subset, FS_CardinalityType
<1>3. Ascending(E) \in [1..n -> E]
  BY <1>1, <1>2, AscendingLists DEF IInv
<1>4. ExpiredEvents(t) = [k \in 1..n |-> [id |-> Ascending(E)[k], status |-> "expired"]]
  BY <1>3 DEF ExpiredEvents
<1>5. \A k \in 1..n : [id |-> Ascending(E)[k], status |-> "expired"] \in Event
  BY <1>1, <1>3 DEF Event, Status, TerminalStatus
<1> HIDE DEF n, E
<1>6. ExpiredEvents(t) \in [1..n -> Event]
  BY <1>4, <1>5
<1>7. ExpiredEvents(t) \in Seq(Event)
  BY <1>2, <1>6
<1>8. Expire(t) \in [{"approved", "denied", "consumed", "expired"} -> Nat]
  BY <1>2 DEF Expire, Rest, n, E
<1> QED
  BY <1>2, <1>7, <1>8 DEF n, E

(* The deque keeps the last HistoryLimit snapshots (approval.py:186). *)
LEMMA RememberTyped ==
    ASSUME Rest, NEW events \in Seq(Event)
    PROVE  Remember(events) \in Seq(Event) /\ Len(Remember(events)) <= HistoryLimit
<1> DEFINE all == history \o events
           dropped == IF Len(all) > HistoryLimit THEN Len(all) - HistoryLimit ELSE 0
<1>1. all \in Seq(Event) /\ Len(all) \in Nat
  BY DEF Rest
<1>2. HistoryLimit \in Nat
  BY GateAssumption
<1>3. dropped \in Nat /\ dropped <= Len(all) /\ Len(all) - dropped <= HistoryLimit
  BY <1>1, <1>2
<1>4. Remember(events) = SubSeq(all, dropped + 1, Len(all))
  BY DEF Remember
<1> HIDE DEF all, dropped
<1> DEFINE m == dropped + 1
           l == Len(all)
           cut == SubSeq(all, m, l)
<1>5. m \in Int /\ l \in Int /\ m - 1 <= l /\ 1 <= m /\ l - m + 1 <= HistoryLimit /\ l - m + 1 \in Nat
  BY <1>1, <1>3, <1>2
<1>6. \A i \in m..l : all[i] \in Event
  BY <1>1, <1>5
<1> HIDE DEF m
<1>7. SubSeq(all, m, l) \in Seq(Event) /\ Len(SubSeq(all, m, l)) = IF m <= l THEN l - m + 1 ELSE 0
  BY <1>5, <1>6, SubSeqProperties
<1> QED
  BY <1>4, <1>5, <1>7, <1>2 DEF m

(* One lemma for the steps that only end a call or touch no call at all.   *)
LEMMA RestKept ==
    ASSUME IInv, Rest, UNCHANGED <<clock, sequence, counts, history>>,
           UNCHANGED call \/ \E p \in Proc : call' = [call EXCEPT ![p] = NoCall],
           state' \in {"running", "stopped"},
           lastError' \in {"none", "capacity", "identity"},
           outbox' \in [Proc -> Seq(Event)],
           published' \subseteq Event
    PROVE  Rest'
<1>1. Cardinality(Asking') \in Nat /\ Cardinality(Asking') <= Cardinality(Asking)
  <2>1. CASE UNCHANGED call
    <3>1. Asking' = Asking
      BY <2>1 DEF Asking
    <3> QED
      BY <3>1, AskingFinite
  <2> QED
    BY <2>1, CallEnds DEF IInv
<1>2. sequence + Cardinality(Asking') <= MaxRequests
  BY <1>1, AskingFinite, GateAssumption DEF Rest
<1> QED
  BY <1>2 DEF Rest

(* Numbers that are kept for those who are to draw one are enough for them.*)
LEMMA NumbersLast ==
    ASSUME NEW m \in Nat, NEW s \in Nat, NEW a \in Nat, NEW b \in Nat, NEW t,
           b <= a, s + a <= m,
           t = s \/ (t = s + 1 /\ b = a - 1)
    PROVE  t \in 0..m /\ t + b <= m
  OBVIOUS

(* A body that sweeps and then leaves or raises.                           *)
LEMMA RestAfterSweep ==
    ASSUME IInv, Rest, NEW p \in Proc, NEW t \in Nat, NEW own \in Seq(Event),
           counts' \in [{"approved", "denied", "consumed", "expired"} -> Nat],
           lastError' \in {"none", "capacity", "identity"},
           \/ Leave(p, t, own)
           \/ Abandon(p, t),
           \/ sequence' = sequence
           \/ call[p].op = "authorize" /\ sequence' = sequence + 1
    PROVE  Rest'
<1>1. ExpiredEvents(t) \in Seq(Event)
  BY SweepTyped
<1>2. ExpiredEvents(t) \o own \in Seq(Event)
  BY <1>1, ConcatProperties
<1>3. history' \in Seq(Event) /\ Len(history') <= HistoryLimit
  BY <1>1, <1>2, RememberTyped DEF Leave, Abandon
<1>4. outbox' \in [Proc -> Seq(Event)]
  BY <1>2 DEF Leave, Abandon, Rest
<1>5. /\ UNCHANGED <<state, clock, published>>
      /\ call' = [call EXCEPT ![p] = NoCall]
  BY DEF Leave, Abandon
<1>6. sequence' \in 0..MaxRequests /\ sequence' + Cardinality(Asking') <= MaxRequests
  <2>1. /\ Cardinality(Asking') \in Nat
        /\ Cardinality(Asking') <= Cardinality(Asking)
        /\ call[p].op = "authorize" => Cardinality(Asking') = Cardinality(Asking) - 1
    BY <1>5, CallEnds DEF IInv
  <2>2. PICK a, b : a = Cardinality(Asking) /\ b = Cardinality(Asking')
    OBVIOUS
  <2>3. /\ a \in Nat /\ b \in Nat /\ b <= a
        /\ sequence \in Nat /\ sequence + a <= MaxRequests /\ MaxRequests \in Nat
    BY <2>1, <2>2, AskingFinite, GateAssumption DEF Rest
  <2>4. sequence' = sequence \/ (sequence' = sequence + 1 /\ b = a - 1)
    BY <2>1, <2>2
  <2>5. sequence' \in 0..MaxRequests /\ sequence' + b <= MaxRequests
    BY <2>3, <2>4, NumbersLast
  <2> QED
    BY <2>2, <2>5
<1> QED
  BY <1>3, <1>4, <1>5, <1>6 DEF Rest

(* The event of the change a body makes is typed.                          *)
LEMMA OwnTyped ==
    ASSUME NEW i \in Id, NEW s \in Status
    PROVE  <<[id |-> i, status |-> s]>> \in Seq(Event)
  BY DEF Event

LEMMA RestStep == IInv /\ Rest /\ Next => Rest'
<1> SUFFICES ASSUME IInv, Rest, Next PROVE Rest'
  OBVIOUS
<1> DEFINE Counts == [{"approved", "denied", "consumed", "expired"} -> Nat]
<1>1. DOMAIN records \subseteq Id
  BY GateAssumption DEF IInv, TableOK, Rest, Id
<1>2. ASSUME NEW t \in Nat PROVE DOMAIN Swept(t) \subseteq Id
  BY <1>1, SweepKeepsTable DEF IInv
<1>3. ASSUME NEW p \in Proc, Consume(p) PROVE Rest'
  <2> DEFINE t == call[p].now
             i == SweptIndex(t)[call[p].fp]
  <2>1. t \in Nat
    BY <1>3, CallTyped DEF IInv, Consume, Entered
  <2>2. /\ call[p].fp \in DOMAIN SweptIndex(t)
        /\ counts' = [Expire(t) EXCEPT !.consumed = @ + 1]
        /\ Leave(p, t, <<[id |-> i, status |-> "consumed"]>>)
        /\ UNCHANGED <<sequence, lastError>>
    BY <1>3 DEF Consume
  <2>3. i \in DOMAIN Swept(t)
    BY <2>1, <2>2, SweepKeepsTable DEF IInv, TableOK
  <2>4. <<[id |-> i, status |-> "consumed"]>> \in Seq(Event)
    BY <1>2, <2>1, <2>3, OwnTyped DEF Status, TerminalStatus
  <2>5. counts' \in Counts
    BY <2>1, <2>2, SweepTyped
  <2> HIDE DEF t, i
  <2> QED
    BY <2>1, <2>2, <2>4, <2>5, RestAfterSweep DEF Rest
<1>4. ASSUME NEW p \in Proc, Request(p) PROVE Rest'
  <2> DEFINE t == call[p].now
             i == sequence + 1
  <2>1. t \in Nat
    BY <1>4, CallTyped DEF IInv, Request, Entered
  <2>2. /\ call[p].op = "authorize"
        /\ counts' = Expire(t)
        /\ Leave(p, t, <<[id |-> i, status |-> "pending"]>>)
        /\ sequence' = sequence + 1 /\ lastError' = "none"
    BY <1>4 DEF Request, Entered
  <2>3. i \in Id
    <3>1. p \in Asking
      BY <2>2 DEF Asking
    <3>2. Cardinality(Asking) # 0
      BY <3>1, AskingFinite, FS_EmptySet
    <3> QED
      BY <3>2, AskingFinite, GateAssumption DEF Rest, Id
  <2>4. <<[id |-> i, status |-> "pending"]>> \in Seq(Event)
    BY <2>3, OwnTyped DEF Status, OpenStatus
  <2>5. counts' \in Counts
    BY <2>1, <2>2, SweepTyped
  <2> HIDE DEF t, i
  <2> QED
    BY <2>1, <2>2, <2>4, <2>5, RestAfterSweep
<1>5. ASSUME NEW p \in Proc, NEW verdict \in {"approved", "denied"}, Decide(p, verdict)
      PROVE  Rest'
  <2> DEFINE t == call[p].now
             i == call[p].id
  <2>1. t \in Nat
    BY <1>5, CallTyped DEF IInv, Decide, Entered
  <2>2. /\ i \in DOMAIN Swept(t)
        /\ counts' = [Expire(t) EXCEPT ![verdict] = @ + 1]
        /\ Leave(p, t, <<[id |-> i, status |-> verdict]>>)
        /\ UNCHANGED <<sequence, lastError>>
    BY <1>5 DEF Decide
  <2>4. <<[id |-> i, status |-> verdict]>> \in Seq(Event)
    BY <1>2, <2>1, <2>2, OwnTyped DEF Status, OpenStatus
  <2>5. counts' \in Counts
    <3>1. Expire(t) \in Counts
      BY <2>1, SweepTyped
    <3>2. Expire(t)[verdict] + 1 \in Nat
      BY <3>1
    <3>3. counts' = [Expire(t) EXCEPT ![verdict] = Expire(t)[verdict] + 1]
      BY <2>2
    <3> QED
      BY <3>1, <3>2, <3>3
  <2> HIDE DEF t, i
  <2> QED
    BY <2>1, <2>2, <2>4, <2>5, RestAfterSweep DEF Rest
<1>6. ASSUME NEW p \in Proc, Cancel(p) PROVE Rest'
  <2> DEFINE t == call[p].now
             i == call[p].id
  <2>1. t \in Nat
    BY <1>6, CallTyped DEF IInv, Cancel, Entered
  <2>2. /\ i \in DOMAIN Swept(t)
        /\ counts' = Expire(t)
        /\ Leave(p, t, <<[id |-> i, status |-> "cancelled"]>>)
        /\ UNCHANGED <<sequence, lastError>>
    BY <1>6 DEF Cancel, Open
  <2>4. <<[id |-> i, status |-> "cancelled"]>> \in Seq(Event)
    BY <1>2, <2>1, <2>2, OwnTyped DEF Status, TerminalStatus
  <2>5. counts' \in Counts
    BY <2>1, <2>2, SweepTyped
  <2> HIDE DEF t, i
  <2> QED
    BY <2>1, <2>2, <2>4, <2>5, RestAfterSweep DEF Rest
<1>7. ASSUME NEW p \in Proc, NEW t \in Nat, Abandon(p, t),
             lastError' \in {"none", "capacity", "identity"}
      PROVE  Rest'
  <2>1. counts' \in Counts /\ UNCHANGED sequence
    BY <1>7, SweepTyped DEF Abandon, Expire
  <2>2. <<>> \in Seq(Event)
    OBVIOUS
  <2> QED
    BY <1>7, <2>1, <2>2, RestAfterSweep
<1>8. ASSUME NEW p \in Proc,
             \/ RaiseFull(p) \/ RaiseUncancellable(p)
             \/ \E verdict \in {"approved", "denied"} : RaiseUndecidable(p, verdict)
      PROVE  Rest'
  <2>1. call[p].now \in Nat /\ Abandon(p, call[p].now)
    BY <1>8, CallTyped DEF IInv, RaiseFull, RaiseUncancellable, RaiseUndecidable, Entered
  <2>2. lastError' \in {"none", "capacity", "identity"}
    BY <1>8 DEF RaiseFull, RaiseUncancellable, RaiseUndecidable, Rest
  <2> QED
    BY <2>1, <2>2, <1>7
<1>9. ASSUME NEW p \in Proc, ReadSilently(p) PROVE Rest'
  BY <1>7, <1>9 DEF ReadSilently, IInv, Rest
<1>10. ASSUME NEW p \in Proc, NEW t \in Nat, Leave(p, t, <<>>),
              counts' = Expire(t), UNCHANGED <<sequence, lastError>>
       PROVE  Rest'
  <2>1. counts' \in Counts /\ <<>> \in Seq(Event)
    BY <1>10, SweepTyped
  <2> QED
    BY <1>10, <2>1, RestAfterSweep DEF Rest
<1>11. ASSUME NEW p \in Proc, Replay(p) \/ ReadAndPublish(p) PROVE Rest'
  BY <1>10, <1>11, CallTyped DEF Replay, ReadAndPublish, IInv, Entered
<1>12. ASSUME NEW p \in Proc, Start(p) \/ Stop(p) \/ RejectIdentity(p) \/ RaiseStopped(p)
       PROVE  Rest'
  BY <1>12, RestKept DEF Start, Stop, RejectIdentity, RaiseStopped, gateVars, Rest
<1>13. ASSUME NEW p \in Proc, Publish(p) PROVE Rest'
  <2>1. outbox[p] \in Seq(Event) /\ outbox[p] # <<>>
    BY <1>13 DEF Publish, Rest
  <2>2. Head(outbox[p]) \in Event /\ Tail(outbox[p]) \in Seq(Event)
    BY <2>1, HeadTailProperties
  <2>3. outbox' \in [Proc -> Seq(Event)] /\ published' \subseteq Event
    BY <1>13, <2>2 DEF Publish, Rest
  <2> QED
    BY <1>13, <2>3, RestKept DEF Publish, gateVars, Rest
<1>14. ASSUME NEW p \in Proc, NEW f \in Fingerprint, BeginAuthorize(p, f) PROVE Rest'
  <2>1. call' = [call EXCEPT ![p] = [op |-> "authorize", fp |-> f, now |-> clock]]
    BY <1>14 DEF BeginAuthorize
  <2>2. call'[p].op = "authorize" /\ \A q \in Proc \ {p} : call'[q] = call[q]
    BY <2>1 DEF IInv
  <2>3. Asking' = Asking \union {p}
    BY <2>2 DEF Asking
  <2>4. Cardinality(Asking \union {p}) <= Cardinality(Asking) + 1
    BY AskingFinite, FS_AddElement
  <2>5. IsFiniteSet(Asking \union {p}) /\ Cardinality(Asking \union {p}) \in Nat
    BY AskingFinite, FS_AddElement, FS_CardinalityType
  <2>6. sequence + Cardinality(Asking) < MaxRequests
    BY <1>14 DEF BeginAuthorize, Asking
  <2>7. sequence' + Cardinality(Asking') <= MaxRequests
    BY <1>14, <2>3, <2>4, <2>5, <2>6, AskingFinite, GateAssumption
       DEF BeginAuthorize, gateVars, Rest
  <2> QED
    BY <1>14, <2>7 DEF BeginAuthorize, gateVars, Rest
<1>15. ASSUME NEW p \in Proc, NEW verdict \in {"approved", "denied", "cancelled"},
              NEW i \in Id, BeginDecision(p, verdict, i)
       PROVE  Rest'
  <2>1. call' = [call EXCEPT ![p] = [op |-> verdict, id |-> i, now |-> clock]]
    BY <1>15 DEF BeginDecision
  <2>2. call'[p].op # "authorize" /\ \A q \in Proc \ {p} : call'[q] = call[q]
    BY <2>1 DEF IInv
  <2>3. call[p].op # "authorize"
    BY <1>15 DEF BeginDecision, Idle, NoCall
  <2>4. Asking' = Asking
    BY <2>2, <2>3 DEF Asking
  <2> QED
    BY <1>15, <2>4 DEF BeginDecision, gateVars, Rest
<1>16. ASSUME Tick PROVE Rest'
  <2>1. Asking' = Asking
    BY <1>16 DEF Tick, Asking
  <2>2. clock' \in 0..MaxTime
    BY <1>16, GateAssumption DEF Tick, Rest
  <2> QED
    BY <1>16, <2>1, <2>2 DEF Tick, gateVars, Rest
<1> QED
  BY <1>3, <1>4, <1>5, <1>6, <1>8, <1>9, <1>11, <1>12, <1>13, <1>14, <1>15, <1>16
     DEF Next, Locked

LEMMA InitTyped == Init => Rest
<1> SUFFICES ASSUME Init PROVE Rest
  OBVIOUS
<1>1. Asking = {}
  BY DEF Init, Asking, NoCall
<1>2. Cardinality(Asking) = 0
  BY <1>1, FS_EmptySet
<1> QED
  BY <1>2, GateAssumption DEF Init, Rest

LEMMA RestStutters == IInv /\ Rest /\ UNCHANGED vars => Rest'
  BY RestKept DEF vars, Rest

(* For every value of the constants the state has its types, the history   *)
(* stays within its limit (approval.py:186), and no identifier is given    *)
(* out beyond the bound.                                                   *)
THEOREM TypeAlwaysCorrect == Spec => []TypeOK
<1>1. Spec => []IInv
  BY Invariance
<1>2. IInv /\ Rest /\ [Next]_vars => Rest'
  BY RestStutters, RestStep
<1> QED
  BY <1>1, <1>2, InitTyped, RestTypes, PTL DEF Spec

-----------------------------------------------------------------------------
(* A thread about to enter the lock has nothing left to publish.           *)
Silent == \A p \in Proc : call[p] # NoCall => outbox[p] = <<>>

(* A body that leaves normally announces the one change it made; its       *)
(* thread's outbox was empty, so it hides nothing.                         *)
LEMMA LeaveAnnounces ==
    ASSUME IInv, Rest, TransitionsAnnounced, NEW p \in Proc, NEW t \in Nat,
           outbox[p] = <<>>, NEW own \in Seq(Event), Leave(p, t, own),
           \A i \in DOMAIN records' : records'[i].status # "expired" =>
              \/ i \in DOMAIN records /\ records[i].status = records'[i].status
              \/ \E n \in DOMAIN own : own[n] = [id |-> i, status |-> records'[i].status]
    PROVE  TransitionsAnnounced'
<1> DEFINE expired == ExpiredEvents(t)
           all == expired \o own
<1>1. expired \in Seq(Event)
  BY SweepTyped
<1>2. /\ outbox' = [outbox EXCEPT ![p] = all]
      /\ published' = published
  BY DEF Leave
<1>3. outbox'[p] = all /\ \A q \in Proc \ {p} : outbox'[q] = outbox[q]
  BY <1>2 DEF Rest
<1> HIDE DEF expired
<1>4. ASSUME NEW n \in DOMAIN own PROVE \E m \in DOMAIN all : all[m] = own[n]
  <2>1. Len(expired) + n \in DOMAIN all /\ all[Len(expired) + n] = own[n]
    BY <1>1, <1>4, ConcatProperties
  <2> QED
    BY <2>1
<1> HIDE DEF all
<1> SUFFICES ASSUME NEW i \in DOMAIN records', records'[i].status # "expired",
                    NEW event, event = [id |-> i, status |-> records'[i].status]
             PROVE  \/ event \in published'
                    \/ \E q \in Proc : \E n \in DOMAIN outbox'[q] : outbox'[q][n] = event
  BY DEF TransitionsAnnounced
<1>5. CASE i \in DOMAIN records /\ records[i].status = records'[i].status
  <2>1. \/ event \in published
        \/ \E q \in Proc : \E n \in DOMAIN outbox[q] : outbox[q][n] = event
    BY <1>5 DEF TransitionsAnnounced
  <2>2. ASSUME NEW q \in Proc, NEW n \in DOMAIN outbox[q], outbox[q][n] = event
        PROVE  \E m \in DOMAIN outbox'[q] : outbox'[q][m] = event
    <3>1. q # p
      BY <2>2
    <3> QED
      BY <1>3, <2>2, <3>1
  <2> QED
    BY <1>2, <2>1, <2>2
<1>6. CASE \E n \in DOMAIN own : own[n] = event
  <2>1. \E m \in DOMAIN all : all[m] = event
    BY <1>4, <1>6
  <2> QED
    BY <1>3, <2>1
<1> QED
  BY <1>5, <1>6

(* The same for a body that sweeps and changes one record.                 *)
LEMMA ChangeAnnounces ==
    ASSUME IInv, Rest, TransitionsAnnounced, NEW p \in Proc, NEW t \in Nat,
           outbox[p] = <<>>, NEW j \in Id, NEW s \in Status,
           Leave(p, t, <<[id |-> j, status |-> s]>>),
           NEW new, records' = Prune(new), new[j].status = s,
           DOMAIN new \subseteq DOMAIN Swept(t) \union {j},
           \A i \in DOMAIN Swept(t) : i # j => new[i] = Swept(t)[i]
    PROVE  TransitionsAnnounced'
<1> DEFINE own == <<[id |-> j, status |-> s]>>
<1>1. own \in Seq(Event) /\ DOMAIN own = 1..1 /\ own[1] = [id |-> j, status |-> s]
  BY OwnTyped
<1>2. \A i \in DOMAIN records' : i \in DOMAIN new /\ records'[i] = new[i]
  BY DEF Prune
<1> HIDE DEF own
<1>3. ASSUME NEW i \in DOMAIN records', records'[i].status # "expired"
      PROVE  \/ i \in DOMAIN records /\ records[i].status = records'[i].status
             \/ \E n \in DOMAIN own : own[n] = [id |-> i, status |-> records'[i].status]
  <2>1. CASE i = j
    BY <1>1, <1>2, <2>1
  <2>2. CASE i # j
    <3>1. i \in DOMAIN Swept(t) /\ records'[i] = Swept(t)[i]
      BY <1>2, <2>2
    <3> QED
      BY <3>1, <1>3, SweepKeepsTable DEF IInv
  <2> QED
    BY <2>1, <2>2
<1> QED
  BY <1>1, <1>3, LeaveAnnounces DEF own

(* A step that keeps the outboxes and the published events, and makes no   *)
(* record anything but expired, announces as much as before.               *)
LEMMA SameOutboxAnnounces ==
    ASSUME TransitionsAnnounced, UNCHANGED <<outbox, published>>,
           \A i \in DOMAIN records' : records'[i].status # "expired" =>
              i \in DOMAIN records /\ records[i] = records'[i]
    PROVE  TransitionsAnnounced'
  BY DEF TransitionsAnnounced

LEMMA AnnouncedStep ==
    IInv /\ Rest /\ Silent /\ TransitionsAnnounced /\ Next => TransitionsAnnounced'
<1> SUFFICES ASSUME IInv, Rest, Silent, TransitionsAnnounced, Next
             PROVE  TransitionsAnnounced'
  OBVIOUS
<1>1. DOMAIN records \subseteq Id
  BY GateAssumption DEF IInv, TableOK, Rest, Id
<1>2. ASSUME NEW t \in Nat PROVE DOMAIN Swept(t) \subseteq Id
  BY <1>1, SweepKeepsTable DEF IInv
<1>3. ASSUME NEW p \in Proc, call[p].op # "none" PROVE call[p].now \in Nat /\ outbox[p] = <<>>
  BY <1>3, CallTyped DEF IInv, Silent, NoCall
<1>4. ASSUME NEW p \in Proc, Consume(p) PROVE TransitionsAnnounced'
  <2> DEFINE t == call[p].now
             i == SweptIndex(t)[call[p].fp]
             new == [Swept(t) EXCEPT ![i].status = "consumed", ![i].consumed = t]
  <2>1. t \in Nat /\ outbox[p] = <<>>
    BY <1>3, <1>4 DEF Consume, Entered
  <2>2. /\ call[p].fp \in DOMAIN SweptIndex(t)
        /\ records' = Prune(new)
        /\ Leave(p, t, <<[id |-> i, status |-> "consumed"]>>)
    BY <1>4 DEF Consume
  <2>3. i \in DOMAIN Swept(t) /\ Swept(t)[i] \in Record
    BY <2>1, <2>2, SweepKeepsTable DEF IInv, TableOK, RecordOK
  <2>4. new[i].status = "consumed"
    BY <2>3 DEF Record
  <2>5. DOMAIN new = DOMAIN Swept(t) /\ \A k \in DOMAIN Swept(t) : k # i => new[k] = Swept(t)[k]
    BY <2>3
  <2>6. "consumed" \in Status
    BY DEF Status, TerminalStatus
  <2> HIDE DEF t, i, new
  <2> QED
    BY <1>2, <2>1, <2>2, <2>3, <2>4, <2>5, <2>6, ChangeAnnounces
<1>5. ASSUME NEW p \in Proc, Request(p) PROVE TransitionsAnnounced'
  <2> DEFINE t == call[p].now
             i == sequence + 1
             rec == [fp |-> call[p].fp, status |-> "pending", expires |-> t + TTL,
                     decided |-> Never, consumed |-> Never]
             new == With(Swept(t), i, rec)
  <2>1. t \in Nat /\ outbox[p] = <<>> /\ call[p].op = "authorize"
    BY <1>3, <1>5 DEF Request, Entered
  <2>2. /\ records' = Prune(new)
        /\ Leave(p, t, <<[id |-> i, status |-> "pending"]>>)
    BY <1>5 DEF Request
  <2>3. i \in Id
    <3>1. p \in Asking
      BY <2>1 DEF Asking
    <3>2. Cardinality(Asking) # 0
      BY <3>1, AskingFinite, FS_EmptySet
    <3> QED
      BY <3>2, AskingFinite, GateAssumption DEF Rest, Id
  <2>4. new[i].status = "pending"
    BY DEF With
  <2>5. /\ DOMAIN new = DOMAIN Swept(t) \union {i}
        /\ \A k \in DOMAIN Swept(t) : k # i => new[k] = Swept(t)[k]
    BY DEF With
  <2>6. "pending" \in Status
    BY DEF Status, OpenStatus
  <2> HIDE DEF t, i, new
  <2> QED
    BY <2>1, <2>2, <2>3, <2>4, <2>5, <2>6, ChangeAnnounces
<1>6. ASSUME NEW p \in Proc, NEW s \in {"approved", "denied", "cancelled"}, Entered(p, s),
             LET t == call[p].now
                 i == call[p].id
             IN  /\ i \in DOMAIN Swept(t)
                 /\ records' = Prune([Swept(t) EXCEPT ![i].status = s, ![i].decided = t])
                 /\ Leave(p, t, <<[id |-> i, status |-> s]>>)
      PROVE  TransitionsAnnounced'
  <2> DEFINE t == call[p].now
             i == call[p].id
             new == [Swept(t) EXCEPT ![i].status = s, ![i].decided = t]
  <2>1. t \in Nat /\ outbox[p] = <<>>
    BY <1>3, <1>6 DEF Entered
  <2>2. /\ records' = Prune(new)
        /\ Leave(p, t, <<[id |-> i, status |-> s]>>)
        /\ i \in DOMAIN Swept(t)
    BY <1>6
  <2>3. Swept(t)[i] \in Record /\ s \in Status
    BY <2>1, <2>2, SweepKeepsTable
       DEF IInv, TableOK, RecordOK, Status, OpenStatus, TerminalStatus
  <2>4. new[i].status = s
    <3>1. new[i] = Stamped(Swept(t)[i], s, t)
      BY <2>2 DEF Stamped
    <3> HIDE DEF new, t, i
    <3> QED
      BY <3>1, <2>1, <2>3, StampedRecord
  <2>5. DOMAIN new = DOMAIN Swept(t) /\ \A k \in DOMAIN Swept(t) : k # i => new[k] = Swept(t)[k]
    BY <2>2
  <2> HIDE DEF t, i, new
  <2> QED
    BY <1>2, <2>1, <2>2, <2>3, <2>4, <2>5, ChangeAnnounces
<1>7. ASSUME NEW p \in Proc, NEW verdict \in {"approved", "denied"}, Decide(p, verdict)
      PROVE  TransitionsAnnounced'
  BY <1>6, <1>7 DEF Decide
<1>8. ASSUME NEW p \in Proc, Cancel(p) PROVE TransitionsAnnounced'
  BY <1>6, <1>8 DEF Cancel, Open
<1>9. ASSUME NEW t \in Nat, records' = Swept(t)
      PROVE  \A i \in DOMAIN records' : records'[i].status # "expired" =>
                i \in DOMAIN records /\ records[i] = records'[i]
  BY <1>9, SweepKeepsTable DEF IInv
<1>10. ASSUME NEW p \in Proc, NEW t \in Nat, outbox[p] = <<>>, records' = Swept(t),
              Leave(p, t, <<>>)
       PROVE  TransitionsAnnounced'
  <2>1. <<>> \in Seq(Event)
    OBVIOUS
  <2> QED
    BY <1>9, <1>10, <2>1, LeaveAnnounces
<1>11. ASSUME NEW p \in Proc, Replay(p) \/ ReadAndPublish(p) PROVE TransitionsAnnounced'
  BY <1>3, <1>10, <1>11 DEF Replay, ReadAndPublish, Idle, IInv, Entered
<1>12. ASSUME NEW p \in Proc, NEW t \in Nat, Abandon(p, t) PROVE TransitionsAnnounced'
  BY <1>9, <1>12, SameOutboxAnnounces DEF Abandon
<1>13. ASSUME NEW p \in Proc,
              \/ RaiseFull(p) \/ RaiseUncancellable(p) \/ ReadSilently(p)
              \/ \E verdict \in {"approved", "denied"} : RaiseUndecidable(p, verdict)
       PROVE  TransitionsAnnounced'
  BY <1>3, <1>12, <1>13
     DEF RaiseFull, RaiseUncancellable, RaiseUndecidable, ReadSilently, Entered, IInv
<1>14. ASSUME UNCHANGED <<records, outbox, published>> PROVE TransitionsAnnounced'
  BY <1>14, SameOutboxAnnounces
<1>15. ASSUME NEW p \in Proc,
              \/ Start(p) \/ Stop(p) \/ RejectIdentity(p) \/ RaiseStopped(p)
              \/ \E f \in Fingerprint : BeginAuthorize(p, f)
              \/ \E verdict \in {"approved", "denied", "cancelled"}, i \in Id :
                   BeginDecision(p, verdict, i)
       PROVE  TransitionsAnnounced'
  <2>1. UNCHANGED <<records, outbox, published>>
    BY <1>15 DEF Start, Stop, RejectIdentity, RaiseStopped, BeginAuthorize, BeginDecision,
       gateVars
  <2> QED
    BY <2>1, <1>14
<1>16. ASSUME Tick PROVE TransitionsAnnounced'
  BY <1>14, <1>16 DEF Tick, gateVars
<1>17. ASSUME NEW p \in Proc, Publish(p) PROVE TransitionsAnnounced'
  <2> DEFINE box == outbox[p]
  <2>1. box \in Seq(Event) /\ box # <<>>
    BY <1>17 DEF Publish, Rest
  <2>2. /\ records' = records
        /\ published' = published \union {Head(box)}
        /\ outbox'[p] = Tail(box)
        /\ \A q \in Proc \ {p} : outbox'[q] = outbox[q]
    BY <1>17 DEF Publish, gateVars, Rest
  <2>3. ASSUME NEW n \in DOMAIN box
        PROVE  box[n] = Head(box) \/ \E m \in DOMAIN Tail(box) : Tail(box)[m] = box[n]
    <3>1. CASE n = 1
      BY <2>1, <3>1
    <3>2. CASE n # 1
      <4>1. n - 1 \in DOMAIN Tail(box) /\ Tail(box)[n - 1] = box[n]
        BY <2>1, <3>2, HeadTailProperties
      <4> QED
        BY <4>1
    <3> QED
      BY <3>1, <3>2
  <2> HIDE DEF box
  <2>4. ASSUME NEW q \in Proc, NEW n \in DOMAIN outbox[q]
        PROVE  \/ outbox[q][n] \in published'
               \/ \E r \in Proc : \E m \in DOMAIN outbox'[r] : outbox'[r][m] = outbox[q][n]
    <3>1. CASE q = p
      BY <2>2, <2>3, <3>1 DEF box
    <3>2. CASE q # p
      BY <2>2, <3>2
    <3> QED
      BY <3>1, <3>2
  <2> SUFFICES ASSUME NEW i \in DOMAIN records, records[i].status # "expired",
                      NEW event, event = [id |-> i, status |-> records[i].status]
               PROVE  \/ event \in published'
                      \/ \E r \in Proc : \E m \in DOMAIN outbox'[r] : outbox'[r][m] = event
    BY <2>2 DEF TransitionsAnnounced
  <2>5. \/ event \in published
        \/ \E q \in Proc : \E n \in DOMAIN outbox[q] : outbox[q][n] = event
    BY DEF TransitionsAnnounced
  <2> QED
    BY <2>2, <2>4, <2>5
<1> QED
  BY <1>4, <1>5, <1>7, <1>8, <1>11, <1>13, <1>15, <1>16, <1>17 DEF Next, Locked

LEMMA SilentStep == IInv /\ Rest /\ Silent /\ [Next]_vars => Silent'
<1> SUFFICES ASSUME IInv, Rest, Silent, [Next]_vars PROVE Silent'
  OBVIOUS
<1>1. ASSUME NEW p \in Proc, call' = [call EXCEPT ![p] = NoCall],
             \A q \in Proc \ {p} : outbox'[q] = outbox[q]
      PROVE  Silent'
  BY <1>1 DEF Silent, IInv
<1>2. ASSUME NEW p \in Proc, NEW t, NEW own, Leave(p, t, own) \/ Abandon(p, t)
      PROVE  Silent'
  BY <1>1, <1>2 DEF Leave, Abandon, Rest
<1>3. ASSUME NEW p \in Proc, Locked(p) PROVE Silent'
  <2>1. CASE RaiseStopped(p)
    BY <1>1, <2>1 DEF RaiseStopped
  <2>2. CASE Consume(p)
    BY <1>2, <2>2 DEF Consume
  <2>3. CASE Replay(p)
    BY <1>2, <2>3 DEF Replay
  <2>4. CASE Request(p)
    BY <1>2, <2>4 DEF Request
  <2>5. CASE Cancel(p)
    BY <1>2, <2>5 DEF Cancel
  <2>6. CASE RaiseFull(p) \/ RaiseUncancellable(p)
    BY <1>2, <2>6 DEF RaiseFull, RaiseUncancellable
  <2>7. ASSUME NEW verdict \in {"approved", "denied"},
               Decide(p, verdict) \/ RaiseUndecidable(p, verdict)
        PROVE  Silent'
    BY <1>2, <2>7 DEF Decide, RaiseUndecidable
  <2> QED
    BY <1>3, <2>1, <2>2, <2>3, <2>4, <2>5, <2>6, <2>7 DEF Locked
<1>4. ASSUME NEW p \in Proc, ReadAndPublish(p) \/ ReadSilently(p) PROVE Silent'
  BY <1>2, <1>4 DEF ReadAndPublish, ReadSilently
<1>5. ASSUME NEW p \in Proc, NEW new, Idle(p), call' = [call EXCEPT ![p] = new],
             outbox' = outbox
      PROVE  Silent'
  BY <1>5 DEF Silent, Idle, IInv
<1>6. ASSUME NEW p \in Proc,
             \/ \E f \in Fingerprint : BeginAuthorize(p, f)
             \/ \E verdict \in {"approved", "denied", "cancelled"}, i \in Id :
                  BeginDecision(p, verdict, i)
      PROVE  Silent'
  BY <1>5, <1>6 DEF BeginAuthorize, BeginDecision
<1>7. ASSUME NEW p \in Proc, Publish(p) PROVE Silent'
  BY <1>7 DEF Publish, Silent, Rest
<1>8. ASSUME UNCHANGED <<call, outbox>> PROVE Silent'
  BY <1>8 DEF Silent
<1>9. ASSUME NEW p \in Proc, Start(p) \/ Stop(p) \/ RejectIdentity(p) PROVE Silent'
  BY <1>8, <1>9 DEF Start, Stop, RejectIdentity
<1>10. CASE Tick \/ UNCHANGED vars
  BY <1>8, <1>10 DEF Tick, vars
<1> QED
  BY <1>3, <1>4, <1>6, <1>7, <1>9, <1>10 DEF Next

(* For any number of threads and any interleaving of the calls with the    *)
(* publishing outside the lock, every change the owner or an agent made to *)
(* a record still held is announced or about to be (approval.py:837): a    *)
(* thread enters the lock only with an empty outbox, so the batch it takes *)
(* out never replaces one it has still to publish.                         *)
THEOREM TransitionsAlwaysAnnounced == Spec => []TransitionsAnnounced
<1>1. Init => Silent /\ TransitionsAnnounced
  BY DEF Init, Silent, TransitionsAnnounced
<1>2. Init => Rest
  BY InitTyped
<1>3. IInv /\ Rest /\ TransitionsAnnounced /\ UNCHANGED vars => TransitionsAnnounced'
  BY DEF vars, TransitionsAnnounced
<1>4. IInv /\ Rest /\ Silent /\ TransitionsAnnounced /\ [Next]_vars => TransitionsAnnounced'
  BY <1>3, AnnouncedStep
<1>5. IInv /\ Rest /\ [Next]_vars => Rest'
  BY RestStutters, RestStep
<1> QED
  BY Invariance, <1>1, <1>2, <1>4, <1>5, SilentStep, PTL DEF Spec

-----------------------------------------------------------------------------
(* What the refinement is good for: a result about the abstraction, taken  *)
(* back to the gate.  An approval that stands was given and has not been   *)
(* used; there is one for each of them and one for each use.               *)
Granted == {f \in Fingerprint : Standing[f] = "approved"}
EachGrantOnce ==
    /\ {counts.approved, counts.consumed} \subseteq Nat
    /\ Cardinality(Granted) + counts.consumed <= counts.approved

LEMMA StandingTyped ==
    /\ DOMAIN Standing = Fingerprint /\ DOMAIN Standing' = Fingerprint
    /\ IsFiniteSet(Granted) /\ Cardinality(Granted) \in Nat
<1>1. Granted \subseteq Fingerprint
  BY DEF Granted
<1>2. IsFiniteSet(Granted)
  BY <1>1, GateAssumption, FS_Subset
<1> QED
  BY <1>2, FS_CardinalityType DEF Standing

(* Lapses, refusals and withdrawals only lose approvals, a use loses the   *)
(* one it uses, and what adds one has been counted as a grant.             *)
LEMMA GrantsKeepCount ==
    ASSUME EachGrantOnce, [Grants!Next]_(Grants!vars)
    PROVE  EachGrantOnce'
<1> PICK a, c, G : a = counts.approved /\ c = counts.consumed /\ G = Granted
  OBVIOUS
<1> PICK a2, c2, H : a2 = counts'.approved /\ c2 = counts'.consumed /\ H = Granted'
  OBVIOUS
<1>1. /\ a \in Nat /\ c \in Nat /\ IsFiniteSet(G) /\ Cardinality(G) \in Nat
      /\ Cardinality(G) + c <= a
  BY StandingTyped DEF EachGrantOnce
<1>2. /\ DOMAIN Standing = Fingerprint /\ DOMAIN Standing' = Fingerprint
      /\ G = {f \in Fingerprint : Standing[f] = "approved"}
      /\ H = {f \in Fingerprint : Standing'[f] = "approved"}
  BY StandingTyped DEF Granted
<1>3. SUFFICES /\ a2 \in Nat /\ c2 \in Nat
               /\ Cardinality(H) + c2 <= a2
  BY DEF EachGrantOnce
<1>4. ASSUME H \subseteq G, a2 = a, c2 = c
      PROVE  a2 \in Nat /\ c2 \in Nat /\ Cardinality(H) + c2 <= a2
  <2>1. Cardinality(H) \in Nat /\ Cardinality(H) <= Cardinality(G)
    BY <1>1, <1>4, FS_Subset, FS_CardinalityType
  <2> QED
    BY <1>1, <1>4, <2>1
<1>5. CASE UNCHANGED Grants!vars
  <2>1. H = G /\ a2 = a /\ c2 = c
    BY <1>2, <1>5 DEF Grants!vars
  <2> QED
    BY <1>4, <2>1
<1>6. CASE Grants!Next
  <2>1. PICK W \in SUBSET Fingerprint :
          \/ Grants!Lapse(W)
          \/ \E s \in Fingerprint : \/ Grants!Ask(W, s) \/ Grants!Grant(W, s)
                                    \/ Grants!Refuse(W, s) \/ Grants!Use(W, s)
                                    \/ Grants!Withdraw(W, s)
    BY <1>6 DEF Grants!Next
  <2>2. PICK After : After = Grants!After(W)
    OBVIOUS
  <2>3. /\ DOMAIN After = Fingerprint
        /\ \A f \in Fingerprint : After[f] = "approved" => f \in G
    BY <1>2, <2>2 DEF Grants!After
  <2>4. CASE Grants!Lapse(W)
    <3>1. Standing' = After /\ a2 = a /\ c2 = c
      BY <2>2, <2>4 DEF Grants!Lapse
    <3> QED
      BY <1>2, <1>4, <2>3, <3>1
  <2>5. ASSUME NEW s \in Fingerprint,
               Grants!Ask(W, s) \/ Grants!Refuse(W, s) \/ Grants!Withdraw(W, s)
        PROVE  a2 \in Nat /\ c2 \in Nat /\ Cardinality(H) + c2 <= a2
    <3>1. PICK v \in {"pending", "denied", "none"} :
            Standing' = [After EXCEPT ![s] = v] /\ a2 = a /\ c2 = c
      BY <2>2, <2>5 DEF Grants!Ask, Grants!Refuse, Grants!Withdraw
    <3>2. H \subseteq G
      BY <1>2, <2>3, <3>1
    <3> QED
      BY <1>4, <3>1, <3>2
  <2>6. ASSUME NEW s \in Fingerprint, Grants!Grant(W, s)
        PROVE  a2 \in Nat /\ c2 \in Nat /\ Cardinality(H) + c2 <= a2
    <3>1. Standing' = [After EXCEPT ![s] = "approved"] /\ a2 = a + 1 /\ c2 = c
      BY <2>2, <2>6 DEF Grants!Grant
    <3>2. H \subseteq G \union {s}
      BY <1>2, <2>3, <3>1
    <3>3. /\ IsFiniteSet(G \union {s}) /\ Cardinality(G \union {s}) \in Nat
          /\ Cardinality(G \union {s}) <= Cardinality(G) + 1
      BY <1>1, FS_AddElement
    <3>4. Cardinality(H) \in Nat /\ Cardinality(H) <= Cardinality(G \union {s})
      BY <3>2, <3>3, FS_Subset, FS_CardinalityType
    <3> QED
      BY <1>1, <3>1, <3>3, <3>4
  <2>7. ASSUME NEW s \in Fingerprint, Grants!Use(W, s)
        PROVE  a2 \in Nat /\ c2 \in Nat /\ Cardinality(H) + c2 <= a2
    <3>1. /\ Standing' = [After EXCEPT ![s] = "none"] /\ a2 = a /\ c2 = c + 1
          /\ After[s] = "approved"
      BY <2>2, <2>7 DEF Grants!Use
    <3>2. H \subseteq G \ {s} /\ s \in G
      BY <1>2, <2>3, <3>1
    <3>3. /\ IsFiniteSet(G \ {s}) /\ Cardinality(G \ {s}) \in Nat
          /\ Cardinality(G \ {s}) = Cardinality(G) - 1
      BY <1>1, <3>2, FS_RemoveElement, FS_CardinalityType
    <3>4. Cardinality(H) \in Nat /\ Cardinality(H) <= Cardinality(G \ {s})
      BY <3>2, <3>3, FS_Subset, FS_CardinalityType
    <3> QED
      BY <1>1, <3>1, <3>3, <3>4
  <2> QED
    BY <2>1, <2>4, <2>5, <2>6, <2>7
<1> QED
  BY <1>5, <1>6

(* No approval is used without having been given, or twice, whatever the   *)
(* threads do and whatever expires: as many have been consumed and stand   *)
(* to be consumed as the owner has granted, or fewer                       *)
(* (authorize_or_request, approval.py).                                    *)
THEOREM EveryGrantUsedOnce == Spec => []EachGrantOnce
<1>1. Init => EachGrantOnce
  <2> SUFFICES ASSUME Init PROVE EachGrantOnce
    OBVIOUS
  <2>1. Granted = {}
    BY DEF Init, Granted, Standing
  <2> QED
    BY <2>1, FS_EmptySet DEF Init, EachGrantOnce
<1>2. EachGrantOnce /\ [Grants!Next]_(Grants!vars) => EachGrantOnce'
  BY GrantsKeepCount
<1> QED
  BY <1>1, <1>2, AlwaysImplementsOneTimeGrant, PTL
     DEF Spec, ImplementsOneTimeGrant, Grants!Spec
=============================================================================
