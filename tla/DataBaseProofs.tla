--------------------------- MODULE DataBaseProofs ---------------------------
(* Proofs about DataBase for any records, keys, values and bounds.  Until  *)
(* the first storage error every record is followed through the batches on *)
(* their way: each batch takes the state before it to the commit it came   *)
(* from.                                                                   *)
EXTENDS DataBase, SequenceTheorems, TLAPS

(* The pending changes as a batch, and the batches of the commit thread,   *)
(* the one being applied first.                                            *)
Pending == [changes |-> changes, new |-> new, deleted |-> deleted]
Batch(k) == IF busy THEN (IF k = 1 THEN job ELSE queue[k - 1]) ELSE queue[k]
Before(k) == IF k = 1 THEN disk ELSE snaps[k - 1]

(* What a batch makes of a record.                                         *)
Effect(doc, batch, id) == IF id \in batch.deleted THEN Empty ELSE Merge(doc, batch.changes[id])

(* The batch takes the record from the one state to the other one, and the *)
(* storage accepts what it does on the way; a torn record it leaves alone. *)
Leads(from, batch, to, id) ==
    /\ to[id] = Effect(from[id], batch, id)
    /\ id \in batch.deleted => batch.changes[id] = NoDoc /\ from[id] \notin {Empty, Torn}
    /\ batch.changes[id] # NoDoc => /\ batch.changes[id] # Empty /\ from[id] # Torn
                                    /\ id \in batch.new <=> from[id] = Empty

WaitingChained == \A k \in 1..Len(snaps), id \in Ids : Leads(Before(k), Batch(k), snaps[k], id)
PendingChained == \A id \in Ids : Leads(NewestCommit, Pending, store, id)

(* The record that is being written.                                       *)
Opened == \A id \in open : busy /\ open = {id} /\ job.changes[id] \in Docs /\ disk[id] \in Docs

(* A new record has a document, and every commit on its way has its batch. *)
Typed ==
    /\ TypeOK
    /\ Opened
    /\ \A id \in new : changes[id] # NoDoc
    /\ Len(snaps) = JobsCount

(* What the calls that wait have found in memory.                          *)
Calling ==
    /\ call = "get" => \A id \in asked : id \notin new \cup deleted
    /\ call = "flush" => NothingToCommit

(* The inductive invariant: until the first error the batches lead from    *)
(* the storage to the records as the callers know them.                    *)
IInv ==
    /\ Typed
    /\ Calling
    /\ faults = 0 => WaitingChained /\ PendingChained

-----------------------------------------------------------------------------
(* Documents are merged key by key.                                        *)
LEMMA MergeType ==
    ASSUME NEW doc \in Docs, NEW over \in Docs \cup {NoDoc}
    PROVE  Merge(doc, over) \in Docs
BY DEF Merge, Docs

LEMMA MergeNothing ==
    ASSUME NEW doc
    PROVE  Merge(doc, NoDoc) = doc
BY DEF Merge

LEMMA MergeIntoEmpty ==
    ASSUME NEW over \in Docs
    PROVE  Merge(Empty, over) = over
BY ValuesAssumption DEF Merge, Docs, Empty

LEMMA EmptyType == Empty \in Docs /\ Empty # NoDoc /\ Empty # Torn
BY ValuesAssumption DEF Docs, Empty

(* What is merged with a value has one.                                    *)
LEMMA MergeNonempty ==
    ASSUME NEW doc \in Docs, NEW over \in Docs, over # Empty
    PROVE  Merge(doc, over) # Empty
<1>1. PICK k \in Keys : over[k] # Absent
  BY DEF Docs, Empty
<1>2. over # NoDoc
  BY ValuesAssumption
<1>3. Merge(doc, over)[k] # Absent
  BY <1>1, <1>2 DEF Merge
<1>4. QED
  BY <1>1, <1>3 DEF Empty

(* An update of a key is an update of what comes out of the merge.         *)
LEMMA MergeUpdate ==
    ASSUME NEW doc \in Docs, NEW over \in Docs \cup {NoDoc}, NEW k \in Keys, NEW v \in Vals
    PROVE  LET new_over == [IF over = NoDoc THEN Empty ELSE over EXCEPT ![k] = v]
           IN /\ new_over \in Docs /\ new_over # NoDoc /\ new_over # Empty
              /\ Merge(doc, new_over) = [Merge(doc, over) EXCEPT ![k] = v]
<1> DEFINE base == IF over = NoDoc THEN Empty ELSE over
           n == [base EXCEPT ![k] = v]
<1>1. base \in Docs
  BY EmptyType
<1>2. n \in Docs /\ n[k] = v /\ \A l \in Keys \ {k} : n[l] = base[l]
  BY <1>1 DEF Docs
<1>3. n # NoDoc /\ n # Empty /\ v # Absent
  BY <1>2, ValuesAssumption DEF Empty
<1>4. Merge(doc, n) = [l \in Keys |-> IF n[l] = Absent THEN doc[l] ELSE n[l]]
  BY <1>3 DEF Merge
<1>5. Merge(doc, over) \in Docs
  BY MergeType
<1>6. \A l \in Keys \ {k} : Merge(doc, n)[l] = Merge(doc, over)[l]
  BY <1>2, <1>4 DEF Merge, Empty, Docs
<1>7. Merge(doc, n)[k] = v
  BY <1>2, <1>3, <1>4
<1>8. Merge(doc, n) = [Merge(doc, over) EXCEPT ![k] = v]
  BY <1>4, <1>5, <1>6, <1>7 DEF Docs
<1>9. QED
  BY <1>2, <1>3, <1>8

-----------------------------------------------------------------------------
(* Type correctness.                                                       *)
LEMMA TypedInit == Init => Typed
<1> SUFFICES ASSUME Init PROVE Typed
  OBVIOUS
<1>1. NoChanges \in [Ids -> Docs \cup {NoDoc}] /\ NoBatch \in Batches
  BY DEF NoChanges, NoBatch, Batches
<1>2. NoReply \in [id : SUBSET Ids, doc : Docs]
  BY EmptyType DEF NoReply
<1>3. disk \in Stores /\ store \in Stores
  BY EmptyType DEF Init, Stores
<1>4. queue \in Seq(Batches) /\ snaps \in Seq(Stores) /\ Len(queue) = 0 /\ Len(snaps) = 0
  BY DEF Init
<1>5. faults \in 0..MaxFaults /\ crashes \in 0..MaxCrashes
  BY BoundsAssumption DEF Init
<1>6. Len(snaps) = JobsCount
  BY <1>4 DEF Init, JobsCount
<1>7. QED
  BY <1>1, <1>2, <1>3, <1>4, <1>5, <1>6 DEF Init, Typed, TypeOK, Opened

LEMMA TypedNext == Typed /\ [Next]_vars => Typed'
<1> SUFFICES ASSUME Typed, [Next]_vars PROVE Typed'
  OBVIOUS
<1> USE EmptyType, BoundsAssumption DEF Typed
<1>t. NoChanges \in [Ids -> Docs \cup {NoDoc}] /\ NoBatch \in Batches /\ NoReply \in [id : SUBSET Ids, doc : Docs]
  BY DEF NoChanges, NoBatch, NoReply, Batches
<1>s. DiskNow \in Stores
  BY DEF DiskNow, TypeOK, Stores
<1>1. CASE \E id \in Ids : Get(id)
  <2>1. PICK id \in Ids : Get(id)
    BY <1>1
  <2>2. UNCHANGED <<memory, committer, disk, faults, crashes, history>>
    BY <2>1 DEF Get
  <2>3. id \in new => changes[id] \in Docs
    BY DEF TypeOK
  <2>4. reply' \in [id : SUBSET Ids, doc : Docs] /\ call' \in {call, "get"} /\ asked' \in SUBSET Ids
    BY <1>t, <2>1, <2>3 DEF Get, NoAnswer, caller, TypeOK
  <2>5. Opened'
    BY <2>2 DEF Opened, committer
  <2>6. QED
    BY <2>2, <2>4, <2>5 DEF TypeOK, JobsCount, memory, committer, history
<1>2. CASE \E id \in Ids : Delete(id)
  BY <1>t, <1>2 DEF Delete, NoAnswer, TypeOK, Opened, JobsCount, committer, caller, Stores
<1>3. CASE \E id \in Ids, doc \in InsertDocs : Insert(id, doc)
  <2>1. PICK id \in Ids, doc \in InsertDocs : Insert(id, doc)
    BY <1>3
  <2>2. doc \in Docs
    BY InsertDocsAssumption
  <2>3. Merge(IF changes[id] = NoDoc THEN Empty ELSE changes[id], doc) \in Docs
    BY <2>2, MergeType DEF TypeOK
  <2>4. changes' \in [Ids -> Docs \cup {NoDoc}] /\ changes'[id] # NoDoc
    BY <2>1, <2>3, ValuesAssumption DEF Insert, TypeOK
  <2>5. store' \in Stores
    BY <2>1, <2>2 DEF Insert, TypeOK, Stores
  <2>6. \A i \in new' : changes'[i] # NoDoc
    BY <2>1, <2>4 DEF Insert, TypeOK
  <2>7. JobsCount' = JobsCount
    BY <2>1 DEF Insert, JobsCount, committer
  <2>8. QED
    BY <1>t, <2>1, <2>4, <2>5, <2>6, <2>7 DEF Insert, NoAnswer, TypeOK, Opened, committer, caller
<1>4. CASE \E id \in Ids, entry \in Updates : Update(id, entry)
  <2>1. PICK id \in Ids, entry \in Updates : Update(id, entry)
    BY <1>4
  <2> DEFINE k == entry[1]
             v == entry[2]
  <2>a. k \in Keys /\ v \in Vals
    BY UpdatesAssumption
  <2>2. changes' \in [Ids -> Docs \cup {NoDoc}] /\ \A i \in new' : changes'[i] # NoDoc
    <3>1. changes[id] \in Docs \cup {NoDoc}
      BY DEF TypeOK
    <3> DEFINE n == [IF changes[id] = NoDoc THEN Empty ELSE changes[id] EXCEPT ![k] = v]
    <3>a. /\ n \in Docs /\ n # NoDoc /\ n # Empty
          /\ Merge(Empty, n) = [Merge(Empty, changes[id]) EXCEPT ![k] = v]
      BY <2>a, <3>1, MergeUpdate
    <3>2. n \in Docs /\ n # NoDoc
      BY <3>a
    <3>3. changes' = [changes EXCEPT ![id] = n] /\ new' = new
      BY <2>1 DEF Update
    <3> HIDE DEF n
    <3>4. QED
      BY <3>2, <3>3 DEF TypeOK
  <2>3. store' \in Stores
    <3>1. store[id] \in Docs
      BY <2>1 DEF Update, Legal, TypeOK, Stores
    <3>2. [store[id] EXCEPT ![k] = v] \in Docs
      BY <2>a, <3>1 DEF Docs
    <3>3. store' = [store EXCEPT ![id] = [store[id] EXCEPT ![k] = v]]
      BY <2>1 DEF Update
    <3>4. QED
      BY <3>2, <3>3 DEF TypeOK, Stores
  <2>4. JobsCount' = JobsCount
    BY <2>1 DEF Update, JobsCount, committer
  <2>5. QED
    BY <1>t, <2>1, <2>2, <2>3, <2>4 DEF Update, NoAnswer, TypeOK, Opened, committer, caller
<1>5. ASSUME NEW wait, Submit(wait), NoAnswer, UNCHANGED <<busy, job, open, disk, asked, faults, crashes>>
      PROVE  Typed'
  <2>1. [changes |-> changes, new |-> new, deleted |-> deleted] \in Batches
    BY DEF TypeOK, Batches
  <2>2. queue' \in Seq(Batches) /\ Len(queue') = Len(queue) + 1
    BY <1>5, <2>1 DEF Submit, TypeOK
  <2>3. snaps' \in Seq(Stores) /\ Len(snaps') = Len(snaps) + 1
    <3>1. snaps \in Seq(Stores) /\ store \in Stores
      BY DEF TypeOK
    <3>2. QED
      BY <1>5, <3>1, AppendProperties DEF Submit
  <2>4. QED
    BY <1>5, <1>t, <2>2, <2>3 DEF Submit, NoAnswer, TypeOK, Opened, JobsCount
<1>6. CASE \E wait \in BOOLEAN : CommitChanges(wait)
  <2>1. PICK wait \in BOOLEAN : CommitChanges(wait)
    BY <1>6
  <2>2. NoAnswer /\ UNCHANGED <<busy, job, open, disk, asked, faults, crashes>>
    BY <2>1 DEF CommitChanges
  <2>3. CASE Submit(wait)
    BY <1>5, <2>2, <2>3
  <2>4. CASE UNCHANGED <<memory, queue, history>> /\ call' \in {"none", "full", "fullFlush", "flush"}
    BY <1>t, <2>2, <2>4 DEF NoAnswer, TypeOK, Opened, JobsCount, memory, history
  <2>5. QED
    BY <2>1, <2>3, <2>4 DEF CommitChanges
<1>7. CASE ClearChanges
  <2>1. NewestCommit \in Stores
    BY DEF NewestCommit, TypeOK
  <2>2. QED
    BY <1>7, <1>t, <2>1 DEF ClearChanges, NoAnswer, TypeOK, Opened, JobsCount, committer, caller
<1>8. CASE \E id \in Ids : GetRecord(id)
  <2>1. PICK id \in Ids : GetRecord(id)
    BY <1>8
  <2>2. disk[id] # Torn => Merge(disk[id], changes[id]) \in Docs
    BY MergeType DEF TypeOK, Stores
  <2>3. reply' \in [id : SUBSET Ids, doc : Docs]
    BY <1>t, <2>1, <2>2 DEF GetRecord
  <2>4. QED
    BY <2>1, <2>3 DEF GetRecord, TypeOK, Opened, JobsCount, memory, committer, history
<1>9. CASE CommitAfterWait
  BY <1>5, <1>9 DEF CommitAfterWait
<1>10. CASE FlushDone
  BY <1>t, <1>10 DEF FlushDone, NoAnswer, TypeOK, Opened, JobsCount, memory, committer, history
<1>11. CASE StartJob
  <2>1. Head(queue) \in Batches /\ Tail(queue) \in Seq(Batches) /\ Len(Tail(queue)) = Len(queue) - 1
    BY <1>11 DEF StartJob, TypeOK
  <2>2. QED
    BY <1>t, <1>11, <2>1 DEF StartJob, NoAnswer, TypeOK, Opened, JobsCount, memory, caller, history
<1>12. ASSUME busy, JobEnds, NoAnswer, disk' \in Stores, UNCHANGED <<memory, caller, crashes>>,
              faults' \in 0..MaxFaults
       PROVE  Typed'
  <2>1. Len(snaps) = Len(queue) + 1 /\ snaps # <<>>
    BY <1>12 DEF JobsCount, TypeOK
  <2>2. Tail(snaps) \in Seq(Stores) /\ Len(Tail(snaps)) = Len(snaps) - 1
    BY <2>1 DEF TypeOK
  <2>3. queue' = queue /\ Len(snaps') = JobsCount'
    BY <1>12, <2>1, <2>2 DEF JobEnds, JobsCount, TypeOK
  <2>4. QED
    BY <1>12, <1>t, <2>2, <2>3 DEF JobEnds, NoAnswer, TypeOK, Opened, memory, caller
<1>13. CASE CommitRecords
  BY <1>12, <1>13 DEF CommitRecords, TypeOK
<1>14. CASE JobRefused
  BY <1>12, <1>14 DEF JobRefused, TypeOK
<1>15. CASE StorageError
  BY <1>s, <1>12, <1>15 DEF StorageError, TypeOK
<1>16. CASE \E id \in Ids : BeginWrite(id)
  <2>1. PICK id \in Ids : BeginWrite(id)
    BY <1>16
  <2>2. disk[id] \in Docs /\ job.changes[id] \in Docs
    BY <2>1 DEF BeginWrite, Accepts, TypeOK, Stores, Batches
  <2>3. Opened'
    BY <2>1, <2>2 DEF BeginWrite, Opened
  <2>4. QED
    BY <1>t, <2>1, <2>3 DEF BeginWrite, NoAnswer, TypeOK, JobsCount, memory, caller, history
<1>21. CASE \E id \in Ids : EndWrite(id)
  <2>1. PICK id \in Ids : EndWrite(id)
    BY <1>21
  <2>2. Merge(disk[id], job.changes[id]) \in Docs
    BY <2>1, MergeType DEF EndWrite, Opened
  <2>3. disk' \in Stores
    BY <2>1, <2>2 DEF EndWrite, TypeOK, Stores
  <2>4. job' \in Batches
    BY <2>1 DEF EndWrite, TypeOK, Batches
  <2>5. QED
    BY <1>t, <2>1, <2>3, <2>4 DEF EndWrite, NoAnswer, TypeOK, Opened, JobsCount, memory, caller, history
<1>17. CASE \E id \in Ids : DeleteRecord(id)
  <2>1. PICK id \in Ids : DeleteRecord(id)
    BY <1>17
  <2>2. disk' \in Stores
    BY <2>1 DEF DeleteRecord, TypeOK, Stores
  <2>3. job' \in Batches
    BY <2>1 DEF DeleteRecord, TypeOK, Batches
  <2>4. Opened'
    BY <2>1 DEF DeleteRecord, Opened, NoChanges, TypeOK, Stores
  <2>5. QED
    BY <1>t, <2>1, <2>2, <2>3, <2>4 DEF DeleteRecord, NoAnswer, TypeOK, JobsCount, memory, caller, history
<1>18. CASE Crash
  <2>1. queue' \in Seq(Batches) /\ snaps' \in Seq(Stores) /\ Len(queue') = 0 /\ Len(snaps') = 0
    BY <1>18 DEF Crash
  <2>2. crashes' \in 0..MaxCrashes
    BY <1>18 DEF Crash, TypeOK
  <2>3. JobsCount' = 0
    BY <1>18, <2>1 DEF Crash, JobsCount
  <2>4. TypeOK' /\ Opened'
    BY <1>18, <1>s, <1>t, <2>1, <2>2 DEF Crash, NoAnswer, TypeOK, Opened
  <2>5. QED
    BY <1>18, <2>1, <2>3, <2>4 DEF Crash
<1>19. CASE UNCHANGED vars
  BY <1>19 DEF vars, memory, committer, caller, history, TypeOK, Opened, JobsCount
<1>20. QED
  BY <1>1, <1>2, <1>3, <1>4, <1>6, <1>7, <1>8, <1>9, <1>10, <1>11, <1>13, <1>14, <1>15,
     <1>16, <1>17, <1>18, <1>19, <1>21 DEF Next, CallStarts, CallReturns, CommitThread

(* DataBase keeps its types, for any records, keys, values and bounds.     *)
THEOREM TypeTheorem == Spec => []TypeOK
<1>1. Typed => TypeOK
  BY DEF Typed
<1>2. QED
  BY <1>1, TypedInit, TypedNext, PTL DEF Spec

-----------------------------------------------------------------------------
(* A batch that changes nothing.                                           *)
LEMMA LeadsNowhere ==
    ASSUME NEW from, NEW batch, NEW id \in Ids, batch.changes = NoChanges, batch.deleted = {}
    PROVE  Leads(from, batch, from, id)
BY MergeNothing DEF Leads, Effect, NoChanges

(* Where nothing waits the newest commit is in the storage, and a record   *)
(* without a change is as in the newest commit.                            *)
LEMMA NewestType == Typed => NewestCommit \in Stores
BY DEF Typed, TypeOK, NewestCommit

LEMMA DrainedIsStored == Typed /\ Drained => NewestCommit = disk
BY DEF Typed, TypeOK, Drained, NewestCommit

(* The commit thread's list stays as it is.                                *)
LEMMA WaitingKept ==
    ASSUME WaitingChained, UNCHANGED <<queue, busy, job, disk, snaps>>
    PROVE  WaitingChained'
BY DEF WaitingChained, Before, Batch

LEMMA PendingKept ==
    ASSUME PendingChained, UNCHANGED <<changes, new, deleted, disk, snaps, store>>
    PROVE  PendingChained'
BY DEF PendingChained, NewestCommit, Pending

(* One record changes in memory, the others do not.                        *)
OthersPending(i) ==
    /\ changes'[i] = changes[i] /\ store'[i] = store[i]
    /\ i \in new' <=> i \in new
    /\ i \in deleted' <=> i \in deleted

LEMMA OnePending ==
    ASSUME PendingChained, NEW id \in Ids, UNCHANGED <<disk, snaps>>,
           Leads(NewestCommit, Pending', store', id),
           \A i \in Ids \ {id} : OthersPending(i)
    PROVE  PendingChained'
<1>1. NewestCommit' = NewestCommit
  BY DEF NewestCommit
<1>2. ASSUME NEW i \in Ids, i # id
      PROVE  Leads(NewestCommit, Pending', store', i)
  <2>1. Leads(NewestCommit, Pending, store, i)
    BY DEF PendingChained
  <2>2. QED
    BY <1>2, <2>1 DEF OthersPending, Leads, Effect, Pending
<1>3. QED
  BY <1>1, <1>2 DEF PendingChained

(* What the pending changes say of a record.                               *)
LEMMA PendingFacts ==
    ASSUME Typed, PendingChained, NEW id \in Ids
    PROVE  /\ NewestCommit[id] \in Docs \cup {Torn} /\ changes[id] \in Docs \cup {NoDoc}
           /\ store[id] \in Docs \cup {Torn}
           /\ id \in deleted => store[id] = Empty /\ changes[id] = NoDoc /\ NewestCommit[id] \notin {Empty, Torn}
           /\ id \notin deleted => store[id] = Merge(NewestCommit[id], changes[id])
           /\ changes[id] = NoDoc /\ id \notin deleted => store[id] = NewestCommit[id]
           /\ changes[id] # NoDoc => /\ changes[id] # Empty /\ id \notin deleted /\ store[id] # Empty
                                     /\ NewestCommit[id] # Torn
                                     /\ id \in new <=> NewestCommit[id] = Empty
<1>1. /\ NewestCommit[id] \in Docs \cup {Torn} /\ changes[id] \in Docs \cup {NoDoc}
      /\ store[id] \in Docs \cup {Torn}
  BY NewestType DEF Typed, TypeOK, Stores
<1>2. Leads(NewestCommit, Pending, store, id)
  BY DEF PendingChained
<1>3. /\ id \in deleted => store[id] = Empty /\ changes[id] = NoDoc /\ NewestCommit[id] \notin {Empty, Torn}
      /\ id \notin deleted => store[id] = Merge(NewestCommit[id], changes[id])
      /\ changes[id] # NoDoc => /\ changes[id] # Empty /\ NewestCommit[id] # Torn
                                /\ id \in new <=> NewestCommit[id] = Empty
  BY <1>2 DEF Leads, Effect, Pending
<1>4. changes[id] = NoDoc /\ id \notin deleted => store[id] = NewestCommit[id]
  BY <1>3, MergeNothing
<1>5. changes[id] # NoDoc => store[id] # Empty
  BY <1>1, <1>3, MergeNonempty
<1>6. QED
  BY <1>1, <1>3, <1>4, <1>5

LEMMA InsertKeepsPending ==
    ASSUME Typed, PendingChained, NEW id \in Ids, NEW doc \in InsertDocs, Insert(id, doc)
    PROVE  PendingChained'
<1>1. doc \in Docs /\ doc # Empty /\ doc # NoDoc
  BY InsertDocsAssumption, ValuesAssumption
<1>2. store[id] = Empty /\ id \notin new /\ id \notin deleted
  BY DEF Insert, Exists
<1>3. changes[id] = NoDoc /\ NewestCommit[id] = Empty
  BY <1>2, PendingFacts
<1>4. changes'[id] = doc /\ store'[id] = doc /\ id \in new' /\ id \notin deleted'
  BY <1>1, <1>2, <1>3, MergeIntoEmpty DEF Insert, Typed, TypeOK, Stores
<1>5. Leads(NewestCommit, Pending', store', id)
  BY <1>1, <1>3, <1>4, MergeIntoEmpty, EmptyType DEF Leads, Effect, Pending
<1>6. \A i \in Ids \ {id} : OthersPending(i)
  BY DEF OthersPending, Insert, Typed, TypeOK, Stores
<1>7. UNCHANGED <<disk, snaps>>
  BY DEF Insert
<1>8. QED
  BY <1>5, <1>6, <1>7, OnePending

LEMMA UpdateKeepsPending ==
    ASSUME Typed, PendingChained, NEW id \in Ids, NEW entry \in Updates, Update(id, entry)
    PROVE  PendingChained'
<1> DEFINE k == entry[1]
           v == entry[2]
           n == [IF changes[id] = NoDoc THEN Empty ELSE changes[id] EXCEPT ![k] = v]
<1>a. k \in Keys /\ v \in Vals
  BY UpdatesAssumption
<1>1. id \notin deleted /\ (store[id] # Empty \/ id \in new) /\ store[id] # Torn
  BY DEF Update, Legal, Exists
<1>2. id \in new => changes[id] # NoDoc
  BY DEF Typed
<1>3. id \in new <=> NewestCommit[id] = Empty
  BY <1>1, <1>2, PendingFacts
<1>4. NewestCommit[id] \in Docs /\ changes[id] \in Docs \cup {NoDoc}
  BY <1>1, <1>2, PendingFacts
<1>5. /\ n \in Docs /\ n # NoDoc /\ n # Empty
      /\ Merge(NewestCommit[id], n) = [Merge(NewestCommit[id], changes[id]) EXCEPT ![k] = v]
  BY <1>a, <1>4, MergeUpdate
<1>6. changes'[id] = n /\ store'[id] = [store[id] EXCEPT ![k] = v] /\ UNCHANGED <<new, deleted>>
  BY DEF Update, Typed, TypeOK, Stores
<1>7. store'[id] = Merge(NewestCommit[id], n)
  BY <1>1, <1>5, <1>6, PendingFacts
<1>8. Leads(NewestCommit, Pending', store', id)
  BY <1>1, <1>3, <1>4, <1>5, <1>6, <1>7, ValuesAssumption DEF Leads, Effect, Pending
<1>9. \A i \in Ids \ {id} : OthersPending(i)
  BY DEF OthersPending, Update, Typed, TypeOK, Stores
<1>10. UNCHANGED <<disk, snaps>>
  BY DEF Update
<1>11. QED
  BY <1>8, <1>9, <1>10, OnePending

LEMMA DeleteKeepsPending ==
    ASSUME Typed, PendingChained, NEW id \in Ids, Delete(id)
    PROVE  PendingChained'
<1>1. id \notin deleted /\ (store[id] # Empty \/ id \in new) /\ store[id] # Torn
  BY DEF Delete, Legal, Exists
<1>2. (id \in new <=> NewestCommit[id] = Empty) /\ NewestCommit[id] # Torn
  BY <1>1, PendingFacts DEF Typed
<1>3. /\ changes'[id] = NoDoc /\ store'[id] = Empty
      /\ id \notin new' /\ (id \in deleted' <=> id \notin new)
  BY <1>1 DEF Delete, Typed, TypeOK, Stores
<1>4. Leads(NewestCommit, Pending', store', id)
  BY <1>2, <1>3, MergeNothing DEF Leads, Effect, Pending
<1>5. \A i \in Ids \ {id} : OthersPending(i)
  BY DEF OthersPending, Delete, Typed, TypeOK, Stores
<1>6. UNCHANGED <<disk, snaps>>
  BY DEF Delete
<1>7. QED
  BY <1>4, <1>5, <1>6, OnePending

(* A commit becomes the newest one.                                        *)
LEMMA SubmitKeepsChains ==
    ASSUME Typed, WaitingChained, PendingChained, NEW wait, Submit(wait), UNCHANGED <<busy, job, disk>>
    PROVE  WaitingChained' /\ PendingChained'
<1> PICK n \in Nat : n = Len(snaps)
  BY DEF Typed, TypeOK
<1>1. snaps \in Seq(Stores) /\ queue \in Seq(Batches) /\ n = JobsCount /\ n = Len(snaps) /\ Pending \in Batches
  BY DEF Typed, TypeOK, Pending, Batches
<1>2. /\ snaps' = Append(snaps, store) /\ queue' = Append(queue, Pending)
      /\ changes' = NoChanges /\ deleted' = {}
  BY DEF Submit, Pending
<1>3. Len(snaps') = n + 1 /\ snaps'[n + 1] = store /\ \A k \in 1..n : snaps'[k] = snaps[k]
  BY <1>1, <1>2, AppendProperties DEF Typed, TypeOK
<1>4. /\ queue'[Len(queue) + 1] = Pending /\ Len(queue) \in Nat
      /\ \A k \in 1..Len(queue) : queue'[k] = queue[k]
  BY <1>1, <1>2, AppendProperties
<1>5. \A k \in 1..n : Before(k)' = Before(k) /\ Batch(k)' = Batch(k)
  <2> SUFFICES ASSUME NEW k \in 1..n
               PROVE  Before(k)' = Before(k) /\ Batch(k)' = Batch(k)
    OBVIOUS
  <2>1. k # 1 => k - 1 \in 1..n
    BY <1>1
  <2>2. Before(k)' = Before(k)
    BY <1>3, <2>1 DEF Before
  <2>3. busy /\ k # 1 => k - 1 \in 1..Len(queue)
    BY <1>1, <1>4 DEF JobsCount
  <2>4. ~busy => k \in 1..Len(queue)
    BY <1>1 DEF JobsCount
  <2>5. Batch(k)' = Batch(k)
    BY <1>4, <2>3, <2>4 DEF Batch
  <2>6. QED
    BY <2>2, <2>5
<1>6. Batch(n + 1)' = Pending
  <2>1. busy => n = Len(queue) + 1 /\ n + 1 # 1
    BY <1>1, <1>4 DEF JobsCount
  <2>2. ~busy => n = Len(queue)
    BY <1>1, <1>4 DEF JobsCount
  <2>3. QED
    BY <1>4, <2>1, <2>2 DEF Batch
<1>7. Before(n + 1)' = NewestCommit
  <2>1. CASE n = 0
    <3>1. snaps = <<>>
      BY <1>1, <2>1, EmptySeq
    <3>2. n + 1 = 1
      BY <2>1
    <3>3. QED
      BY <3>1, <3>2 DEF Before, NewestCommit
  <2>2. CASE n # 0
    BY <1>1, <1>3, <2>2 DEF Before, NewestCommit
  <2>3. QED
    BY <2>1, <2>2
<1>8. WaitingChained'
  <2> SUFFICES ASSUME NEW k \in 1..(n + 1), NEW id \in Ids
               PROVE  Leads(Before(k)', Batch(k)', snaps'[k], id)
    BY <1>3 DEF WaitingChained
  <2>1. CASE k \in 1..n
    BY <1>3, <1>5, <2>1 DEF WaitingChained
  <2>2. CASE k = n + 1
    <3>1. Leads(NewestCommit, Pending, store, id)
      BY DEF PendingChained
    <3>2. QED
      BY <1>3, <1>6, <1>7, <2>2, <3>1
  <2>3. QED
    BY <1>1, <2>1, <2>2
<1>9. NewestCommit' = store /\ store' = store
  BY <1>1, <1>3 DEF NewestCommit, Submit
<1>10. PendingChained'
  BY <1>2, <1>9, LeadsNowhere DEF PendingChained, Pending
<1>11. QED
  BY <1>8, <1>10

(* What the oldest batch says of a record.                                 *)
LEMMA JobFacts ==
    ASSUME Typed, WaitingChained, busy, NEW id \in Ids
    PROVE  /\ snaps # <<>> /\ Len(snaps) = Len(queue) + 1 /\ Leads(disk, job, snaps[1], id)
           /\ job.changes[id] \in Docs \cup {NoDoc} /\ disk[id] \in Docs \cup {Torn}
           /\ ~Refused(id)
<1>1. Len(snaps) = Len(queue) + 1 /\ Len(queue) \in Nat /\ snaps \in Seq(Stores)
  BY DEF Typed, TypeOK, JobsCount
<1>2. snaps # <<>> /\ 1 \in 1..Len(snaps)
  BY <1>1
<1>3. Before(1) = disk /\ Batch(1) = job
  BY DEF Before, Batch
<1>4. Leads(disk, job, snaps[1], id)
  BY <1>2, <1>3 DEF WaitingChained
<1>5. job.changes[id] \in Docs \cup {NoDoc} /\ disk[id] \in Docs \cup {Torn}
  BY DEF Typed, TypeOK, Batches, Stores
<1>6. ~Refused(id)
  BY <1>4 DEF Leads, Refused, Accepts
<1>7. QED
  BY <1>1, <1>2, <1>4, <1>5, <1>6

LEMMA StartKeepsWaiting ==
    ASSUME Typed, WaitingChained, StartJob
    PROVE  WaitingChained'
<1>1. queue \in Seq(Batches) /\ Len(snaps) = Len(queue) /\ Len(queue) \in Nat
  BY DEF StartJob, Typed, TypeOK, JobsCount
<1>2. job' = queue[1] /\ busy' /\ ~busy /\ UNCHANGED <<disk, snaps>>
  BY <1>1 DEF StartJob, history
<1>3. \A k \in 1..(Len(queue) - 1) : queue'[k] = queue[k + 1]
  BY <1>1 DEF StartJob
<1>4. ASSUME NEW k \in 1..Len(snaps)
      PROVE  Before(k)' = Before(k) /\ Batch(k)' = Batch(k)
  <2>1. k # 1 => k - 1 \in 1..(Len(queue) - 1)
    BY <1>1
  <2>2. k # 1 => queue'[k - 1] = queue[k]
    BY <1>1, <1>3, <2>1
  <2>3. QED
    BY <1>2, <2>2 DEF Before, Batch
<1>5. QED
  BY <1>2, <1>4 DEF WaitingChained

(* One record of the oldest batch reaches the storage.                     *)
LEMMA OneStored ==
    ASSUME Typed, WaitingChained, PendingChained, busy, NEW id \in Ids,
           UNCHANGED <<changes, new, deleted, queue, busy, snaps, store>>,
           Leads(disk', job', snaps[1], id),
           \A i \in Ids \ {id} : Leads(disk, job, snaps[1], i) => Leads(disk', job', snaps[1], i)
    PROVE  WaitingChained' /\ PendingChained'
<1>1. snaps # <<>>
  BY JobFacts
<1>2. PendingChained'
  BY <1>1 DEF PendingChained, NewestCommit, Pending
<1>3. WaitingChained'
  <2> SUFFICES ASSUME NEW k \in 1..Len(snaps), NEW i \in Ids
               PROVE  Leads(Before(k)', Batch(k)', snaps[k], i)
    BY DEF WaitingChained
  <2>1. CASE k = 1
    <3>1. Before(k)' = disk' /\ Batch(k)' = job'
      BY <2>1 DEF Before, Batch
    <3>2. Leads(disk', job', snaps[1], i)
      BY JobFacts
    <3>3. QED
      BY <2>1, <3>1, <3>2
  <2>2. CASE k # 1
    <3>1. Before(k)' = Before(k) /\ Batch(k)' = Batch(k)
      BY <2>2 DEF Before, Batch
    <3>2. QED
      BY <3>1 DEF WaitingChained
  <2>3. QED
    BY <2>1, <2>2
<1>4. QED
  BY <1>2, <1>3

LEMMA WriteKeepsChains ==
    ASSUME Typed, WaitingChained, PendingChained, NEW id \in Ids, EndWrite(id)
    PROVE  busy /\ WaitingChained' /\ PendingChained' /\ disk'[id] = snaps[1][id]
<1>1. /\ busy /\ job.changes[id] # NoDoc
      /\ disk' = [disk EXCEPT ![id] = Merge(@, job.changes[id])]
      /\ job' = [job EXCEPT !.changes[id] = NoDoc]
      /\ UNCHANGED <<changes, new, deleted, queue, busy, snaps, store>>
  BY EmptyType, ValuesAssumption DEF EndWrite, Typed, Opened, memory, history
<1>2. Leads(disk, job, snaps[1], id)
  BY <1>1, JobFacts
<1>3. id \notin job.deleted /\ snaps[1][id] = Merge(disk[id], job.changes[id])
  BY <1>1, <1>2 DEF Leads, Effect
<1>4. /\ disk'[id] = Merge(disk[id], job.changes[id])
      /\ \A i \in Ids \ {id} : disk'[i] = disk[i]
  BY <1>1 DEF Typed, TypeOK, Stores
<1>5. /\ job'.changes[id] = NoDoc /\ job'.deleted = job.deleted /\ job'.new = job.new
      /\ \A i \in Ids \ {id} : job'.changes[i] = job.changes[i]
  BY <1>1 DEF Typed, TypeOK, Batches
<1>6. Leads(disk', job', snaps[1], id)
  BY <1>3, <1>4, <1>5, MergeNothing DEF Leads, Effect
<1>7. \A i \in Ids \ {id} : Leads(disk, job, snaps[1], i) => Leads(disk', job', snaps[1], i)
  BY <1>4, <1>5 DEF Leads, Effect
<1>8. QED
  BY <1>1, <1>3, <1>4, <1>6, <1>7, OneStored

LEMMA DeleteKeepsChains ==
    ASSUME Typed, WaitingChained, PendingChained, NEW id \in Ids, DeleteRecord(id)
    PROVE  WaitingChained' /\ PendingChained' /\ disk'[id] = snaps[1][id]
<1>1. /\ busy /\ job.changes = NoChanges /\ id \in job.deleted
      /\ disk' = [disk EXCEPT ![id] = Empty]
      /\ job' = [job EXCEPT !.deleted = @ \ {id}]
      /\ UNCHANGED <<changes, new, deleted, queue, busy, snaps, store>>
  BY DEF DeleteRecord, memory, history
<1>2. Leads(disk, job, snaps[1], id)
  BY <1>1, JobFacts
<1>3. snaps[1][id] = Empty /\ job.changes[id] = NoDoc
  BY <1>1, <1>2 DEF Leads, Effect, NoChanges
<1>4. disk'[id] = Empty /\ \A i \in Ids \ {id} : disk'[i] = disk[i]
  BY <1>1 DEF Typed, TypeOK, Stores
<1>5. job'.deleted = job.deleted \ {id} /\ job'.changes = job.changes /\ job'.new = job.new
  BY <1>1 DEF Typed, TypeOK, Batches
<1>6. Leads(disk', job', snaps[1], id)
  BY <1>3, <1>4, <1>5, MergeNothing DEF Leads, Effect
<1>7. \A i \in Ids \ {id} : Leads(disk, job, snaps[1], i) => Leads(disk', job', snaps[1], i)
  BY <1>4, <1>5 DEF Leads, Effect
<1>8. QED
  BY <1>1, <1>3, <1>4, <1>6, <1>7, OneStored

(* The record that is being written will have a document.                  *)
LEMMA OpenedFacts ==
    ASSUME Typed, WaitingChained, NEW id \in open
    PROVE  id \in Ids /\ open = {id} /\ snaps # <<>> /\ Head(snaps)[id] # Empty
<1>1. id \in Ids /\ busy /\ open = {id} /\ job.changes[id] \in Docs /\ disk[id] \in Docs
  BY DEF Typed, TypeOK, Opened
<1>2. snaps # <<>> /\ Leads(disk, job, snaps[1], id) /\ snaps \in Seq(Stores)
  BY <1>1, JobFacts DEF Typed, TypeOK
<1>3. job.changes[id] # NoDoc
  BY <1>1, ValuesAssumption
<1>4. id \notin job.deleted /\ job.changes[id] # Empty /\ snaps[1][id] = Merge(disk[id], job.changes[id])
  BY <1>2, <1>3 DEF Leads, Effect
<1>5. snaps[1][id] # Empty
  BY <1>1, <1>4, MergeNonempty
<1>6. QED
  BY <1>1, <1>2, <1>5

(* A batch without anything left has stored its commit.                    *)
LEMMA CommitKeepsChains ==
    ASSUME Typed, WaitingChained, PendingChained, CommitRecords
    PROVE  WaitingChained' /\ PendingChained' /\ snaps # <<>> /\ disk = Head(snaps)
<1> PICK n \in Nat : n = Len(snaps)
  BY DEF Typed, TypeOK
<1>1. busy /\ job.changes = NoChanges /\ job.deleted = {} /\ JobEnds /\ disk' = disk
  BY DEF CommitRecords
<1>2. /\ snaps \in Seq(Stores) /\ queue \in Seq(Batches) /\ disk \in Stores
      /\ n = Len(snaps) /\ n = Len(queue) + 1 /\ Len(queue) \in Nat
  BY <1>1 DEF Typed, TypeOK, JobsCount
<1>3. snaps # <<>> /\ 1 \in 1..n /\ Head(snaps) = snaps[1] /\ snaps[1] \in Stores
  <2>1. n # 0 /\ 1 \in 1..n
    BY <1>2
  <2>2. snaps # <<>>
    BY <1>2, <2>1
  <2>3. QED
    BY <1>2, <2>1, <2>2
<1>4. ASSUME NEW id \in Ids
      PROVE  disk[id] = snaps[1][id]
  <2>1. Leads(disk, job, snaps[1], id)
    BY <1>1, JobFacts
  <2>2. job.changes[id] = NoDoc /\ id \notin job.deleted
    BY <1>1 DEF NoChanges
  <2>3. QED
    BY <2>1, <2>2, MergeNothing DEF Leads, Effect
<1>5. disk = snaps[1]
  BY <1>2, <1>3, <1>4 DEF Stores
<1>6. /\ snaps' = Tail(snaps) /\ Len(snaps') = n - 1 /\ n - 1 \in Nat
      /\ \A k \in 1..(n - 1) : snaps'[k] = snaps[k + 1]
  <2>1. snaps' = Tail(snaps)
    BY <1>1 DEF JobEnds
  <2>2. n - 1 \in Nat
    BY <1>2
  <2>3. Len(Tail(snaps)) = n - 1 /\ \A k \in 1..(n - 1) : Tail(snaps)[k] = snaps[k + 1]
    BY <1>2, <1>3, HeadTailProperties
  <2>4. QED
    BY <2>1, <2>2, <2>3
<1>7. queue' = queue /\ ~busy' /\ store' = store
  BY <1>1 DEF JobEnds
<1>8. ASSUME NEW k \in 1..(n - 1)
      PROVE  Before(k)' = Before(k + 1) /\ Batch(k)' = Batch(k + 1)
  <2>1. k # 1 => k - 1 \in 1..(n - 1)
    BY <1>2
  <2>2. k # 1 => snaps'[k - 1] = snaps[k]
    BY <1>2, <1>6, <2>1
  <2>3. Before(k)' = Before(k + 1)
    BY <1>1, <1>5, <2>2 DEF Before
  <2>4. Batch(k)' = Batch(k + 1)
    BY <1>1, <1>7 DEF Batch
  <2>5. QED
    BY <2>3, <2>4
<1>9. WaitingChained'
  <2> SUFFICES ASSUME NEW k \in 1..(n - 1), NEW id \in Ids
               PROVE  Leads(Before(k)', Batch(k)', snaps'[k], id)
    BY <1>6 DEF WaitingChained
  <2>1. k + 1 \in 1..n
    BY <1>2
  <2>2. Leads(Before(k + 1), Batch(k + 1), snaps[k + 1], id)
    BY <1>2, <2>1 DEF WaitingChained
  <2>3. QED
    BY <1>6, <1>8, <2>2
<1>10. NewestCommit' = NewestCommit
  <2>1. CASE n = 1
    <3>1. snaps' = <<>>
      BY <1>2, <1>6, <2>1, EmptySeq
    <3>2. QED
      BY <1>1, <1>2, <1>3, <1>5, <2>1, <3>1 DEF NewestCommit
  <2>2. CASE n # 1
    <3>1. n - 1 \in 1..(n - 1) /\ snaps' # <<>>
      BY <1>2, <1>6, <2>2
    <3>2. snaps'[n - 1] = snaps[n]
      BY <1>2, <1>6, <3>1
    <3>3. QED
      BY <1>2, <1>3, <1>6, <3>1, <3>2 DEF NewestCommit
  <2>3. QED
    BY <2>1, <2>2
<1>11. PendingChained'
  <2>1. UNCHANGED <<changes, new, deleted, store>>
    BY <1>7 DEF CommitRecords, memory
  <2>2. QED
    BY <1>10, <2>1 DEF PendingChained, Pending
<1>12. QED
  BY <1>3, <1>5, <1>9, <1>11

-----------------------------------------------------------------------------
(* The invariant.                                                          *)
LEMMA IInvInit == Init => IInv
<1> SUFFICES ASSUME Init PROVE IInv
  OBVIOUS
<1>1. Typed
  BY TypedInit
<1>2. WaitingChained
  BY DEF Init, WaitingChained
<1>3. PendingChained
  BY LeadsNowhere DEF Init, PendingChained, NewestCommit, Pending
<1>4. QED
  BY <1>1, <1>2, <1>3 DEF IInv, Calling, Init

LEMMA ChainsNext ==
    ASSUME Typed, WaitingChained, PendingChained, [Next]_vars, faults' = 0
    PROVE  WaitingChained' /\ PendingChained'
<1>1. CASE \E id \in Ids : Get(id)
  BY <1>1, WaitingKept, PendingKept DEF Get, memory, committer, history
<1>2. CASE \E id \in Ids : Delete(id)
  BY <1>2, WaitingKept, DeleteKeepsPending DEF Delete, committer
<1>3. CASE \E id \in Ids, doc \in InsertDocs : Insert(id, doc)
  BY <1>3, WaitingKept, InsertKeepsPending DEF Insert, committer
<1>4. CASE \E id \in Ids, entry \in Updates : Update(id, entry)
  BY <1>4, WaitingKept, UpdateKeepsPending DEF Update, committer
<1>5. CASE \E wait \in BOOLEAN : CommitChanges(wait)
  <2>1. PICK wait \in BOOLEAN : CommitChanges(wait)
    BY <1>5
  <2>2. UNCHANGED <<busy, job, disk>>
    BY <2>1 DEF CommitChanges
  <2>3. CASE Submit(wait)
    BY <2>2, <2>3, SubmitKeepsChains
  <2>4. CASE UNCHANGED <<memory, queue, history>>
    BY <2>2, <2>4, WaitingKept, PendingKept DEF memory, history
  <2>5. QED
    BY <2>1, <2>3, <2>4 DEF CommitChanges
<1>6. CASE ClearChanges
  <2>1. WaitingChained'
    BY <1>6, WaitingKept DEF ClearChanges, committer
  <2>2. /\ changes' = NoChanges /\ deleted' = {} /\ store' = NewestCommit
        /\ UNCHANGED <<disk, snaps>>
    BY <1>6 DEF ClearChanges
  <2>3. NewestCommit' = NewestCommit
    BY <2>2 DEF NewestCommit
  <2>4. PendingChained'
    BY <2>2, <2>3, LeadsNowhere DEF PendingChained, Pending
  <2>5. QED
    BY <2>1, <2>4
<1>7. CASE \E id \in Ids : GetRecord(id)
  BY <1>7, WaitingKept, PendingKept DEF GetRecord, memory, committer, history
<1>8. CASE CommitAfterWait
  BY <1>8, SubmitKeepsChains DEF CommitAfterWait
<1>9. CASE FlushDone
  BY <1>9, WaitingKept, PendingKept DEF FlushDone, memory, committer, history
<1>10. CASE StartJob
  <2>1. UNCHANGED <<memory, disk, history>>
    BY <1>10 DEF StartJob
  <2>2. QED
    BY <1>10, <2>1, StartKeepsWaiting, PendingKept DEF memory, history
<1>11. CASE CommitRecords
  BY <1>11, CommitKeepsChains
<1>12. CASE JobRefused
  BY <1>12, JobFacts DEF JobRefused
<1>13. CASE StorageError
  BY <1>13 DEF StorageError, Typed, TypeOK
<1>14. CASE \E id \in Ids : EndWrite(id)
  BY <1>14, WriteKeepsChains
<1>19. CASE \E id \in Ids : BeginWrite(id)
  BY <1>19, WaitingKept, PendingKept DEF BeginWrite, memory, history
<1>15. CASE \E id \in Ids : DeleteRecord(id)
  BY <1>15, DeleteKeepsChains
<1>16. CASE Crash
  <2>1. /\ changes' = NoChanges /\ deleted' = {} /\ snaps' = <<>>
        /\ store' = disk'
    BY <1>16 DEF Crash
  <2>2. WaitingChained'
    BY <2>1 DEF WaitingChained
  <2>3. NewestCommit' = store'
    BY <2>1 DEF NewestCommit
  <2>4. PendingChained'
    BY <2>1, <2>3, LeadsNowhere DEF PendingChained, Pending
  <2>5. QED
    BY <2>2, <2>4
<1>17. CASE UNCHANGED vars
  BY <1>17, WaitingKept, PendingKept DEF vars, memory, committer, history
<1>18. QED
  BY <1>1, <1>2, <1>3, <1>4, <1>5, <1>6, <1>7, <1>8, <1>9, <1>10, <1>11, <1>12, <1>13,
     <1>14, <1>15, <1>16, <1>17, <1>19 DEF Next, CallStarts, CallReturns, CommitThread

(* A call that waits finds the memory as it left it.                       *)
LEMMA CallsNext ==
    ASSUME Typed, Calling, [Next]_vars
    PROVE  Calling'
<1>1. CASE \E id \in Ids : Get(id)
  <2>1. PICK id \in Ids : Get(id)
    BY <1>1
  <2>2. UNCHANGED memory
    BY <2>1 DEF Get
  <2>3. call' = "none" \/ (call' = "get" /\ asked' = {id} /\ id \notin new \cup deleted)
    BY <2>1 DEF Get, caller
  <2>4. QED
    BY <2>2, <2>3 DEF Calling, memory
<1>2. CASE \E id \in Ids : Delete(id)
  BY <1>2 DEF Delete, Calling, caller
<1>3. CASE \E id \in Ids, doc \in InsertDocs : Insert(id, doc)
  BY <1>3 DEF Insert, Calling, caller
<1>4. CASE \E id \in Ids, entry \in Updates : Update(id, entry)
  BY <1>4 DEF Update, Calling, caller
<1>5. ASSUME NEW wait, Submit(wait)
      PROVE  Calling'
  BY <1>5 DEF Submit, Calling, NothingToCommit
<1>6. CASE \E wait \in BOOLEAN : CommitChanges(wait)
  <2>1. PICK wait \in BOOLEAN : CommitChanges(wait)
    BY <1>6
  <2>2. CASE Submit(wait)
    BY <2>2, <1>5
  <2>3. CASE NothingToCommit /\ UNCHANGED memory /\ call' \in {"none", "flush"}
    BY <2>3 DEF Calling, NothingToCommit, memory
  <2>4. CASE call' \in {"full", "fullFlush"}
    BY <2>4 DEF Calling
  <2>5. QED
    BY <2>1, <2>2, <2>3, <2>4 DEF CommitChanges
<1>7. CASE ClearChanges
  BY <1>7 DEF ClearChanges, Calling, caller
<1>8. CASE CommitAfterWait
  BY <1>5, <1>8 DEF CommitAfterWait
<1>9. CASE (\E id \in Ids : GetRecord(id)) \/ FlushDone \/ Crash
  BY <1>9 DEF GetRecord, FlushDone, Crash, Calling
<1>10. ASSUME UNCHANGED <<memory, caller>>
       PROVE  Calling'
  BY <1>10 DEF Calling, NothingToCommit, memory, caller
<1>11. CASE StartJob \/ CommitRecords \/ JobRefused \/ StorageError
  BY <1>10, <1>11 DEF StartJob, CommitRecords, JobRefused, StorageError
<1>12. CASE \E id \in Ids : BeginWrite(id) \/ EndWrite(id) \/ DeleteRecord(id)
  BY <1>10, <1>12 DEF BeginWrite, EndWrite, DeleteRecord
<1>13. CASE UNCHANGED vars
  BY <1>10, <1>13 DEF vars
<1>14. QED
  BY <1>1, <1>2, <1>3, <1>4, <1>6, <1>7, <1>8, <1>9, <1>11, <1>12, <1>13
     DEF Next, CallStarts, CallReturns, CommitThread

(* Errors are only counted up.                                             *)
LEMMA FaultsStay ==
    ASSUME Typed, [Next]_vars
    PROVE  faults' = faults \/ faults' > 0
BY DEF Typed, TypeOK, Next, CallStarts, CallReturns, CommitThread, vars, Get, Delete, Insert, Update,
       CommitChanges, ClearChanges, GetRecord, CommitAfterWait, FlushDone, StartJob, CommitRecords,
       JobRefused, BeginWrite, EndWrite, DeleteRecord, StorageError, Crash

LEMMA IInvNext == IInv /\ [Next]_vars => IInv'
<1> SUFFICES ASSUME IInv, [Next]_vars PROVE IInv'
  OBVIOUS
<1>1. Typed' /\ Calling'
  BY TypedNext, CallsNext DEF IInv
<1>2. ASSUME faults' = 0
      PROVE  WaitingChained' /\ PendingChained'
  <2>1. faults = 0
    BY <1>2, FaultsStay DEF IInv
  <2>2. QED
    BY <1>2, <2>1, ChainsNext DEF IInv
<1>3. QED
  BY <1>1, <1>2 DEF IInv

LEMMA IInvAlways == Spec => []IInv
BY IInvInit, IInvNext, PTL DEF Spec

-----------------------------------------------------------------------------
(* No batch is refused by the storage before its first error.              *)
THEOREM NeverRefusedTheorem == Spec => []NeverRefused
<1>1. IInv => NeverRefused
  BY JobFacts DEF IInv, NeverRefused
<1>2. QED
  BY <1>1, IInvAlways, PTL

(* CommitChanges(true) returns with everything in the storage.             *)
THEOREM FlushSavesTheorem == Spec => FlushSaves
<1>1. ASSUME IInv, [Next]_vars
      PROVE  [faults = 0 /\ call = "flush" /\ call' = "none" /\ crashes' = crashes => disk = store]_vars
  <2> SUFFICES ASSUME faults = 0, call = "flush", call' = "none", crashes' = crashes
               PROVE  disk = store
    OBVIOUS
  <2>1. Typed /\ PendingChained /\ NothingToCommit
    BY <1>1 DEF IInv, Calling
  <2>2. FlushDone
    BY <1>1, <2>1 DEF Typed, TypeOK, Next, CallStarts, CallReturns, CommitThread, vars, caller, Get,
       Delete, Insert, Update, CommitChanges, ClearChanges, GetRecord, CommitAfterWait, StartJob,
       CommitRecords, JobRefused, BeginWrite, EndWrite, DeleteRecord, StorageError, Crash
  <2>3. NewestCommit = disk
    BY <2>1, <2>2, DrainedIsStored DEF FlushDone
  <2>4. \A id \in Ids : store[id] = disk[id]
    BY <2>1, <2>3, PendingFacts DEF NothingToCommit, NoChanges
  <2>5. QED
    BY <2>1, <2>4 DEF Typed, TypeOK, Stores
<1>2. QED
  BY <1>1, IInvAlways, PTL DEF Spec, FlushSaves

-----------------------------------------------------------------------------
(* The records as the data base answers and stores them.                   *)
LEMMA StepMaps ==
    ASSUME IInv, [Next]_vars, ~(faults' > 0)
    PROVE  (Records!Next /\ UNCHANGED (faults > 0)) \/ UNCHANGED Records!vars
<1>1. Typed /\ Calling /\ WaitingChained /\ PendingChained /\ faults = 0 /\ faults' = 0
  BY FaultsStay DEF IInv, Typed, TypeOK
<1>r. ASSUME NoAnswer
      PROVE  reply' = Records!NoReply
  BY <1>r DEF NoAnswer, NoReply, Records!NoReply
<1>2. ASSUME NoAnswer, UNCHANGED <<store, snaps, disk>>
      PROVE  Records!Next
  BY <1>r, <1>2 DEF Records!Next, Records!Forget
<1>3. ASSUME Records!Next
      PROVE  Records!Next /\ UNCHANGED (faults > 0)
  BY <1>1, <1>3
<1>4. CASE \E id \in Ids : Get(id)
  <2>1. PICK id \in Ids : Get(id)
    BY <1>4
  <2>2. UNCHANGED <<store, snaps, disk>>
    BY <2>1 DEF Get, history
  <2>3. CASE id \in deleted \cup new
    <3>1. reply' = [id |-> {id}, doc |-> IF id \in deleted THEN Empty ELSE changes[id]]
      BY <2>1, <2>3 DEF Get
    <3>2. id \in deleted => store[id] = Empty
      BY <1>1, PendingFacts
    <3>3. ASSUME id \notin deleted
          PROVE  store[id] = changes[id]
      <4>1. id \in new /\ changes[id] # NoDoc
        BY <1>1, <2>3, <3>3 DEF Typed
      <4>2. NewestCommit[id] = Empty /\ changes[id] \in Docs /\ store[id] = Merge(Empty, changes[id])
        BY <1>1, <3>3, <4>1, PendingFacts
      <4>3. QED
        BY <4>2, MergeIntoEmpty
    <3>a. store[id] # Torn
      BY <1>1, <2>3, <3>2, <3>3, EmptyType, ValuesAssumption DEF Typed, TypeOK
    <3>4. Records!Read(id)
      BY <2>2, <3>1, <3>2, <3>3, <3>a DEF Records!Read
    <3>5. QED
      BY <1>3, <3>4 DEF Records!Next
  <2>4. CASE id \notin deleted \cup new
    BY <1>2, <1>3, <2>1, <2>2, <2>4 DEF Get
  <2>5. QED
    BY <2>3, <2>4
<1>5. ASSUME NEW id \in Ids, NEW doc \in Docs, store' = [store EXCEPT ![id] = doc],
             NoAnswer, UNCHANGED <<snaps, disk>>
      PROVE  Records!Next
  BY <1>r, <1>5 DEF Records!Next, Records!Write
<1>6. CASE \E id \in Ids : Delete(id)
  BY <1>3, <1>5, <1>6, EmptyType DEF Delete
<1>7. CASE \E id \in Ids, doc \in InsertDocs : Insert(id, doc)
  BY <1>3, <1>5, <1>7, InsertDocsAssumption DEF Insert
<1>8. CASE \E id \in Ids, entry \in Updates : Update(id, entry)
  <2>1. PICK id \in Ids, entry \in Updates : Update(id, entry)
    BY <1>8
  <2> DEFINE k == entry[1]
             v == entry[2]
  <2>a. k \in Keys /\ v \in Vals
    BY UpdatesAssumption
  <2>b. store[id] \in Docs
    BY <1>1, <2>1 DEF Update, Legal, Typed, TypeOK, Stores
  <2>2. [store[id] EXCEPT ![k] = v] \in Docs
    BY <2>a, <2>b DEF Docs
  <2>3. /\ store' = [store EXCEPT ![id] = [store[id] EXCEPT ![k] = v]]
        /\ NoAnswer /\ UNCHANGED <<snaps, disk>>
    BY <2>1 DEF Update
  <2>4. QED
    BY <1>3, <1>5, <2>2, <2>3
<1>9. ASSUME NEW wait, Submit(wait), NoAnswer, UNCHANGED disk
      PROVE  Records!Next
  BY <1>r, <1>9 DEF Submit, Records!Next, Records!Commit
<1>10. CASE \E wait \in BOOLEAN : CommitChanges(wait)
  <2>1. PICK wait \in BOOLEAN : CommitChanges(wait)
    BY <1>10
  <2>2. NoAnswer /\ UNCHANGED disk /\ (Submit(wait) \/ UNCHANGED history)
    BY <2>1 DEF CommitChanges
  <2>3. QED
    BY <1>2, <1>3, <1>9, <2>2 DEF history
<1>11. CASE ClearChanges
  <2>1. Records!Abandon
    BY <1>r, <1>11 DEF ClearChanges, NewestCommit, Records!Abandon, Records!NewestCommit
  <2>2. QED
    BY <1>3, <2>1 DEF Records!Next
<1>12. CASE \E id \in Ids : GetRecord(id)
  <2>1. PICK id \in Ids : GetRecord(id)
    BY <1>12
  <2>2. id \notin new \cup deleted /\ NewestCommit = disk
    BY <1>1, <2>1, DrainedIsStored DEF GetRecord, Calling
  <2>3. UNCHANGED <<store, snaps, disk>>
    BY <2>1 DEF GetRecord, history
  <2>4. CASE disk[id] = Torn
    BY <1>2, <1>3, <2>1, <2>3, <2>4 DEF GetRecord, NoAnswer
  <2>5. CASE disk[id] # Torn
    <3>1. store[id] = Merge(disk[id], changes[id])
      BY <1>1, <2>2, PendingFacts
    <3>2. Merge(disk[id], changes[id]) \in Docs
      BY <1>1, <2>5, MergeType DEF Typed, TypeOK, Stores
    <3>3. Records!Read(id)
      BY <2>1, <2>3, <2>5, <3>1, <3>2, ValuesAssumption DEF GetRecord, Records!Read
    <3>4. QED
      BY <1>3, <3>3 DEF Records!Next
  <2>6. QED
    BY <2>4, <2>5
<1>13. CASE CommitAfterWait
  BY <1>3, <1>9, <1>13 DEF CommitAfterWait
<1>14. CASE FlushDone
  BY <1>2, <1>3, <1>14 DEF FlushDone, history
<1>15. CASE StartJob
  BY <1>2, <1>3, <1>15 DEF StartJob, history
<1>16. CASE CommitRecords
  <2>1. snaps # <<>> /\ disk = Head(snaps)
    BY <1>1, <1>16, CommitKeepsChains
  <2>2. Records!Stored
    BY <1>r, <1>16, <2>1 DEF CommitRecords, JobEnds, Records!Stored
  <2>3. QED
    BY <1>3, <2>2 DEF Records!Next
<1>17. CASE JobRefused
  BY <1>1, <1>17, JobFacts DEF JobRefused
<1>18. CASE StorageError
  BY <1>1, <1>18 DEF StorageError
<1>19. ASSUME NEW id \in Ids, EndWrite(id) \/ DeleteRecord(id)
       PROVE  Records!Next
  <2>1. busy /\ disk'[id] = snaps[1][id]
    BY <1>1, <1>19, WriteKeepsChains, DeleteKeepsChains DEF DeleteRecord
  <2>2. snaps # <<>> /\ snaps \in Seq(Stores)
    BY <1>1, <2>1, JobFacts DEF Typed, TypeOK
  <2>3. disk' = [disk EXCEPT ![id] = disk'[id]] /\ NoAnswer /\ UNCHANGED <<store, snaps>>
    BY <1>1, <1>19 DEF EndWrite, DeleteRecord, history, Typed, TypeOK, Stores
  <2>4. Records!StoreRecord(id)
    BY <1>r, <2>2, <2>1, <2>3 DEF Records!StoreRecord
  <2>5. QED
    BY <2>4 DEF Records!Next
<1>20. CASE Crash
  <2>1. /\ store' = disk' /\ disk' = DiskNow /\ snaps' = <<>> /\ reply' = Records!NoReply
    BY <1>r, <1>20 DEF Crash
  <2>2. CASE open = {}
    <3>1. disk' = disk
      BY <1>1, <2>1, <2>2 DEF DiskNow, Typed, TypeOK, Stores
    <3>2. Records!CleanCrash
      BY <2>1, <3>1 DEF Records!CleanCrash
    <3>3. QED
      BY <1>3, <3>2 DEF Records!Next
  <2>3. CASE open # {}
    <3>1. PICK id \in open : TRUE
      BY <2>3
    <3>2. id \in Ids /\ open = {id} /\ snaps # <<>> /\ Head(snaps)[id] # Empty
      BY <1>1, OpenedFacts
    <3>3. disk' = [disk EXCEPT ![id] = Torn]
      BY <1>1, <2>1, <3>2 DEF DiskNow, Typed, TypeOK, Stores
    <3>4. Records!TornCrash(id)
      BY <2>1, <3>2, <3>3 DEF Records!TornCrash
    <3>5. QED
      BY <1>3, <3>2, <3>4 DEF Records!Next
  <2>4. QED
    BY <2>2, <2>3
<1>23. CASE \E id \in Ids : BeginWrite(id)
  BY <1>2, <1>3, <1>23 DEF BeginWrite, history
<1>21. CASE UNCHANGED vars
  BY <1>21 DEF vars, history, Records!vars
<1>22. QED
  BY <1>3, <1>4, <1>6, <1>7, <1>8, <1>10, <1>11, <1>12, <1>13, <1>14, <1>15, <1>16, <1>17,
     <1>18, <1>19, <1>20, <1>21, <1>23 DEF Next, CallStarts, CallReturns, CommitThread

(* The data base implements the record store: reads see all earlier        *)
(* writes, commits are stored in order and record by record, and a crash   *)
(* leaves what the record store allows.                                    *)
THEOREM RefinementTheorem == Spec => StoreSpec
<1>1. Init => Records!Init
  BY DEF Init, NoReply, Records!Init, Records!NoReply
<1>2. IInv /\ [Next]_vars => [(faults > 0)' \/ (Records!Next /\ UNCHANGED (faults > 0))]_(Records!vars)
  BY StepMaps
<1>3. QED
  BY <1>1, <1>2, IInvAlways, PTL DEF Spec, StoreSpec, Records!Spec
=============================================================================
