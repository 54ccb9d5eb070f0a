------------------------------ MODULE DataBase ------------------------------
(***************************************************************************)
(* The write-behind data base of the server (Source/Server/DataBase.cpp):  *)
(* DataBase and DataBaseImpl, used by one thread, the commit thread that   *)
(* applies batches of changes, and a storage behind GetRecord,             *)
(* InsertRecord, UpdateRecord and DeleteRecord (DbJson, DbUnQLite and      *)
(* DbMemory; all three refuse to insert an existing record and to update a *)
(* missing one).  DbJson empties the file of a record and writes it anew:  *)
(* a record may be torn when the process dies or the storage fails.        *)
(*                                                                         *)
(* The commit thread is a WorkThread.  What this module uses of it is what *)
(* WorkThread.tla establishes: jobs added with no delay run one at a time  *)
(* in the order in which they were added, a job that throws is dropped,    *)
(* and Wait returns when the list is empty and no job runs.                *)
(***************************************************************************)
EXTENDS Naturals, Sequences, FiniteSets

CONSTANTS Ids,            \* the records: <<collection_name, id>>
          Keys,           \* the keys of a document
          Vals,           \* the values of a key
          Absent,         \* the key is not in the document
          NoDoc,          \* _recordChanges has no entry for the record
          Torn,           \* the file of the record is empty or ends too soon
          InsertDocs,     \* the documents callers insert
          Updates,        \* what callers update: <<key, value>>
          MaxCommitJobs,  \* Settings.DataBaseMaxCommitJobs, 0: no limit
          MaxBatches,     \* bound of the jobs in the commit thread's list
          MaxFaults,      \* bound of the storage errors
          MaxCrashes      \* bound of the crashes of the process

Docs == [Keys -> Vals \cup {Absent}]
Empty == [k \in Keys |-> Absent]

ASSUME ValuesAssumption == Absent \notin Vals /\ {NoDoc, Torn} \cap Docs = {} /\ NoDoc # Torn
(* A record that is inserted has a value: the storage does not tell an     *)
(* empty document from no document.                                        *)
ASSUME InsertDocsAssumption == InsertDocs \subseteq Docs \ {Empty}
ASSUME UpdatesAssumption == Updates \subseteq Keys \X Vals
ASSUME BoundsAssumption == {MaxCommitJobs, MaxBatches, MaxFaults, MaxCrashes} \subseteq Nat

VARIABLES
    changes,   \* _recordChanges
    new,       \* _newRecords
    deleted,   \* _deletedRecords
    queue,     \* the jobs in the commit thread's list
    busy,      \* the commit thread runs a job
    job,       \* the batch the job has captured, less what it has applied
    open,      \* the record whose file is empty and about to be written again
    disk,      \* the records in the storage, that one as it was before
    call,      \* the call in which the main thread waits, or "none"
    asked,     \* the record that Get waits for
    reply,     \* the answer of the Get that has just returned
    faults,    \* the number of storage errors so far
    crashes,   \* the number of crashes so far
    store,     \* history: the records as the calls made so far define them
    snaps      \* history: store at each commit that is not applied yet

memory == <<changes, new, deleted>>
committer == <<queue, busy, job, open>>
caller == <<call, asked>>
history == <<store, snaps>>
vars == <<memory, committer, disk, caller, reply, faults, crashes, history>>

NoChanges == [id \in Ids |-> NoDoc]
NoBatch == [changes |-> NoChanges, new |-> {}, deleted |-> {}]
NoReply == [id |-> {}, doc |-> Empty]

Init ==
    /\ changes = NoChanges /\ new = {} /\ deleted = {}
    /\ queue = <<>> /\ busy = FALSE /\ job = NoBatch /\ open = {}
    /\ disk = [id \in Ids |-> Empty]
    /\ call = "none" /\ asked = {} /\ reply = NoReply
    /\ faults = 0 /\ crashes = 0
    /\ store = disk /\ snaps = <<>>

-----------------------------------------------------------------------------
(* for (auto&& [key, value] : over) doc[key] = value.                      *)
Merge(doc, over) ==
    IF over = NoDoc THEN doc
    ELSE [k \in Keys |-> IF over[k] = Absent THEN doc[k] ELSE over[k]]

(* _commitThread.GetJobsCount()                                            *)
JobsCount == Len(queue) + (IF busy THEN 1 ELSE 0)

(* Where _commitThread.Wait() returns.                                     *)
Drained == JobsCount = 0

NewestCommit == IF snaps = <<>> THEN disk ELSE snaps[Len(snaps)]

(* Any step but the return of a Get.                                       *)
NoAnswer == reply' = NoReply

(* A record the callers know of.  They insert only records that do not     *)
(* exist, and update and delete only records that do; a record that was    *)
(* torn in an earlier life of the server cannot be read and stays alone.   *)
Exists(id) == store[id] # Empty \/ id \in new
Legal(id) == Exists(id) /\ store[id] # Torn

-----------------------------------------------------------------------------
(* The calls of the main thread.                                           *)

Get_DeletedFromChanges(id) ==
    /\ call = "none"
    /\ IF id \in deleted \cup new
       THEN reply' = [id |-> {id}, doc |-> changes[id]] /\ UNCHANGED caller
       ELSE call' = "get" /\ asked' = {id} /\ NoAnswer
    /\ UNCHANGED <<memory, committer, disk, faults, crashes, history>>

Get_IgnoresDeleted(id) ==
    /\ call = "none"
    /\ IF id \in new
       THEN reply' = [id |-> {id}, doc |-> changes[id]] /\ UNCHANGED caller
       ELSE call' = "get" /\ asked' = {id} /\ NoAnswer
    /\ UNCHANGED <<memory, committer, disk, faults, crashes, history>>

(* Get: a deleted or new record is answered from memory, for any other the *)
(* commit thread has to be drained first.                                  *)
Get(id) ==
    /\ call = "none"
    /\ IF id \in deleted \cup new
       THEN /\ reply' = [id |-> {id}, doc |-> IF id \in deleted THEN Empty ELSE changes[id]]
            /\ UNCHANGED caller
       ELSE call' = "get" /\ asked' = {id} /\ NoAnswer
    /\ UNCHANGED <<memory, committer, disk, faults, crashes, history>>

GetRecord_IgnoresChanges(id) ==
    /\ call = "get" /\ asked = {id}
    /\ Drained
    /\ reply' = IF disk[id] = Torn THEN NoReply ELSE [id |-> {id}, doc |-> disk[id]]
    /\ call' = "none" /\ asked' = {}
    /\ UNCHANGED <<memory, committer, disk, faults, crashes, history>>

(* The storage is read when the commit thread has nothing left to do; a    *)
(* torn record makes the call end with an exception.                       *)
GetRecord(id) ==
    /\ call = "get" /\ asked = {id}
    /\ Drained
    /\ reply' = IF disk[id] = Torn THEN NoReply ELSE [id |-> {id}, doc |-> Merge(disk[id], changes[id])]
    /\ call' = "none" /\ asked' = {}
    /\ UNCHANGED <<memory, committer, disk, faults, crashes, history>>

Insert(id, doc) ==
    /\ call = "none"
    /\ ~Exists(id)
    /\ id \notin new \cup deleted
    /\ new' = new \cup {id}
    /\ changes' = [changes EXCEPT ![id] = Merge(IF @ = NoDoc THEN Empty ELSE @, doc)]
    /\ store' = [store EXCEPT ![id] = doc]
    /\ NoAnswer
    /\ UNCHANGED <<deleted, committer, disk, caller, faults, crashes, snaps>>

Update_OneKey(id, entry) ==
    /\ call = "none"
    /\ Legal(id)
    /\ id \notin deleted
    /\ changes' = [changes EXCEPT ![id] = [Empty EXCEPT ![entry[1]] = entry[2]]]
    /\ store' = [store EXCEPT ![id][entry[1]] = entry[2]]
    /\ NoAnswer
    /\ UNCHANGED <<new, deleted, committer, disk, caller, faults, crashes, snaps>>

Update(id, entry) ==
    /\ call = "none"
    /\ Legal(id)
    /\ id \notin deleted
    /\ changes' = [changes EXCEPT ![id] = [IF @ = NoDoc THEN Empty ELSE @ EXCEPT ![entry[1]] = entry[2]]]
    /\ store' = [store EXCEPT ![id][entry[1]] = entry[2]]
    /\ NoAnswer
    /\ UNCHANGED <<new, deleted, committer, disk, caller, faults, crashes, snaps>>

Delete_KeepsNew(id) ==
    /\ call = "none"
    /\ Legal(id)
    /\ id \notin deleted
    /\ deleted' = deleted \cup {id}
    /\ changes' = [changes EXCEPT ![id] = NoDoc]
    /\ store' = [store EXCEPT ![id] = Empty]
    /\ NoAnswer
    /\ UNCHANGED <<new, committer, disk, caller, faults, crashes, snaps>>

(* Delete: a record the storage has never seen is only forgotten.          *)
Delete(id) ==
    /\ call = "none"
    /\ Legal(id)
    /\ id \notin deleted
    /\ IF id \in new
       THEN new' = new \ {id} /\ UNCHANGED deleted
       ELSE deleted' = deleted \cup {id} /\ UNCHANGED new
    /\ changes' = [changes EXCEPT ![id] = NoDoc]
    /\ store' = [store EXCEPT ![id] = Empty]
    /\ NoAnswer
    /\ UNCHANGED <<committer, disk, caller, faults, crashes, snaps>>

(* The end of CommitChanges: the batch moves into a job; with              *)
(* wait_commit_complete the call then waits for the commit thread.         *)
Submit(wait) ==
    /\ queue' = Append(queue, [changes |-> changes, new |-> new, deleted |-> deleted])
    /\ changes' = NoChanges /\ new' = {} /\ deleted' = {}
    /\ call' = IF wait THEN "flush" ELSE "none"
    /\ snaps' = Append(snaps, store)
    /\ UNCHANGED store

NothingToCommit == changes = NoChanges /\ new = {} /\ deleted = {}

CommitChanges(wait) ==
    /\ call = "none"
    /\ IF NothingToCommit
       THEN call' = (IF wait THEN "flush" ELSE "none") /\ UNCHANGED <<memory, queue, history>>
       ELSE IF MaxCommitJobs # 0 /\ JobsCount > MaxCommitJobs
       THEN call' = (IF wait THEN "fullFlush" ELSE "full") /\ UNCHANGED <<memory, queue, history>>
       ELSE Len(queue) < MaxBatches /\ Submit(wait)
    /\ NoAnswer
    /\ UNCHANGED <<busy, job, open, disk, asked, faults, crashes>>

(* "Too many commit jobs to data base, wait for it"                        *)
CommitAfterWait ==
    /\ call \in {"full", "fullFlush"}
    /\ Drained
    /\ Submit(call = "fullFlush")
    /\ NoAnswer
    /\ UNCHANGED <<busy, job, open, disk, asked, faults, crashes>>

FlushDone_NotWaiting ==
    /\ call = "flush"
    /\ queue = <<>>
    /\ call' = "none"
    /\ NoAnswer
    /\ UNCHANGED <<memory, committer, disk, asked, faults, crashes, history>>

(* WaitCommitThread.                                                       *)
FlushDone ==
    /\ call = "flush"
    /\ Drained
    /\ call' = "none"
    /\ NoAnswer
    /\ UNCHANGED <<memory, committer, disk, asked, faults, crashes, history>>

(* ClearChanges: the server could not be started.                          *)
ClearChanges ==
    /\ call = "none"
    /\ changes' = NoChanges /\ new' = {} /\ deleted' = {}
    /\ store' = NewestCommit
    /\ NoAnswer
    /\ UNCHANGED <<committer, disk, caller, faults, crashes, snaps>>

-----------------------------------------------------------------------------
(* The commit thread.                                                      *)

StartJob_Batched ==
    /\ ~busy
    /\ Len(queue) > 1
    /\ busy' = TRUE
    /\ job' = Head(queue)
    /\ queue' = Tail(queue)
    /\ NoAnswer
    /\ UNCHANGED <<memory, open, disk, caller, faults, crashes, history>>

StartJob ==
    /\ ~busy
    /\ queue # <<>>
    /\ busy' = TRUE
    /\ job' = Head(queue)
    /\ queue' = Tail(queue)
    /\ NoAnswer
    /\ UNCHANGED <<memory, open, disk, caller, faults, crashes, history>>

(* The job ends, well or by an exception that drops the rest of the batch. *)
JobEnds ==
    /\ busy' = FALSE
    /\ job' = NoBatch
    /\ open' = {}
    /\ snaps' = Tail(snaps)
    /\ UNCHANGED <<queue, store>>

(* InsertRecord and UpdateRecord accept the record.                        *)
Accepts(id) ==
    /\ job.changes[id] # Empty
    /\ id \in job.new <=> disk[id] = Empty
    /\ disk[id] # Torn

(* One round of the loop over the changes, which is in no fixed order: the *)
(* new contents are made from the old ones, the file is emptied, and then  *)
(* it is written.                                                          *)
BeginWrite(id) ==
    /\ busy /\ open = {}
    /\ job.changes[id] # NoDoc
    /\ Accepts(id)
    /\ open' = {id}
    /\ NoAnswer
    /\ UNCHANGED <<memory, queue, busy, job, disk, caller, faults, crashes, history>>

EndWrite(id) ==
    /\ id \in open
    /\ open' = {}
    /\ disk' = [disk EXCEPT ![id] = Merge(@, job.changes[id])]
    /\ job' = [job EXCEPT !.changes[id] = NoDoc]
    /\ NoAnswer
    /\ UNCHANGED <<memory, queue, busy, caller, faults, crashes, history>>

(* What is left of the storage if the writing ends here.                   *)
DiskNow == [id \in Ids |-> IF id \in open THEN Torn ELSE disk[id]]

(* One round of the loop over the deletions, after all the changes.        *)
DeleteRecord(id) ==
    /\ busy
    /\ job.changes = NoChanges
    /\ id \in job.deleted
    /\ disk[id] # Empty
    /\ disk' = [disk EXCEPT ![id] = Empty]
    /\ job' = [job EXCEPT !.deleted = @ \ {id}]
    /\ NoAnswer
    /\ UNCHANGED <<memory, queue, busy, open, caller, faults, crashes, history>>

CommitRecords ==
    /\ busy
    /\ job.changes = NoChanges
    /\ job.deleted = {}
    /\ JobEnds
    /\ NoAnswer
    /\ UNCHANGED <<memory, disk, caller, faults, crashes>>

(* An assertion or a check of the storage fails.                           *)
Refused(id) ==
    \/ job.changes[id] # NoDoc /\ ~Accepts(id)
    \/ job.changes = NoChanges /\ id \in job.deleted /\ disk[id] = Empty

JobRefused ==
    /\ busy /\ open = {}
    /\ \E id \in Ids : Refused(id)
    /\ JobEnds
    /\ NoAnswer
    /\ UNCHANGED <<memory, disk, caller, faults, crashes>>

(* The storage fails to read or write: DataBaseException.                  *)
StorageError ==
    /\ busy
    /\ faults < MaxFaults
    /\ faults' = faults + 1
    /\ disk' = DiskNow
    /\ JobEnds
    /\ NoAnswer
    /\ UNCHANGED <<memory, caller, crashes>>

-----------------------------------------------------------------------------
(* The process dies and starts again with what is in the storage.          *)
Crash ==
    /\ crashes < MaxCrashes
    /\ crashes' = crashes + 1
    /\ changes' = NoChanges /\ new' = {} /\ deleted' = {}
    /\ queue' = <<>> /\ busy' = FALSE /\ job' = NoBatch /\ open' = {}
    /\ call' = "none" /\ asked' = {}
    /\ disk' = DiskNow
    /\ store' = disk' /\ snaps' = <<>>
    /\ NoAnswer
    /\ UNCHANGED faults

-----------------------------------------------------------------------------
CallStarts ==
    \/ \E id \in Ids : Get(id) \/ Delete(id)
    \/ \E id \in Ids, doc \in InsertDocs : Insert(id, doc)
    \/ \E id \in Ids, entry \in Updates : Update(id, entry)
    \/ \E wait \in BOOLEAN : CommitChanges(wait)
    \/ ClearChanges

CallReturns == (\E id \in Ids : GetRecord(id)) \/ CommitAfterWait \/ FlushDone

CommitThread ==
    \/ StartJob \/ CommitRecords \/ JobRefused
    \/ \E id \in Ids : BeginWrite(id) \/ EndWrite(id) \/ DeleteRecord(id)

Next == CallStarts \/ CallReturns \/ CommitThread \/ StorageError \/ Crash

Spec == Init /\ [][Next]_vars

(* Both threads are scheduled; storage errors and crashes may never come.  *)
FairSpec == Spec /\ WF_vars(CommitThread) /\ WF_vars(CallReturns)

-----------------------------------------------------------------------------
(* Properties.                                                             *)

Batches == [changes : [Ids -> Docs \cup {NoDoc}], new : SUBSET Ids, deleted : SUBSET Ids]
Stores == [Ids -> Docs \cup {Torn}]

(* Type correctness of the pending changes, of the batches on their way to *)
(* the storage and of the records.                                         *)
TypeOK ==
    /\ changes \in [Ids -> Docs \cup {NoDoc}]
    /\ new \in SUBSET Ids /\ deleted \in SUBSET Ids
    /\ queue \in Seq(Batches)
    /\ busy \in BOOLEAN
    /\ job \in Batches
    /\ open \in SUBSET Ids
    /\ disk \in Stores
    /\ call \in {"none", "get", "full", "fullFlush", "flush"}
    /\ asked \in SUBSET Ids
    /\ reply \in [id : SUBSET Ids, doc : Docs]
    /\ faults \in 0..MaxFaults /\ crashes \in 0..MaxCrashes
    /\ store \in Stores
    /\ snaps \in Seq(Stores)

(* The main thread reads its own writes wherever they are (in the pending  *)
(* changes, in a waiting batch, in the batch being applied, in the         *)
(* storage); batches reach the storage in order; a crash mixes at most two *)
(* neighbouring commits and tears at most the record that was being        *)
(* written.  The promise ends with the first storage error.                *)
Records == INSTANCE RecordStore WITH failed <- faults > 0
StoreSpec == Records!Spec

(* Legal calls never make a commit job throw: what the batches say of a    *)
(* record (new, changed, deleted) agrees with the storage by the time they *)
(* are applied, after crashes as well.  The assertions of InsertRecord,    *)
(* UpdateRecord and DeleteRecord hold until the first storage error drops  *)
(* the rest of a batch.                                                    *)
NeverRefused == busy /\ faults = 0 => \A id \in Ids : ~Refused(id)

(* CommitChanges(true) returns only when the storage holds everything the  *)
(* main thread has written, if the storage never failed: this is what      *)
(* ~FOServer relies on.                                                    *)
FlushSaves ==
    [][faults = 0 /\ call = "flush" /\ call' = "none" /\ crashes' = crashes => disk = store]_vars

(* Get and CommitChanges return, storage errors or not.                    *)
CallsReturn == call # "none" ~> call = "none"
=============================================================================
