---------------------------- MODULE RecordStore ----------------------------
(***************************************************************************)
(* What the server may rely on when it uses the data base: reads see every *)
(* earlier write at once, committed states reach the storage in the order  *)
(* of the commits and record by record, and a crash of the process leaves  *)
(* a storage in which every record is either as in the last commit that    *)
(* was stored completely or as in the next one - except that the one       *)
(* record that was being written may be torn: no document can be read from *)
(* it then.  All of this until the storage reports its first error.        *)
(***************************************************************************)
EXTENDS Sequences

CONSTANTS Ids,      \* the records, <<collection, id>>
          Docs,     \* the documents a record may hold
          Empty,    \* the document of a record that does not exist
          Torn      \* what is left of a record in the middle of whose writing the process died

VARIABLES store,    \* the records as the server sees them
          snaps,    \* the committed states that are not stored yet, oldest first
          disk,     \* the records in the storage
          reply,    \* the answer to the read that has just been made
          failed    \* the storage has reported an error

vars == <<store, snaps, disk, reply, failed>>

NoReply == [id |-> {}, doc |-> Empty]
NewestCommit == IF snaps = <<>> THEN disk ELSE snaps[Len(snaps)]

Init == /\ store = [id \in Ids |-> Empty]
        /\ snaps = <<>>
        /\ disk = store
        /\ reply = NoReply
        /\ ~failed

Write(id, doc) == /\ store' = [store EXCEPT ![id] = doc]
                  /\ reply' = NoReply
                  /\ UNCHANGED <<snaps, disk>>

Read(id) == /\ store[id] # Torn
            /\ reply' = [id |-> {id}, doc |-> store[id]]
            /\ UNCHANGED <<store, snaps, disk>>

(* Any step that the server does not see.                                  *)
Forget == /\ reply' = NoReply
          /\ UNCHANGED <<store, snaps, disk>>

Commit == /\ snaps' = Append(snaps, store)
          /\ reply' = NoReply
          /\ UNCHANGED <<store, disk>>

Abandon == /\ store' = NewestCommit
           /\ reply' = NoReply
           /\ UNCHANGED <<snaps, disk>>

StoreRecord(id) == /\ snaps # <<>>
                   /\ disk' = [disk EXCEPT ![id] = Head(snaps)[id]]
                   /\ reply' = NoReply
                   /\ UNCHANGED <<store, snaps>>

Stored == /\ snaps # <<>>
          /\ disk = Head(snaps)
          /\ snaps' = Tail(snaps)
          /\ reply' = NoReply
          /\ UNCHANGED <<store, disk>>

CleanCrash == /\ store' = disk
              /\ snaps' = <<>>
              /\ reply' = NoReply
              /\ UNCHANGED disk

TornCrash(id) == /\ snaps # <<>>
                 /\ Head(snaps)[id] # Empty
                 /\ disk' = [disk EXCEPT ![id] = Torn]
                 /\ store' = disk'
                 /\ snaps' = <<>>
                 /\ reply' = NoReply

Next == \/ \E id \in Ids, doc \in Docs : Write(id, doc)
        \/ \E id \in Ids : Read(id) \/ StoreRecord(id) \/ TornCrash(id)
        \/ Forget \/ Commit \/ Abandon \/ Stored \/ CleanCrash

(* After an error nothing is promised any more.                            *)
Spec == Init /\ [][failed' \/ (Next /\ UNCHANGED failed)]_vars
=============================================================================
