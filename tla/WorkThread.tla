----------------------------- MODULE WorkThread -----------------------------
(***************************************************************************)
(* WorkThread (Source/Common/Common.h, Common.cpp): a worker thread that   *)
(* runs jobs from a list ordered by fire time, and the threads that call   *)
(* AddJob, Clear, Wait, SetExceptionHandler and the destructor.  The       *)
(* server has four of them (ServerStarter, ServerWorker,                   *)
(* ServerHealthWriter, DataBaseCommiter).                                  *)
(*                                                                         *)
(* A step is one critical section of _dataLocker, one notification outside *)
(* of it, or one run of a job.  _workSignal and _doneSignal are condition  *)
(* variables: a notification wakes only who already waits, and who waits   *)
(* may also wake up on its own.                                            *)
(***************************************************************************)
EXTENDS Naturals, SequencesExt

CONSTANTS Jobs,      \* the job objects, each handed to AddJob at most once
          Periodic,  \* the jobs that may answer with a delay and run again
          Clients,   \* the threads that call the object
          Delays,    \* the delays in use
          MaxTime,   \* bound of the clock
          NoJob      \* the worker's local "job" is empty

ASSUME JobsAssumption == /\ NoJob \notin Jobs
                         /\ Periodic \subseteq Jobs
ASSUME DelaysAssumption == /\ Delays \subseteq Nat
                           /\ 0 \in Delays
ASSUME MaxTimeAssumption == MaxTime \in Nat

VARIABLES
    now,        \* Timer::CurTime()
    jobs,       \* _jobs
    jobActive,  \* _jobActive
    clearJobs,  \* _clearJobs
    finish,     \* _finish
    handler,    \* _exceptionHandler: none, or what it returns when called
    wpc,        \* where the worker is in ThreadEntry
    wjob,       \* its local variable job
    wdelay,     \* its local variable next_call_delay
    cpc,        \* where each caller is
    fate,       \* history: what has become of each job
    addedBy,    \* history: the jobs each caller has added
    atCall      \* history: the jobs that were pending when Clear was called

object == <<jobs, jobActive, clearJobs, finish, handler>>
worker == <<wpc, wjob, wdelay>>
history == <<fate, addedBy, atCall>>
vars == <<now, object, worker, cpc, history>>

Entries == [job : Jobs, fire : Nat]
Pending == {j \in Jobs : fate[j] = "pending"}

Init ==
    /\ now = 0
    /\ jobs = <<>> /\ jobActive = FALSE /\ clearJobs = FALSE /\ finish = FALSE
    /\ handler = "none"
    /\ wpc = "top" /\ wjob = NoJob /\ wdelay = 0
    /\ cpc = [c \in Clients |-> "idle"]
    /\ fate = [j \in Jobs |-> "new"]
    /\ addedBy = [c \in Clients |-> {}]
    /\ atCall = [c \in Clients |-> {}]

-----------------------------------------------------------------------------
(* The list of jobs.                                                       *)

(* The position of the first entry of q that satisfies T.                  *)
FirstIn(q, T(_)) == CHOOSE k \in DOMAIN q : T(q[k]) /\ \A i \in 1..(k - 1) : ~T(q[i])

InsertJob_BeforeEquals(q, e) ==
    IF q = <<>> \/ e.fire > q[Len(q)].fire
    THEN Append(q, e)
    ELSE LET Later(x) == e.fire <= x.fire
         IN  InsertAt(q, FirstIn(q, Later), e)

InsertJob_AtBack(q, e) == Append(q, e)

(* AddJobInternal: at the back unless the last entry fires later, and then *)
(* in front of the first entry that fires later.                           *)
InsertJob(q, e) ==
    IF q = <<>> \/ e.fire >= q[Len(q)].fire
    THEN Append(q, e)
    ELSE LET Later(x) == e.fire < x.fire
         IN  InsertAt(q, FirstIn(q, Later), e)

(* notify_one on _workSignal: only the worker waits there.                 *)
NotifyWork == wpc' = IF wpc = "waiting" THEN "woken" ELSE wpc

(* notify_all on _doneSignal: Clear and Wait look at their condition again. *)
NotifyDone ==
    cpc' = [c \in Clients |-> CASE cpc[c] = "clearWait" -> "clearCheck"
                                [] cpc[c] = "waitWait" -> "waitCheck"
                                [] OTHER -> cpc[c]]

(* The history of the jobs in q when they are dropped unrun.               *)
Dropped(f, q) == [j \in Jobs |-> IF \E k \in DOMAIN q : q[k].job = j THEN "dropped" ELSE f[j]]

-----------------------------------------------------------------------------
(* The callers.                                                            *)

MayCall(c) == cpc[c] = "idle" /\ ~finish

(* AddJob, first half: the list is changed under the lock.                 *)
AddJob(c, j, d) ==
    /\ MayCall(c)
    /\ fate[j] = "new"
    /\ now + d <= MaxTime
    /\ jobs' = InsertJob(jobs, [job |-> j, fire |-> now + d])
    /\ cpc' = [cpc EXCEPT ![c] = "addNotify"]
    /\ fate' = [fate EXCEPT ![j] = "pending"]
    /\ addedBy' = [addedBy EXCEPT ![c] = @ \cup {j}]
    /\ UNCHANGED <<now, jobActive, clearJobs, finish, handler, worker, atCall>>

AddNotify_Lost(c) ==
    /\ cpc[c] = "addNotify"
    /\ cpc' = [cpc EXCEPT ![c] = "idle"]
    /\ UNCHANGED <<now, object, worker, history>>

(* AddJob, second half: the worker is notified without the lock.           *)
AddNotify(c) ==
    /\ cpc[c] = "addNotify"
    /\ NotifyWork
    /\ cpc' = [cpc EXCEPT ![c] = "idle"]
    /\ UNCHANGED <<now, object, wjob, wdelay, history>>

(* Clear: raise the flag, notify the worker, then wait for the flag to fall. *)
Clear(c) ==
    /\ MayCall(c)
    /\ clearJobs' = TRUE
    /\ cpc' = [cpc EXCEPT ![c] = "clearNotify"]
    /\ atCall' = [atCall EXCEPT ![c] = Pending]
    /\ UNCHANGED <<now, jobs, jobActive, finish, handler, worker, fate, addedBy>>

ClearNotify(c) ==
    /\ cpc[c] = "clearNotify"
    /\ NotifyWork
    /\ cpc' = [cpc EXCEPT ![c] = "clearCheck"]
    /\ UNCHANGED <<now, object, wjob, wdelay, history>>

ClearCheck(c) ==
    /\ cpc[c] = "clearCheck"
    /\ cpc' = [cpc EXCEPT ![c] = IF clearJobs THEN "clearWait" ELSE "idle"]
    /\ atCall' = [atCall EXCEPT ![c] = IF clearJobs THEN @ ELSE {}]
    /\ UNCHANGED <<now, object, worker, fate, addedBy>>

(* Wait: until the list is empty and no job runs.                          *)
Wait(c) ==
    /\ MayCall(c)
    /\ cpc' = [cpc EXCEPT ![c] = "waitCheck"]
    /\ UNCHANGED <<now, object, worker, history>>

WaitCheck_IgnoresActive(c) ==
    /\ cpc[c] = "waitCheck"
    /\ cpc' = [cpc EXCEPT ![c] = IF jobs # <<>> THEN "waitWait" ELSE "idle"]
    /\ UNCHANGED <<now, object, worker, history>>

WaitCheck(c) ==
    /\ cpc[c] = "waitCheck"
    /\ cpc' = [cpc EXCEPT ![c] = IF jobs # <<>> \/ jobActive THEN "waitWait" ELSE "idle"]
    /\ UNCHANGED <<now, object, worker, history>>

SetExceptionHandler(c, h) ==
    /\ MayCall(c)
    /\ handler' = h
    /\ UNCHANGED <<now, jobs, jobActive, clearJobs, finish, worker, cpc, history>>

(* ~WorkThread: nobody else may be using the object any more.              *)
Destroy(c) ==
    /\ \A o \in Clients : MayCall(o)
    /\ finish' = TRUE
    /\ cpc' = [cpc EXCEPT ![c] = "dtorNotify"]
    /\ UNCHANGED <<now, jobs, jobActive, clearJobs, handler, worker, history>>

DestroyNotify_Lost(c) ==
    /\ cpc[c] = "dtorNotify"
    /\ cpc' = [cpc EXCEPT ![c] = "join"]
    /\ UNCHANGED <<now, object, worker, history>>

DestroyNotify(c) ==
    /\ cpc[c] = "dtorNotify"
    /\ NotifyWork
    /\ cpc' = [cpc EXCEPT ![c] = "join"]
    /\ UNCHANGED <<now, object, wjob, wdelay, history>>

Join(c) ==
    /\ cpc[c] = "join"
    /\ wpc = "exit"
    /\ cpc' = [cpc EXCEPT ![c] = "joined"]
    /\ UNCHANGED <<now, object, worker, history>>

-----------------------------------------------------------------------------
(* The worker: ThreadEntry.                                                *)

Due(e) == e.fire <= now

Take_Leaves(q) ==
    /\ jobs' = q
    /\ IF \E k \in DOMAIN q : Due(q[k])
       THEN jobActive' = TRUE /\ wpc' = "run" /\ wjob' = q[FirstIn(q, Due)].job
       ELSE jobActive' = FALSE /\ wpc' = "top" /\ UNCHANGED wjob

(* The end of the critical section: take the first entry that is due.      *)
Take(q) ==
    IF \E k \in DOMAIN q : Due(q[k])
    THEN LET k == FirstIn(q, Due)
         IN  /\ jobs' = RemoveAt(q, k)
             /\ jobActive' = TRUE
             /\ wpc' = "run"
             /\ wjob' = q[k].job
    ELSE /\ jobs' = q
         /\ jobActive' = FALSE
         /\ wpc' = "top"
         /\ UNCHANGED wjob

(* The flag falls but the list stays.                                      *)
Top_KeepsJobs ==
    /\ wpc = "top"
    /\ IF jobs = <<>>
       THEN /\ jobs' = jobs
            /\ jobActive' = FALSE
            /\ wpc' = "announce"
            /\ UNCHANGED wjob
       ELSE Take(jobs)
    /\ clearJobs' = FALSE
    /\ UNCHANGED <<now, finish, handler, wdelay, cpc, history>>

(* The critical section from its start: the job of the last round is over, *)
(* Clear is served, and an empty list is announced without the lock.       *)
Top ==
    /\ wpc = "top"
    /\ LET q == IF clearJobs THEN <<>> ELSE jobs
       IN  /\ IF q = <<>>
              THEN /\ jobs' = q
                   /\ jobActive' = FALSE
                   /\ wpc' = "announce"
                   /\ UNCHANGED wjob
              ELSE Take(q)
           /\ fate' = IF clearJobs THEN Dropped(fate, jobs) ELSE fate
    /\ clearJobs' = FALSE
    /\ UNCHANGED <<now, finish, handler, wdelay, cpc, addedBy, atCall>>

Announce_Silent ==
    /\ wpc = "announce"
    /\ wpc' = "relock"
    /\ UNCHANGED <<now, object, wjob, wdelay, cpc, history>>

Announce ==
    /\ wpc = "announce"
    /\ NotifyDone
    /\ wpc' = "relock"
    /\ UNCHANGED <<now, object, wjob, wdelay, history>>

(* finish is honoured whatever is left in the list.                        *)
Relock_LeavesJobs ==
    /\ wpc = "relock"
    /\ IF finish
       THEN wpc' = "exit" /\ UNCHANGED <<jobs, jobActive, wjob, clearJobs>>
       ELSE IF jobs = <<>>
            THEN clearJobs' = FALSE /\ wpc' = "waiting" /\ UNCHANGED <<jobs, jobActive, wjob>>
            ELSE Take(jobs) /\ UNCHANGED clearJobs
    /\ UNCHANGED <<now, finish, handler, wdelay, cpc, history>>

(* The lock is taken again; the list may have been filled meanwhile.       *)
Relock ==
    /\ wpc = "relock"
    /\ IF jobs = <<>>
       THEN /\ clearJobs' = FALSE
            /\ wpc' = IF finish THEN "exit" ELSE "waiting"
            /\ UNCHANGED <<jobs, jobActive, wjob>>
       ELSE Take(jobs) /\ UNCHANGED clearJobs
    /\ UNCHANGED <<now, finish, handler, wdelay, cpc, history>>

(* Woken from _workSignal, with the lock.                                  *)
Woken ==
    /\ wpc = "woken"
    /\ Take(jobs)
    /\ UNCHANGED <<now, clearJobs, finish, handler, wdelay, cpc, history>>

(* The job ends without an answer.                                         *)
RunOnce ==
    /\ wpc = "run"
    /\ wpc' = "top" /\ wjob' = NoJob
    /\ fate' = [fate EXCEPT ![wjob] = "finished"]
    /\ UNCHANGED <<now, object, wdelay, cpc, addedBy, atCall>>

(* The job answers with a delay ...                                        *)
RunRepeat(d) ==
    /\ wpc = "run"
    /\ wjob \in Periodic
    /\ now + d <= MaxTime
    /\ wpc' = "repeat" /\ wdelay' = d
    /\ UNCHANGED <<now, object, wjob, cpc, history>>

RepeatJob_Moved ==
    /\ wpc = "repeat"
    /\ now + wdelay <= MaxTime
    /\ jobs' = InsertJob(jobs, [job |-> NoJob, fire |-> now + wdelay])
    /\ wpc' = "top" /\ wjob' = NoJob /\ wdelay' = 0
    /\ UNCHANGED <<now, jobActive, clearJobs, finish, handler, cpc, history>>

(* ... and goes back to the list, without a notification: AddJobInternal.  *)
RepeatJob ==
    /\ wpc = "repeat"
    /\ now + wdelay <= MaxTime
    /\ jobs' = InsertJob(jobs, [job |-> wjob, fire |-> now + wdelay])
    /\ wpc' = "top" /\ wjob' = NoJob /\ wdelay' = 0
    /\ UNCHANGED <<now, jobActive, clearJobs, finish, handler, cpc, history>>

(* The job throws: it is never scheduled again, and the handler may ask to *)
(* drop the list.                                                          *)
RunThrow ==
    /\ wpc = "run"
    /\ jobs' = IF handler = "clear" THEN <<>> ELSE jobs
    /\ wpc' = "top" /\ wjob' = NoJob
    /\ fate' = [IF handler = "clear" THEN Dropped(fate, jobs) ELSE fate EXCEPT ![wjob] = "threw"]
    /\ UNCHANGED <<now, jobActive, clearJobs, finish, handler, wdelay, cpc, addedBy, atCall>>

-----------------------------------------------------------------------------
(* The environment.                                                        *)

(* The clock does not pass MaxTime, nor the time a repeating job needs.    *)
Tick ==
    /\ now + wdelay < MaxTime
    /\ now' = now + 1
    /\ UNCHANGED <<object, worker, cpc, history>>

SpuriousWork ==
    /\ wpc = "waiting"
    /\ wpc' = "woken"
    /\ UNCHANGED <<now, object, wjob, wdelay, cpc, history>>

SpuriousDone(c) ==
    /\ \/ cpc[c] = "clearWait" /\ cpc' = [cpc EXCEPT ![c] = "clearCheck"]
       \/ cpc[c] = "waitWait" /\ cpc' = [cpc EXCEPT ![c] = "waitCheck"]
    /\ UNCHANGED <<now, object, worker, history>>

-----------------------------------------------------------------------------
CallerProceeds(c) ==
    \/ AddNotify(c)
    \/ ClearNotify(c) \/ ClearCheck(c)
    \/ WaitCheck(c)
    \/ DestroyNotify(c) \/ Join(c)

CallerStarts(c) ==
    \/ \E j \in Jobs, d \in Delays : AddJob(c, j, d)
    \/ Clear(c)
    \/ Wait(c)
    \/ \E h \in {"keep", "clear"} : SetExceptionHandler(c, h)
    \/ Destroy(c)

WorkerProceeds ==
    \/ Top \/ Announce \/ Relock \/ Woken
    \/ RunOnce \/ RunThrow \/ RepeatJob
    \/ \E d \in Delays : RunRepeat(d)

Next ==
    \/ \E c \in Clients : CallerProceeds(c) \/ CallerStarts(c) \/ SpuriousDone(c)
    \/ WorkerProceeds
    \/ SpuriousWork
    \/ Tick

Spec == Init /\ [][Next]_vars

(* Every thread that can run is eventually scheduled, jobs end, and the    *)
(* clock goes on.  Nothing is assumed of spurious wake-ups, nor that       *)
(* callers start new calls.                                                *)
Fairness ==
    /\ WF_vars(WorkerProceeds)
    /\ \A c \in Clients : WF_vars(CallerProceeds(c))
    /\ WF_vars(Tick)

FairSpec == Spec /\ Fairness

-----------------------------------------------------------------------------
(* Properties.                                                             *)

(* Type correctness of the object's fields, of the threads' positions and  *)
(* of the history.                                                         *)
TypeOK ==
    /\ now \in Nat
    /\ jobs \in Seq(Entries)
    /\ jobActive \in BOOLEAN /\ clearJobs \in BOOLEAN /\ finish \in BOOLEAN
    /\ handler \in {"none", "keep", "clear"}
    /\ wpc \in {"top", "announce", "relock", "waiting", "woken", "run", "repeat", "exit"}
    /\ wjob \in Jobs \cup {NoJob}
    /\ wdelay \in Nat
    /\ cpc \in [Clients -> {"idle", "addNotify", "clearNotify", "clearCheck", "clearWait",
                            "waitCheck", "waitWait", "dtorNotify", "join", "joined"}]
    /\ fate \in [Jobs -> {"new", "pending", "finished", "threw", "dropped"}]
    /\ addedBy \in [Clients -> SUBSET Jobs]
    /\ atCall \in [Clients -> SUBSET Jobs]

(* The list is in the order of the fire times, whatever mix of delays,     *)
(* repetitions and removals produced it: Take is right to stop at the      *)
(* first entry that is due.                                                *)
Sorted == \A i, k \in DOMAIN jobs : i < k => jobs[i].fire <= jobs[k].fire

(* A job that was added and neither finished, nor threw, nor was dropped   *)
(* is in exactly one place: in the list once, or in the worker's hands.    *)
(* Between a job's answer and its return to the list it is still counted.  *)
NoJobLost ==
    /\ \A i, k \in DOMAIN jobs : jobs[i].job = jobs[k].job => i = k
    /\ \A j \in Jobs : fate[j] = "pending" <=>
            \/ j = wjob
            \/ \E k \in DOMAIN jobs : jobs[k].job = j
    /\ \A k \in DOMAIN jobs : jobs[k].job # wjob

(* The destructor lets the worker leave only an empty list: every job,     *)
(* delayed ones included, has been run or dropped when join returns.       *)
DestroyDrains == wpc = "exit" => Pending = {}

(* A job that was added is kept until it is settled, through every call    *)
(* and to the end of the thread.                                           *)
JobsKept == NoJobLost /\ DestroyDrains

(* Wait returns only when nothing its caller added is still pending, in    *)
(* the list, in a running job or on its way back to the list.              *)
WaitDrains ==
    [][\A c \in Clients : cpc[c] = "waitCheck" /\ cpc'[c] = "idle"
                            => \A j \in addedBy[c] : fate[j] # "pending"]_vars

(* When Clear returns, nothing that was pending when it was called is      *)
(* pending still: no old job can run after the caller has gone on.         *)
ClearDrops ==
    [][\A c \in Clients : cpc[c] = "clearCheck" /\ cpc'[c] = "idle"
                            => \A j \in atCall[c] : fate[j] # "pending"]_vars

(* What the two calls that wait promise their callers.                     *)
CallsServed == WaitDrains /\ ClearDrops

(* The scheduling promise: jobs start in the order of JobSchedule.         *)
Schedule == INSTANCE JobSchedule WITH
    pending <- {jobs[k] : k \in DOMAIN jobs},
    before <- {<<jobs[p[1]].job, jobs[p[2]].job>> :
                  p \in {r \in (DOMAIN jobs) \X (DOMAIN jobs) : r[1] < r[2]}},
    running <- wjob
ScheduleSpec == Schedule!Spec

(* Every job that does not repeat is eventually settled, however many      *)
(* periodic jobs come back with no delay.                                  *)
JobsSettle == \A j \in Jobs \ Periodic : fate[j] = "pending" ~> fate[j] # "pending"

(* From some moment on no job asks to be repeated.                         *)
RepeatsEnd == <>[](wpc # "repeat")

(* Wait returns, unless jobs repeat for ever.                              *)
WaitReturns == RepeatsEnd => \A c \in Clients : cpc[c] = "waitCheck" ~> cpc[c] = "idle"

(* The destructor returns, unless jobs repeat for ever.                    *)
DestroyReturns == RepeatsEnd => \A c \in Clients : cpc[c] = "dtorNotify" ~> cpc[c] = "joined"

(* Wait and the destructor return; Clear may not, see ClearReturns.        *)
CallsReturn == WaitReturns /\ DestroyReturns

(* Clear returns.                                                          *)
ClearReturns == \A c \in Clients : cpc[c] = "clearNotify" ~> cpc[c] = "idle"
=============================================================================
