---------------------------- MODULE JobSchedule ----------------------------
(***************************************************************************)
(* What a WorkThread promises its callers, without threads, locks or       *)
(* condition variables: jobs wait with a fire time, one job runs at a      *)
(* time, and a waiting job is overtaken only by jobs added later with an   *)
(* EARLIER fire time.  In particular jobs added with no delay run in the   *)
(* order in which they were added: the write-behind data base (DataBase)   *)
(* relies on that to apply its commit jobs in order.                       *)
(***************************************************************************)
EXTENDS Naturals

CONSTANTS Jobs,     \* the job objects
          Delays,   \* the delays a caller or a repeating job may ask for
          NoJob     \* no job is running

VARIABLES now,      \* the clock
          pending,  \* the set of [job, fire] records that wait
          before,   \* pairs <<i, j>> of waiting jobs: i has to run before j
          running   \* the job that runs, or NoJob

vars == <<now, pending, before, running>>

JobsOf(P) == {e.job : e \in P}

Init == /\ now = 0
        /\ pending = {}
        /\ before = {}
        /\ running = NoJob

Tick == /\ now' = now + 1
        /\ UNCHANGED <<pending, before, running>>

(* A job that enters at time t goes behind those that fire no later.       *)
Enter(j, t) ==
    /\ pending' = pending \cup {[job |-> j, fire |-> t]}
    /\ before' = before \cup {<<e.job, j>> : e \in {x \in pending : x.fire <= t}}
                        \cup {<<j, e.job>> : e \in {x \in pending : x.fire > t}}

Add(j, d) ==
    /\ j \notin JobsOf(pending) \cup {running}
    /\ Enter(j, now + d)
    /\ UNCHANGED <<now, running>>

(* The job that starts is due and nothing that waits has to run before it. *)
Start(e) ==
    /\ running = NoJob
    /\ e.fire <= now
    /\ \A x \in pending : <<x.job, e.job>> \notin before
    /\ pending' = pending \ {e}
    /\ before' = {p \in before : e.job \notin {p[1], p[2]}}
    /\ running' = e.job
    /\ UNCHANGED now

Finish ==
    /\ running # NoJob
    /\ running' = NoJob
    /\ UNCHANGED <<now, pending, before>>

Repeat(d) ==
    /\ running # NoJob
    /\ Enter(running, now + d)
    /\ running' = NoJob
    /\ UNCHANGED now

(* All waiting jobs are dropped, by Clear or by the exception handler of   *)
(* the job that just failed.                                               *)
DropAll ==
    /\ pending' = {}
    /\ before' = {}
    /\ running' \in {running, NoJob}
    /\ UNCHANGED now

Next == \/ Tick
        \/ \E j \in Jobs, d \in Delays : Add(j, d)
        \/ \E e \in pending : Start(e)
        \/ Finish
        \/ \E d \in Delays : Repeat(d)
        \/ DropAll

Spec == Init /\ [][Next]_vars
=============================================================================
