----------------------------- MODULE ServerSync -----------------------------
(***************************************************************************)
(* FOServer::Lock, Unlock and SyncPoint (Source/Server/Server.cpp): how    *)
(* other threads (DrawGui of the server's window) get at the state of the  *)
(* game while the main worker, which owns that state, stands still in the  *)
(* SyncPoint job that it runs once per loop.                               *)
(*                                                                         *)
(* A step is one critical section of _syncLocker or one notification       *)
(* outside of it.  Waiting threads may wake up on their own.               *)
(***************************************************************************)
EXTENDS Integers, FiniteSets

CONSTANTS Clients,  \* the threads that call Lock and Unlock
          Timed     \* those among them that call Lock with a max_wait_time

ASSUME ClientsAssumption == IsFiniteSet(Clients) /\ Timed \subseteq Clients

VARIABLES syncRequest,     \* _syncRequest
          syncPointReady,  \* _syncPointReady
          wpc,             \* where the main worker is: in another job, or in SyncPoint
          cpc              \* where each client is

vars == <<syncRequest, syncPointReady, wpc, cpc>>

Init == /\ syncRequest = 0
        /\ syncPointReady = FALSE
        /\ wpc = "jobs"
        /\ cpc = [c \in Clients |-> "idle"]

-----------------------------------------------------------------------------
(* Lock.                                                                   *)

LockEnter(c) ==
    /\ cpc[c] = "idle"
    /\ syncRequest' = syncRequest + 1
    /\ cpc' = [cpc EXCEPT ![c] = IF syncPointReady THEN "holding" ELSE "waiting"]
    /\ UNCHANGED <<syncPointReady, wpc>>

(* Woken: the condition of the loop again.                                 *)
LockCheck(c) ==
    /\ cpc[c] = "woken"
    /\ cpc' = [cpc EXCEPT ![c] = IF syncPointReady THEN "holding" ELSE "waiting"]
    /\ UNCHANGED <<syncRequest, syncPointReady, wpc>>

LockTimeout_Succeeds(c) ==
    /\ c \in Timed
    /\ cpc[c] \in {"waiting", "woken"}
    /\ syncRequest' = syncRequest - 1
    /\ cpc' = [cpc EXCEPT ![c] = "holding"]
    /\ UNCHANGED <<syncPointReady, wpc>>

(* wait_for says "timeout", which it may do for a thread that has been     *)
(* notified as well when the lock was taken for too long.                  *)
LockTimeout(c) ==
    /\ c \in Timed
    /\ cpc[c] \in {"waiting", "woken"}
    /\ syncRequest' = syncRequest - 1
    /\ cpc' = [cpc EXCEPT ![c] = "idle"]
    /\ UNCHANGED <<syncPointReady, wpc>>

-----------------------------------------------------------------------------
(* Unlock.                                                                 *)

Unlock(c) ==
    /\ cpc[c] = "holding"
    /\ syncRequest' = syncRequest - 1
    /\ cpc' = [cpc EXCEPT ![c] = "unlocked"]
    /\ UNCHANGED <<syncPointReady, wpc>>

UnlockNotify_Lost(c) ==
    /\ cpc[c] = "unlocked"
    /\ cpc' = [cpc EXCEPT ![c] = "idle"]
    /\ UNCHANGED <<syncRequest, syncPointReady, wpc>>

UnlockNotify(c) ==
    /\ cpc[c] = "unlocked"
    /\ wpc' = IF wpc = "waiting" THEN "check" ELSE wpc
    /\ cpc' = [cpc EXCEPT ![c] = "idle"]
    /\ UNCHANGED <<syncRequest, syncPointReady>>

-----------------------------------------------------------------------------
(* SyncPoint, on the main worker.                                          *)

SyncPoint ==
    /\ wpc = "jobs"
    /\ syncRequest > 0
    /\ syncPointReady' = TRUE
    /\ wpc' = "notify"
    /\ UNCHANGED <<syncRequest, cpc>>

SyncNotify_One ==
    /\ wpc = "notify"
    /\ IF \E c \in Clients : cpc[c] = "waiting"
       THEN \E c \in Clients : cpc[c] = "waiting" /\ cpc' = [cpc EXCEPT ![c] = "woken"]
       ELSE UNCHANGED cpc
    /\ wpc' = "check"
    /\ UNCHANGED <<syncRequest, syncPointReady>>

SyncNotify ==
    /\ wpc = "notify"
    /\ cpc' = [c \in Clients |-> IF cpc[c] = "waiting" THEN "woken" ELSE cpc[c]]
    /\ wpc' = "check"
    /\ UNCHANGED <<syncRequest, syncPointReady>>

SyncCheck_Once ==
    /\ wpc = "check"
    /\ wpc' = "jobs"
    /\ syncPointReady' = FALSE
    /\ UNCHANGED <<syncRequest, cpc>>

SyncCheck ==
    /\ wpc = "check"
    /\ IF syncRequest > 0
       THEN wpc' = "waiting" /\ UNCHANGED syncPointReady
       ELSE wpc' = "jobs" /\ syncPointReady' = FALSE
    /\ UNCHANGED <<syncRequest, cpc>>

-----------------------------------------------------------------------------
SpuriousWake ==
    \/ /\ wpc = "waiting" /\ wpc' = "check"
       /\ UNCHANGED <<syncRequest, syncPointReady, cpc>>
    \/ \E c \in Clients :
          /\ cpc[c] = "waiting"
          /\ cpc' = [cpc EXCEPT ![c] = "woken"]
          /\ UNCHANGED <<syncRequest, syncPointReady, wpc>>

Worker == SyncPoint \/ SyncNotify \/ SyncCheck

Client(c) == LockCheck(c) \/ LockTimeout(c) \/ Unlock(c) \/ UnlockNotify(c)

Next == \/ Worker
        \/ \E c \in Clients : LockEnter(c) \/ Client(c)
        \/ SpuriousWake

Spec == Init /\ [][Next]_vars

(* The worker comes to its SyncPoint job in every loop, clients do not keep *)
(* the lock, and every thread that can run is scheduled.                   *)
Fairness == WF_vars(Worker) /\ \A c \in Clients : WF_vars(Client(c))

FairSpec == Spec /\ Fairness

-----------------------------------------------------------------------------
(* Properties.                                                             *)

(* Type correctness of the two fields and of the threads' positions.       *)
TypeOK ==
    /\ syncRequest \in Nat
    /\ syncPointReady \in BOOLEAN
    /\ wpc \in {"jobs", "notify", "check", "waiting"}
    /\ cpc \in [Clients -> {"idle", "waiting", "woken", "holding", "unlocked"}]

(* Whoever has the lock has the worker out of its jobs: it cannot change   *)
(* the game while DrawGui reads it, whatever other clients time out or     *)
(* unlock meanwhile.                                                       *)
Exclusion == (\E c \in Clients : cpc[c] = "holding") => wpc # "jobs"

(* Unlock's assertion _syncRequest > 0 holds when it is evaluated.         *)
UnlockAllowed == (\E c \in Clients : cpc[c] = "holding") => syncRequest > 0

(* What holding the lock means: the worker stands still, and giving the    *)
(* lock back is allowed.                                                   *)
HolderSafe == Exclusion /\ UnlockAllowed

(* A client that waits without a time limit gets the lock, whatever others *)
(* that time out do to the counter.                                        *)
LockGranted == \A c \in Clients \ Timed : cpc[c] = "waiting" ~> cpc[c] = "holding"

(* The Unlock that takes back the last request sends the worker back to    *)
(* its jobs, unless somebody asks again.                                   *)
UnlockResumes ==
    \A c \in Clients : cpc[c] = "unlocked" /\ syncRequest = 0
                           ~> wpc = "jobs" \/ syncRequest > 0

(* When no client is between Lock and Unlock for good, the worker goes     *)
(* back to its jobs for good.                                              *)
WorkerResumes == <>[](\A c \in Clients : cpc[c] = "idle") => <>[](wpc = "jobs")
=============================================================================
