-------------------------- MODULE ServerSyncProofs --------------------------
(* Proofs about ServerSync for any finite set of clients.                  *)
EXTENDS ServerSync, FiniteSetTheorems, TLAPS

Open == {"waiting", "woken", "holding"}
OpenIn(f) == {c \in Clients : f[c] \in Open}

(* The clients whose request is counted in _syncRequest.                   *)
Requesting == OpenIn(cpc)

(* _syncRequest counts the open requests, and the point is ready exactly   *)
(* while the worker stands in SyncPoint.  A holder's open request is what  *)
(* keeps the worker there: without the count Exclusion is not inductive.   *)
IInv ==
    /\ TypeOK
    /\ syncRequest = Cardinality(Requesting)
    /\ syncPointReady <=> wpc # "jobs"
    /\ \A c \in Clients : cpc[c] = "holding" => syncPointReady

(* Opening or closing one request changes the count by one.                *)
LEMMA CountLemma ==
    ASSUME NEW f, NEW c \in Clients, NEW v, NEW g,
           DOMAIN f = Clients, g = [f EXCEPT ![c] = v]
    PROVE  /\ IsFiniteSet(OpenIn(f))
           /\ Cardinality(OpenIn(f)) \in Nat
           /\ f[c] \notin Open /\ v \in Open
                => Cardinality(OpenIn(g)) = Cardinality(OpenIn(f)) + 1
           /\ f[c] \in Open /\ v \notin Open
                => Cardinality(OpenIn(g)) = Cardinality(OpenIn(f)) - 1
           /\ (f[c] \in Open <=> v \in Open) => OpenIn(g) = OpenIn(f)
<1>1. IsFiniteSet(OpenIn(f))
  BY ClientsAssumption, FS_Subset DEF OpenIn
<1>2. Cardinality(OpenIn(f)) \in Nat
  BY <1>1, FS_CardinalityType
<1>3. g[c] = v /\ \A d \in Clients \ {c} : g[d] = f[d]
  OBVIOUS
<1>4. ASSUME f[c] \notin Open, v \in Open
      PROVE  Cardinality(OpenIn(g)) = Cardinality(OpenIn(f)) + 1
  <2>1. OpenIn(g) = OpenIn(f) \cup {c} /\ c \notin OpenIn(f)
    BY <1>3, <1>4 DEF OpenIn
  <2>2. QED
    BY <1>1, <2>1, FS_AddElement
<1>5. ASSUME f[c] \in Open, v \notin Open
      PROVE  Cardinality(OpenIn(g)) = Cardinality(OpenIn(f)) - 1
  <2>1. OpenIn(g) = OpenIn(f) \ {c} /\ c \in OpenIn(f)
    BY <1>3, <1>5 DEF OpenIn
  <2>2. QED
    BY <1>1, <2>1, FS_RemoveElement
<1>6. ASSUME f[c] \in Open <=> v \in Open
      PROVE  OpenIn(g) = OpenIn(f)
  BY <1>3, <1>6 DEF OpenIn
<1>7. QED
  BY <1>1, <1>2, <1>4, <1>5, <1>6

(* An open request is counted.                                             *)
LEMMA PositiveLemma ==
    ASSUME IInv, NEW c \in Clients, cpc[c] \in Open
    PROVE  syncRequest \in Nat /\ syncRequest > 0
<1>1. IsFiniteSet(Requesting) /\ c \in Requesting
  BY ClientsAssumption, FS_Subset DEF Requesting, OpenIn
<1>2. Cardinality(Requesting) \in Nat /\ Cardinality(Requesting) # 0
  BY <1>1, FS_CardinalityType, FS_EmptySet
<1>3. QED
  BY <1>2 DEF IInv

LEMMA InitLemma == Init => IInv
<1> SUFFICES ASSUME Init PROVE IInv
  OBVIOUS
<1>1. Requesting = {}
  BY DEF Init, Requesting, OpenIn, Open
<1>2. syncRequest = Cardinality(Requesting)
  BY <1>1, FS_EmptySet DEF Init
<1>3. TypeOK
  BY DEF Init, TypeOK
<1>4. syncPointReady <=> wpc # "jobs"
  BY DEF Init
<1>5. \A c \in Clients : cpc[c] # "holding"
  BY DEF Init
<1>6. QED
  BY <1>2, <1>3, <1>4, <1>5, Zenon DEF IInv

(* Every action keeps the invariant.                                       *)
LEMMA StepLemma == IInv /\ [Next]_vars => IInv'
<1> SUFFICES ASSUME IInv, [Next]_vars PROVE IInv'
  OBVIOUS
<1> USE DEF IInv
<1>1. ASSUME NEW c \in Clients, LockEnter(c) PROVE IInv'
  <2>1. cpc[c] \notin Open
    BY <1>1 DEF LockEnter, Open
  <2>2. syncRequest' = Cardinality(Requesting')
    BY <1>1, <2>1, CountLemma DEF LockEnter, Requesting, Open, TypeOK
  <2>3. QED
    BY <1>1, <2>2 DEF LockEnter, TypeOK
<1>2. ASSUME NEW c \in Clients, LockCheck(c) PROVE IInv'
  <2>1. cpc[c] \in Open
    BY <1>2 DEF LockCheck, Open
  <2>2. Requesting' = Requesting
    BY <1>2, <2>1, CountLemma DEF LockCheck, Requesting, Open, TypeOK
  <2>3. QED
    BY <1>2, <2>2 DEF LockCheck, TypeOK
<1>3. ASSUME NEW c \in Clients, LockTimeout(c) PROVE IInv'
  <2>1. cpc[c] \in Open
    BY <1>3 DEF LockTimeout, Open
  <2>2. syncRequest' = Cardinality(Requesting')
    BY <1>3, <2>1, CountLemma DEF LockTimeout, Requesting, Open, TypeOK
  <2>3. syncRequest' \in Nat
    BY <1>3, <2>1, PositiveLemma DEF LockTimeout
  <2>4. QED
    BY <1>3, <2>2, <2>3 DEF LockTimeout, TypeOK
<1>4. ASSUME NEW c \in Clients, Unlock(c) PROVE IInv'
  <2>1. cpc[c] \in Open
    BY <1>4 DEF Unlock, Open
  <2>2. syncRequest' = Cardinality(Requesting')
    BY <1>4, <2>1, CountLemma DEF Unlock, Requesting, Open, TypeOK
  <2>3. syncRequest' \in Nat
    BY <1>4, <2>1, PositiveLemma DEF Unlock
  <2>4. QED
    BY <1>4, <2>2, <2>3 DEF Unlock, TypeOK
<1>5. ASSUME NEW c \in Clients, UnlockNotify(c) PROVE IInv'
  <2>1. \A d \in Clients : cpc'[d] \in Open <=> cpc[d] \in Open
    BY <1>5 DEF UnlockNotify, Open, TypeOK
  <2>2. Requesting' = Requesting
    BY <2>1 DEF Requesting, OpenIn, Open
  <2>3. QED
    BY <1>5, <2>2 DEF UnlockNotify, TypeOK
<1>6. CASE SyncPoint
  <2>1. Requesting' = Requesting
    BY <1>6 DEF SyncPoint, Requesting, OpenIn
  <2>2. QED
    BY <1>6, <2>1 DEF SyncPoint, TypeOK
<1>7. CASE SyncNotify
  <2>0. \A c \in Clients : cpc'[c] \in Open <=> cpc[c] \in Open
    BY <1>7 DEF SyncNotify, Open
  <2>1. Requesting' = Requesting
    BY <2>0 DEF Requesting, OpenIn, Open
  <2>2. QED
    BY <1>7, <2>1 DEF SyncNotify, TypeOK
<1>8. CASE SyncCheck
  <2>1. Requesting' = Requesting
    BY <1>8 DEF SyncCheck, Requesting
  <2>2. CASE syncRequest > 0
    BY <1>8, <2>1, <2>2 DEF SyncCheck, TypeOK
  <2>3. CASE ~(syncRequest > 0)
    <3>1. \A c \in Clients : cpc[c] # "holding"
      BY <2>3, PositiveLemma DEF Open
    <3>2. QED
      BY <1>8, <2>1, <2>3, <3>1 DEF SyncCheck, TypeOK
  <2>4. QED
    BY <2>2, <2>3
<1>9. CASE SpuriousWake
  <2>1. CASE wpc = "waiting" /\ wpc' = "check" /\ UNCHANGED <<syncRequest, syncPointReady, cpc>>
    <3>1. Requesting' = Requesting
      BY <2>1 DEF Requesting
    <3>2. QED
      BY <2>1, <3>1 DEF TypeOK
  <2>2. ASSUME NEW c \in Clients, cpc[c] = "waiting", cpc' = [cpc EXCEPT ![c] = "woken"],
               UNCHANGED <<syncRequest, syncPointReady, wpc>>
        PROVE  IInv'
    <3>1. cpc[c] \in Open
      BY <2>2 DEF Open
    <3>2. Requesting' = Requesting
      BY <2>2, <3>1, CountLemma DEF Requesting, Open, TypeOK
    <3>3. QED
      BY <2>2, <3>2 DEF TypeOK
  <2>3. QED
    BY <1>9, <2>1, <2>2 DEF SpuriousWake
<1>10. CASE UNCHANGED vars
  <2>1. Requesting' = Requesting
    BY <1>10 DEF vars, Requesting
  <2>2. QED
    BY <1>10, <2>1 DEF vars, TypeOK
<1>11. QED
  BY <1>1, <1>2, <1>3, <1>4, <1>5, <1>6, <1>7, <1>8, <1>9, <1>10 DEF Next, Worker, Client

LEMMA InvariantLemma == Spec => []IInv
<1>1. QED
  BY InitLemma, StepLemma, PTL DEF Spec

(* The worker is never in its jobs while a client holds the lock, for any  *)
(* number of clients with and without time limits.                         *)
THEOREM ExclusionTheorem == Spec => []Exclusion
<1>1. IInv => Exclusion
  BY DEF IInv, Exclusion
<1>2. QED
  BY <1>1, InvariantLemma, PTL

(* Unlock's assertion never fails and _syncRequest never goes below zero.  *)
THEOREM UnlockAllowedTheorem == Spec => [](TypeOK /\ UnlockAllowed)
<1>1. IInv => UnlockAllowed
  <2> SUFFICES ASSUME IInv, NEW c \in Clients, cpc[c] = "holding"
               PROVE  syncRequest > 0
    BY DEF UnlockAllowed
  <2>1. cpc[c] \in Open
    BY DEF Open
  <2>2. QED
    BY <2>1, PositiveLemma
<1>2. IInv => TypeOK
  BY DEF IInv
<1>3. QED
  BY <1>1, <1>2, InvariantLemma, PTL

(* Both, for a client that holds the lock.                                 *)
THEOREM HolderSafeTheorem == Spec => []HolderSafe
<1>1. Exclusion /\ TypeOK /\ UnlockAllowed => HolderSafe
  BY DEF HolderSafe
<1>2. QED
  BY <1>1, ExclusionTheorem, UnlockAllowedTheorem, PTL

(* Type correctness of the lock.                                           *)
THEOREM TypeTheorem == Spec => []TypeOK
<1>1. IInv => TypeOK
  BY DEF IInv
<1>2. QED
  BY <1>1, InvariantLemma, PTL
=============================================================================
