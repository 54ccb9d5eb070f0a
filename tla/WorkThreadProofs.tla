-------------------------- MODULE WorkThreadProofs --------------------------
(***************************************************************************)
(* Proofs about WorkThread for any jobs, callers, delays and any bound of  *)
(* the clock: what its operations on lists return, its invariants, and     *)
(* that it implements JobSchedule.                                         *)
(***************************************************************************)
EXTENDS WorkThread, SequenceTheorems, WellFoundedInduction, TLAPS

(***************************************************************************)
(* Lists of jobs: what InsertJob, FirstIn and RemoveAt return and          *)
(* preserve, for lists of any length.                                      *)
(***************************************************************************)
(* The jobs in a list.                                                     *)
JobsIn(q) == {q[k].job : k \in DOMAIN q}

(* A list as AddJobInternal keeps it: in the order of the fire times, no   *)
(* job twice.                                                              *)
Ordered(q) == \A i, k \in DOMAIN q : i < k => q[i].fire <= q[k].fire
Distinct(q) == \A i, k \in DOMAIN q : q[i].job = q[k].job => i = k
GoodList(q) == q \in Seq(Entries) /\ Ordered(q) /\ Distinct(q)

(* r is q with e put in front of position p.                               *)
Inserted(q, p, e, r) ==
    /\ r \in Seq(Entries)
    /\ Len(r) = Len(q) + 1
    /\ \A k \in 1..Len(r) : r[k] = IF k < p THEN q[k] ELSE IF k = p THEN e ELSE q[k - 1]

(* r is q without the entry at position p.                                 *)
Removed(q, p, r) ==
    /\ r \in Seq(Entries)
    /\ Len(r) = Len(q) - 1
    /\ \A k \in 1..Len(r) : r[k] = IF k < p THEN q[k] ELSE q[k + 1]

-----------------------------------------------------------------------------
(* A set of positions that is not empty has a first one.                   *)
LEMMA FirstPosition ==
    ASSUME NEW n \in Nat, NEW P \in SUBSET (1..n), P # {}
    PROVE  \E k \in P : \A i \in 1..(k - 1) : i \notin P
<1>1. P \subseteq Nat
  OBVIOUS
<1>2. \E k \in P : \A i \in P : ~(<<i, k>> \in OpToRel(<, Nat))
  BY <1>1, NatLessThanWellFounded, WFMin
<1>3. PICK k \in P : \A i \in P : ~(<<i, k>> \in OpToRel(<, Nat))
  BY <1>2
<1>4. \A i \in P : ~(i < k)
  BY <1>1, <1>3 DEF OpToRel
<1>5. QED
  BY <1>4

LEMMA InsertAtLemma ==
    ASSUME NEW q \in Seq(Entries), NEW e \in Entries, NEW p \in 1..Len(q)
    PROVE  Inserted(q, p, e, InsertAt(q, p, e))
<1> DEFINE front == SubSeq(q, 1, p - 1)
           back == SubSeq(q, p, Len(q))
<1>1. Len(q) \in Nat /\ \A k \in 1..Len(q) : q[k] \in Entries
  BY LenProperties
<1>2. /\ front \in Seq(Entries) /\ Len(front) = p - 1
      /\ \A k \in 1..(p - 1) : front[k] = q[k]
  <2>1. \A k \in 1..(p - 1) : q[k] \in Entries
    BY <1>1
  <2>2. QED
    BY <1>1, <2>1, SubSeqProperties
<1>3. /\ back \in Seq(Entries) /\ Len(back) = Len(q) - p + 1
      /\ \A k \in 1..(Len(q) - p + 1) : back[k] = q[p + k - 1]
  <2>1. \A k \in p..Len(q) : q[k] \in Entries
    BY <1>1
  <2>2. QED
    BY <1>1, <2>1, SubSeqProperties
<1> HIDE DEF front, back
<1>4. /\ <<e>> \in Seq(Entries) /\ Len(<<e>>) = 1 /\ <<e>>[1] = e
  OBVIOUS
<1> DEFINE mid == front \o <<e>>
<1>5. /\ mid \in Seq(Entries) /\ Len(mid) = p
      /\ \A k \in 1..p : mid[k] = IF k < p THEN q[k] ELSE e
  <2>1. /\ mid \in Seq(Entries)
        /\ Len(mid) = Len(front) + Len(<<e>>)
        /\ \A k \in 1..(Len(front) + Len(<<e>>)) :
              mid[k] = IF k <= Len(front) THEN front[k] ELSE <<e>>[k - Len(front)]
    BY <1>2, <1>4, ConcatProperties
  <2>2. QED
    BY <1>1, <1>2, <1>4, <2>1
<1>7. InsertAt(q, p, e) = mid \o back
  BY DEF InsertAt, front, back
<1> HIDE DEF mid
<1> DEFINE whole == mid \o back
<1>6. /\ whole \in Seq(Entries)
      /\ Len(whole) = p + Len(back)
      /\ \A k \in 1..(p + Len(back)) :
            whole[k] = IF k <= p THEN mid[k] ELSE back[k - p]
  BY <1>3, <1>5, ConcatProperties
<1> HIDE DEF whole
<1>8. Len(whole) = Len(q) + 1
  BY <1>1, <1>3, <1>6
<1>9. ASSUME NEW k \in 1..Len(whole)
      PROVE  whole[k] = IF k < p THEN q[k] ELSE IF k = p THEN e ELSE q[k - 1]
  <2>1. CASE k <= p
    <3>1. k \in 1..p /\ k \in 1..(p + Len(back))
      BY <1>1, <1>6, <2>1
    <3>2. whole[k] = mid[k]
      BY <1>6, <2>1, <3>1
    <3>3. QED
      BY <1>5, <2>1, <3>1, <3>2
  <2>2. CASE k > p
    <3>1. whole[k] = back[k - p]
      BY <1>1, <1>3, <1>6, <1>8, <2>2
    <3>2. k - p \in 1..(Len(q) - p + 1) /\ p + (k - p) - 1 = k - 1
      BY <1>1, <1>8, <2>2
    <3>3. back[k - p] = q[p + (k - p) - 1]
      BY <1>3, <3>2
    <3>4. QED
      BY <2>2, <3>1, <3>2, <3>3
  <2>3. QED
    BY <1>1, <1>8, <2>1, <2>2
<1>10. QED
  BY <1>6, <1>7, <1>8, <1>9 DEF Inserted, whole

LEMMA RemoveAtLemma ==
    ASSUME NEW q \in Seq(Entries), NEW p \in 1..Len(q)
    PROVE  Removed(q, p, RemoveAt(q, p))
<1> DEFINE front == SubSeq(q, 1, p - 1)
           back == SubSeq(q, p + 1, Len(q))
<1>1. Len(q) \in Nat /\ \A k \in 1..Len(q) : q[k] \in Entries
  BY LenProperties
<1>2. /\ front \in Seq(Entries) /\ Len(front) = p - 1
      /\ \A k \in 1..(p - 1) : front[k] = q[k]
  <2>1. \A k \in 1..(p - 1) : q[k] \in Entries
    BY <1>1
  <2>2. QED
    BY <1>1, <2>1, SubSeqProperties
<1>3. /\ back \in Seq(Entries) /\ Len(back) = Len(q) - p
      /\ \A k \in 1..(Len(q) - p) : back[k] = q[p + k]
  <2>1. \A k \in (p + 1)..Len(q) : q[k] \in Entries
    BY <1>1
  <2>2. /\ back \in Seq(Entries)
        /\ Len(back) = IF p + 1 <= Len(q) THEN Len(q) - (p + 1) + 1 ELSE 0
        /\ \A k \in 1..(Len(q) - (p + 1) + 1) : back[k] = q[(p + 1) + k - 1]
    BY <1>1, <2>1, SubSeqProperties
  <2>3. \A k \in 1..(Len(q) - p) : (p + 1) + k - 1 = p + k
    BY <1>1
  <2>4. QED
    BY <1>1, <2>2, <2>3
<1> HIDE DEF front, back
<1> DEFINE whole == front \o back
<1>4. /\ whole \in Seq(Entries)
      /\ Len(whole) = Len(front) + Len(back)
      /\ \A k \in 1..(Len(front) + Len(back)) :
            whole[k] = IF k <= Len(front) THEN front[k] ELSE back[k - Len(front)]
  BY <1>2, <1>3, ConcatProperties
<1>5. RemoveAt(q, p) = whole
  BY DEF RemoveAt, front, back
<1> HIDE DEF whole
<1>6. Len(whole) = Len(q) - 1
  BY <1>1, <1>2, <1>3, <1>4
<1>7. ASSUME NEW k \in 1..Len(whole)
      PROVE  whole[k] = IF k < p THEN q[k] ELSE q[k + 1]
  <2>1. CASE k < p
    BY <1>1, <1>2, <1>3, <1>4, <2>1
  <2>2. CASE k >= p
    <3>1. whole[k] = back[k - (p - 1)]
      BY <1>1, <1>2, <1>3, <1>4, <1>6, <2>2
    <3>2. k - (p - 1) \in 1..(Len(q) - p) /\ p + (k - (p - 1)) = k + 1
      BY <1>1, <1>6, <2>2
    <3>3. back[k - (p - 1)] = q[p + (k - (p - 1))]
      BY <1>3, <3>2
    <3>4. QED
      BY <2>2, <3>1, <3>2, <3>3
  <2>3. QED
    BY <1>1, <1>6, <2>1, <2>2
<1>8. QED
  BY <1>4, <1>5, <1>6, <1>7 DEF Removed

-----------------------------------------------------------------------------
LEMMA EntryFields ==
    ASSUME NEW q \in Seq(Entries)
    PROVE  /\ Len(q) \in Nat /\ DOMAIN q = 1..Len(q)
           /\ \A k \in 1..Len(q) : q[k] \in Entries /\ q[k].job \in Jobs /\ q[k].fire \in Nat
<1>1. Len(q) \in Nat /\ DOMAIN q = 1..Len(q) /\ \A k \in 1..Len(q) : q[k] \in Entries
  BY LenProperties
<1>2. QED
  BY <1>1 DEF Entries

(* Where InsertJob puts the entry: behind all that fire no later, in front *)
(* of all that fire later.                                                 *)
LEMMA InsertPosition ==
    ASSUME NEW q, GoodList(q), NEW e \in Entries
    PROVE  \E p \in 1..(Len(q) + 1) :
              /\ Inserted(q, p, e, InsertJob(q, e))
              /\ \A k \in 1..Len(q) : IF k < p THEN q[k].fire <= e.fire ELSE e.fire < q[k].fire
<1>1. /\ q \in Seq(Entries) /\ Len(q) \in Nat /\ DOMAIN q = 1..Len(q)
      /\ \A k \in 1..Len(q) : q[k] \in Entries /\ q[k].fire \in Nat
      /\ \A i, k \in 1..Len(q) : i < k => q[i].fire <= q[k].fire
      /\ e.fire \in Nat
  BY EntryFields DEF GoodList, Ordered, Entries
<1>2. CASE q = <<>> \/ e.fire >= q[Len(q)].fire
  <2>1. InsertJob(q, e) = Append(q, e)
    BY <1>2 DEF InsertJob
  <2>2. /\ Append(q, e) \in Seq(Entries)
        /\ Len(Append(q, e)) = Len(q) + 1
        /\ \A k \in 1..Len(q) : Append(q, e)[k] = q[k]
        /\ Append(q, e)[Len(q) + 1] = e
    BY <1>1, AppendProperties
  <2>3. Inserted(q, Len(q) + 1, e, InsertJob(q, e))
    BY <1>1, <2>1, <2>2 DEF Inserted
  <2>4. \A k \in 1..Len(q) : q[k].fire <= e.fire
    <3> SUFFICES ASSUME NEW k \in 1..Len(q) PROVE q[k].fire <= e.fire
      OBVIOUS
    <3>1. q # <<>>
      BY <1>1
    <3>2. Len(q) \in 1..Len(q) /\ q[k].fire <= q[Len(q)].fire
      BY <1>1
    <3>3. QED
      BY <1>1, <1>2, <3>1, <3>2
  <2>5. QED
    BY <1>1, <2>3, <2>4
<1>3. CASE ~(q = <<>> \/ e.fire >= q[Len(q)].fire)
  <2> DEFINE P == {k \in 1..Len(q) : e.fire < q[k].fire}
             Is(k) == k \in P /\ \A i \in 1..(k - 1) : i \notin P
  <2>1. Len(q) \in 1..Len(q)
    BY <1>1, <1>3
  <2>2. Len(q) \in P
    BY <1>1, <1>3, <2>1
  <2>3. \E k \in 1..Len(q) : Is(k)
    <3>1. P \in SUBSET (1..Len(q)) /\ P # {}
      BY <2>2
    <3> HIDE DEF P
    <3>2. PICK k \in P : \A i \in 1..(k - 1) : i \notin P
      BY <1>1, <3>1, FirstPosition
    <3>3. QED
      BY <3>1, <3>2
  <2>4. \A k \in 1..Len(q) :
           Is(k) <=> (e.fire < q[k].fire /\ \A i \in 1..(k - 1) : ~(e.fire < q[i].fire))
    BY <1>1
  <2> DEFINE f == CHOOSE k \in DOMAIN q : e.fire < q[k].fire /\ \A i \in 1..(k - 1) : ~(e.fire < q[i].fire)
  <2>5. f \in 1..Len(q) /\ Is(f)
    <3>1. \E k \in DOMAIN q : e.fire < q[k].fire /\ \A i \in 1..(k - 1) : ~(e.fire < q[i].fire)
      BY <1>1, <2>3, <2>4
    <3>2. f \in DOMAIN q /\ e.fire < q[f].fire /\ \A i \in 1..(f - 1) : ~(e.fire < q[i].fire)
      BY <3>1
    <3>3. QED
      BY <1>1, <2>4, <3>2
  <2>6. InsertJob(q, e) = InsertAt(q, f, e)
    BY <1>3 DEF InsertJob, FirstIn
  <2> HIDE DEF f
  <2>7. Inserted(q, f, e, InsertJob(q, e))
    BY <1>1, <2>5, <2>6, InsertAtLemma
  <2>8. ASSUME NEW k \in 1..Len(q)
        PROVE  IF k < f THEN q[k].fire <= e.fire ELSE e.fire < q[k].fire
    <3>1. e.fire < q[f].fire
      BY <2>5
    <3>2. CASE k < f
      <4>1. k \in 1..(f - 1)
        BY <1>1, <2>5, <3>2
      <4>2. k \notin P
        BY <2>5, <4>1
      <4>3. QED
        BY <1>1, <3>2, <4>2
    <3>3. CASE k >= f
      <4>1. q[f].fire <= q[k].fire
        BY <1>1, <2>5, <3>3
      <4>2. QED
        BY <1>1, <2>5, <3>1, <3>3, <4>1
    <3>4. QED
      BY <1>1, <2>5, <3>2, <3>3
  <2>9. QED
    BY <1>1, <2>5, <2>7, <2>8
<1>4. QED
  BY <1>2, <1>3

(* InsertJob keeps the list good and adds just the one job.                *)
LEMMA InsertJobLemma ==
    ASSUME NEW q, GoodList(q), NEW e \in Entries, e.job \notin JobsIn(q)
    PROVE  /\ GoodList(InsertJob(q, e))
           /\ JobsIn(InsertJob(q, e)) = JobsIn(q) \cup {e.job}
<1> DEFINE r == InsertJob(q, e)
<1>1. PICK p \in 1..(Len(q) + 1) :
         /\ Inserted(q, p, e, r)
         /\ \A k \in 1..Len(q) : IF k < p THEN q[k].fire <= e.fire ELSE e.fire < q[k].fire
  BY InsertPosition
<1> HIDE DEF r
<1>2. /\ q \in Seq(Entries) /\ Len(q) \in Nat /\ DOMAIN q = 1..Len(q)
      /\ \A k \in 1..Len(q) : q[k].fire \in Nat
      /\ \A i, k \in 1..Len(q) : i < k => q[i].fire <= q[k].fire
      /\ \A i, k \in 1..Len(q) : q[i].job = q[k].job => i = k
      /\ \A k \in 1..Len(q) : q[k].job # e.job
      /\ e.fire \in Nat
  BY EntryFields DEF GoodList, Ordered, Distinct, Entries, JobsIn
<1>3. /\ r \in Seq(Entries) /\ DOMAIN r = 1..(Len(q) + 1) /\ Len(r) = Len(q) + 1
      /\ \A k \in 1..(Len(q) + 1) : r[k] = IF k < p THEN q[k] ELSE IF k = p THEN e ELSE q[k - 1]
  BY <1>1, EntryFields DEF Inserted
<1>4. Ordered(r)
  <2> SUFFICES ASSUME NEW i \in 1..(Len(q) + 1), NEW k \in 1..(Len(q) + 1), i < k
               PROVE  r[i].fire <= r[k].fire
    BY <1>3 DEF Ordered
  <2>1. CASE k < p
    BY <1>2, <1>3, <2>1
  <2>2. CASE k = p
    BY <1>1, <1>2, <1>3, <2>2
  <2>3. CASE k > p
    <3>1. r[k] = q[k - 1] /\ k - 1 \in 1..Len(q) /\ ~(k - 1 < p)
      BY <1>2, <1>3, <2>3
    <3>2. CASE i < p
      <4>1. r[i] = q[i] /\ i \in 1..Len(q) /\ i < k - 1
        BY <1>2, <1>3, <2>3, <3>2
      <4>2. QED
        BY <1>2, <3>1, <4>1
    <3>3. CASE i = p
      <4>1. r[i] = e /\ e.fire < q[k - 1].fire
        BY <1>1, <1>2, <1>3, <3>1, <3>3
      <4>2. QED
        BY <1>2, <3>1, <4>1
    <3>4. CASE i > p
      <4>1. r[i] = q[i - 1] /\ i - 1 \in 1..Len(q) /\ i - 1 < k - 1
        BY <1>2, <1>3, <2>3, <3>4
      <4>2. QED
        BY <1>2, <3>1, <4>1
    <3>5. QED
      BY <1>2, <3>2, <3>3, <3>4
  <2>4. QED
    BY <1>2, <2>1, <2>2, <2>3
<1>5. Distinct(r)
  <2> SUFFICES ASSUME NEW i \in 1..(Len(q) + 1), NEW k \in 1..(Len(q) + 1), i < k
               PROVE  r[i].job # r[k].job
    <3>1. \A i, k \in 1..(Len(q) + 1) : i < k \/ k < i \/ i = k
      BY <1>2
    <3>2. QED
      BY <1>3, <3>1 DEF Distinct
  <2>1. CASE k < p
    BY <1>2, <1>3, <2>1
  <2>2. CASE k = p
    BY <1>2, <1>3, <2>2
  <2>3. CASE k > p
    <3>1. r[k] = q[k - 1] /\ k - 1 \in 1..Len(q)
      BY <1>2, <1>3, <2>3
    <3>2. CASE i < p
      <4>1. r[i] = q[i] /\ i \in 1..Len(q) /\ i # k - 1
        BY <1>2, <1>3, <2>3, <3>2
      <4>2. QED
        BY <1>2, <3>1, <4>1
    <3>3. CASE i = p
      <4>1. r[i] = e
        BY <1>2, <1>3, <3>3
      <4>2. QED
        BY <1>2, <3>1, <4>1
    <3>4. CASE i > p
      <4>1. r[i] = q[i - 1] /\ i - 1 \in 1..Len(q) /\ i - 1 # k - 1
        BY <1>2, <1>3, <2>3, <3>4
      <4>2. QED
        BY <1>2, <3>1, <4>1
    <3>5. QED
      BY <1>2, <3>2, <3>3, <3>4
  <2>4. QED
    BY <1>2, <2>1, <2>2, <2>3
<1>6. JobsIn(r) = JobsIn(q) \cup {e.job}
  <2>1. ASSUME NEW k \in 1..Len(q) PROVE \E i \in 1..(Len(q) + 1) : r[i] = q[k]
    <3>1. CASE k < p
      BY <1>2, <1>3, <3>1
    <3>2. CASE k >= p
      <4>1. k + 1 \in 1..(Len(q) + 1) /\ r[k + 1] = q[(k + 1) - 1] /\ (k + 1) - 1 = k
        BY <1>2, <1>3, <3>2
      <4>2. QED
        BY <4>1
    <3>3. QED
      BY <1>2, <3>1, <3>2
  <2>2. r[p] = e
    BY <1>2, <1>3
  <2>3. ASSUME NEW i \in 1..(Len(q) + 1) PROVE r[i] = e \/ \E k \in 1..Len(q) : r[i] = q[k]
    <3>1. CASE i < p
      BY <1>2, <1>3, <3>1
    <3>2. CASE i = p
      BY <1>3, <3>2
    <3>3. CASE i > p
      BY <1>2, <1>3, <3>3
    <3>4. QED
      BY <1>2, <3>1, <3>2, <3>3
  <2>4. p \in DOMAIN r
    BY <1>3
  <2>5. DOMAIN q = 1..Len(q) /\ DOMAIN r = 1..(Len(q) + 1)
    BY <1>2, <1>3
  <2>6. JobsIn(r) \subseteq JobsIn(q) \cup {e.job}
    <3> SUFFICES ASSUME NEW i \in DOMAIN r
                 PROVE  r[i].job \in JobsIn(q) \cup {e.job}
      BY DEF JobsIn
    <3>1. CASE r[i] = e
      BY <3>1
    <3>2. CASE \E k \in 1..Len(q) : r[i] = q[k]
      BY <2>5, <3>2 DEF JobsIn
    <3>3. QED
      BY <2>3, <2>5, <3>1, <3>2
  <2>7. JobsIn(q) \subseteq JobsIn(r)
    <3> SUFFICES ASSUME NEW k \in DOMAIN q
                 PROVE  q[k].job \in JobsIn(r)
      BY DEF JobsIn
    <3>1. PICK i \in 1..(Len(q) + 1) : r[i] = q[k]
      BY <2>1, <2>5
    <3>2. QED
      BY <2>5, <3>1 DEF JobsIn
  <2>8. e.job \in JobsIn(r)
    BY <2>2, <2>4 DEF JobsIn
  <2>9. QED
    BY <2>6, <2>7, <2>8
<1>7. QED
  BY <1>3, <1>4, <1>5, <1>6 DEF GoodList, r

(* RemoveAt keeps the list good and takes just the one job out.            *)
LEMMA RemoveJobLemma ==
    ASSUME NEW q, GoodList(q), NEW p \in 1..Len(q)
    PROVE  /\ GoodList(RemoveAt(q, p))
           /\ JobsIn(RemoveAt(q, p)) = JobsIn(q) \ {q[p].job}
<1> DEFINE r == RemoveAt(q, p)
<1>1. /\ q \in Seq(Entries) /\ Len(q) \in Nat /\ DOMAIN q = 1..Len(q)
      /\ \A i, k \in 1..Len(q) : i < k => q[i].fire <= q[k].fire
      /\ \A i, k \in 1..Len(q) : q[i].job = q[k].job => i = k
  BY EntryFields DEF GoodList, Ordered, Distinct
<1>2. Removed(q, p, r)
  BY <1>1, RemoveAtLemma
<1> HIDE DEF r
<1> DEFINE At == [k \in 1..(Len(q) - 1) |-> IF k < p THEN k ELSE k + 1]
<1>3. /\ r \in Seq(Entries) /\ DOMAIN r = 1..(Len(q) - 1)
      /\ \A k \in 1..(Len(q) - 1) : r[k] = q[At[k]] /\ At[k] \in 1..Len(q) /\ At[k] # p
  BY <1>1, <1>2, EntryFields DEF Removed
<1>4. \A i, k \in 1..(Len(q) - 1) :
         (i < k => At[i] < At[k]) /\ (At[i] = At[k] => i = k)
  BY <1>1
<1>5. ASSUME NEW m \in 1..Len(q), m # p
      PROVE  \E k \in 1..(Len(q) - 1) : At[k] = m
  <2>1. CASE m < p
    <3>1. m \in 1..(Len(q) - 1) /\ At[m] = m
      BY <1>1, <2>1
    <3>2. QED
      BY <3>1
  <2>2. CASE m > p
    <3>1. m - 1 \in 1..(Len(q) - 1) /\ At[m - 1] = m
      BY <1>1, <2>2
    <3>2. QED
      BY <3>1
  <2>3. QED
    BY <1>1, <1>5, <2>1, <2>2
<1> HIDE DEF At
<1>6. Ordered(r)
  <2> SUFFICES ASSUME NEW i \in 1..(Len(q) - 1), NEW k \in 1..(Len(q) - 1), i < k
               PROVE  r[i].fire <= r[k].fire
    BY <1>3 DEF Ordered
  <2>1. r[i] = q[At[i]] /\ r[k] = q[At[k]] /\ At[i] \in 1..Len(q) /\ At[k] \in 1..Len(q)
    BY <1>3
  <2>2. At[i] < At[k]
    BY <1>4
  <2>3. q[At[i]].fire <= q[At[k]].fire
    BY <1>1, <2>1, <2>2
  <2>4. QED
    BY <2>1, <2>3
<1>7. Distinct(r)
  <2> SUFFICES ASSUME NEW i \in 1..(Len(q) - 1), NEW k \in 1..(Len(q) - 1),
                      r[i].job = r[k].job
               PROVE  i = k
    BY <1>3 DEF Distinct
  <2>1. r[i] = q[At[i]] /\ r[k] = q[At[k]] /\ At[i] \in 1..Len(q) /\ At[k] \in 1..Len(q)
    BY <1>3
  <2>2. At[i] = At[k]
    BY <1>1, <2>1
  <2>3. QED
    BY <1>4, <2>2
<1>8. JobsIn(r) = JobsIn(q) \ {q[p].job}
  <2>1. ASSUME NEW k \in DOMAIN r
        PROVE  r[k].job \in JobsIn(q) \ {q[p].job}
    BY <1>1, <1>3 DEF JobsIn
  <2>2. ASSUME NEW m \in DOMAIN q, q[m].job # q[p].job
        PROVE  q[m].job \in JobsIn(r)
    <3>1. PICK k \in 1..(Len(q) - 1) : At[k] = m
      BY <1>1, <1>5, <2>2
    <3>2. QED
      BY <1>3, <3>1 DEF JobsIn
  <2>3. QED
    BY <2>1, <2>2 DEF JobsIn
<1>9. QED
  BY <1>3, <1>6, <1>7, <1>8 DEF GoodList, r

(* Take either finds nothing due and leaves the list, or moves one job     *)
(* from the list into the worker's hands.                                  *)
LEMMA TakeLemma ==
    ASSUME NEW q, GoodList(q), Take(q)
    PROVE  \/ jobs' = q /\ jobActive' = FALSE /\ wpc' = "top" /\ wjob' = wjob
           \/ /\ GoodList(jobs')
              /\ wjob' \in JobsIn(q)
              /\ JobsIn(jobs') = JobsIn(q) \ {wjob'}
              /\ jobActive' = TRUE /\ wpc' = "run"
<1>1. q \in Seq(Entries) /\ Len(q) \in Nat /\ DOMAIN q = 1..Len(q)
  BY EntryFields DEF GoodList
<1>2. CASE ~ \E k \in DOMAIN q : Due(q[k])
  BY <1>2 DEF Take
<1>3. CASE \E k \in DOMAIN q : Due(q[k])
  <2> DEFINE First(k) == Due(q[k]) /\ \A i \in 1..(k - 1) : ~Due(q[i])
             P == {k \in 1..Len(q) : Due(q[k])}
             f == CHOOSE k \in DOMAIN q : First(k)
  <2>1. \E k \in DOMAIN q : First(k)
    <3>1. P \in SUBSET (1..Len(q)) /\ P # {}
      BY <1>1, <1>3
    <3>2. \E k \in P : \A i \in 1..(k - 1) : i \notin P
      <4> HIDE DEF P
      <4>1. QED
        BY <1>1, <3>1, FirstPosition
    <3>3. PICK k \in P : \A i \in 1..(k - 1) : i \notin P
      BY <3>2
    <3>4. k \in DOMAIN q /\ Due(q[k]) /\ \A i \in 1..(k - 1) : i \in 1..Len(q)
      BY <1>1
    <3>5. \A i \in 1..(k - 1) : ~Due(q[i])
      BY <3>3, <3>4
    <3>6. QED
      BY <3>4, <3>5
  <2>2. f \in 1..Len(q)
    BY <1>1, <2>1
  <2>3. /\ jobs' = RemoveAt(q, f) /\ wjob' = q[f].job
        /\ jobActive' = TRUE /\ wpc' = "run"
    BY <1>3 DEF Take, FirstIn
  <2> HIDE DEF f
  <2>4. /\ GoodList(RemoveAt(q, f))
        /\ JobsIn(RemoveAt(q, f)) = JobsIn(q) \ {q[f].job}
    BY <2>2, RemoveJobLemma
  <2>5. q[f].job \in JobsIn(q)
    BY <1>1, <2>2 DEF JobsIn
  <2>6. QED
    BY <2>3, <2>4, <2>5
<1>4. QED
  BY <1>2, <1>3

-----------------------------------------------------------------------------
(***************************************************************************)
(* The inductive invariant of the worker and its callers.                  *)
(***************************************************************************)
InJob == {"run", "repeat"}
InClear == {"clearNotify", "clearCheck", "clearWait"}
Leaving == {"idle", "dtorNotify", "join", "joined"}
Places == InClear \cup Leaving \cup {"addNotify", "waitCheck", "waitWait"}

(* Sorted and NoJobLost in the words of the list lemmas.                  *)
ListInv ==
    /\ GoodList(jobs)
    /\ Pending = JobsIn(jobs) \cup ({wjob} \ {NoJob})
    /\ wjob \notin JobsIn(jobs)

(* The worker holds a job exactly while it runs it or puts it back, and    *)
(* _jobActive covers all of that time; it leaves an empty list only.       *)
WorkerInv ==
    /\ wjob # NoJob <=> wpc \in InJob
    /\ wpc \in InJob => jobActive
    /\ wpc = "exit" => finish /\ jobs = <<>>

(* Nobody uses the object once its destructor runs, and once the flag of a *)
(* Clear has fallen none of the jobs it found is pending.                  *)
CallerInv ==
    /\ finish => \A c \in Clients : cpc[c] \in Leaving
    /\ \A c \in Clients : cpc[c] \in InClear => \A j \in atCall[c] : fate[j] # "new"
    /\ \A c \in Clients : cpc[c] \in InClear /\ ~clearJobs
                            => \A j \in atCall[c] : fate[j] # "pending"

IInv == TypeOK /\ ListInv /\ WorkerInv /\ CallerInv

-----------------------------------------------------------------------------
LEMMA InitLemma == Init => IInv
<1> SUFFICES ASSUME Init PROVE IInv
  OBVIOUS
<1>1. TypeOK
  <2>1. jobs \in Seq(Entries)
    BY EmptySeq DEF Init
  <2>2. jobActive \in BOOLEAN /\ clearJobs \in BOOLEAN /\ finish \in BOOLEAN
    BY DEF Init
  <2>3. /\ now \in Nat /\ wdelay \in Nat /\ handler \in {"none", "keep", "clear"}
        /\ wpc = "top" /\ wjob \in Jobs \cup {NoJob}
    BY DEF Init
  <2>4. /\ addedBy \in [Clients -> SUBSET Jobs]
        /\ atCall \in [Clients -> SUBSET Jobs]
        /\ fate \in [Jobs -> {"new", "pending", "finished", "threw", "dropped"}]
        /\ cpc \in [Clients -> {"idle"}]
    BY DEF Init
  <2>5. QED
    BY <2>1, <2>2, <2>3, <2>4 DEF TypeOK
<1>2. GoodList(jobs) /\ JobsIn(jobs) = {} /\ Pending = {}
  BY DEF Init, GoodList, Ordered, Distinct, JobsIn, Pending
<1>3. ListInv
  BY <1>2 DEF ListInv, Init
<1>4. WorkerInv /\ CallerInv
  BY DEF Init, WorkerInv, CallerInv, InJob, InClear
<1>5. QED
  BY <1>1, <1>3, <1>4 DEF IInv

(* Taking the jobs of a list out of the history.                           *)
LEMMA DroppedLemma ==
    ASSUME TypeOK, NEW q
    PROVE  /\ Dropped(fate, q) \in [Jobs -> {"new", "pending", "finished", "threw", "dropped"}]
           /\ \A j \in Jobs : Dropped(fate, q)[j] =
                                 IF j \in JobsIn(q) THEN "dropped" ELSE fate[j]
  BY DEF TypeOK, Dropped, JobsIn

(* The list Top goes on with.                                              *)
LEMMA EmptyList == GoodList(<<>>) /\ JobsIn(<<>>) = {}
  BY DEF GoodList, Ordered, Distinct, JobsIn

(* A list without jobs is empty.                                           *)
LEMMA NoJobsLemma ==
    ASSUME NEW q, GoodList(q), JobsIn(q) = {}
    PROVE  q = <<>>
<1>1. q \in Seq(Entries) /\ Len(q) \in Nat /\ DOMAIN q = 1..Len(q)
  BY EntryFields DEF GoodList
<1>2. \A k \in DOMAIN q : q[k].job \in JobsIn(q)
  BY DEF JobsIn
<1>4. 1 \notin DOMAIN q
  BY <1>2
<1>5. Len(q) = 0
  BY <1>1, <1>4
<1>3. QED
  BY <1>1, <1>5, EmptySeq

-----------------------------------------------------------------------------
(* The steps of the callers and of the environment that touch neither the  *)
(* list, nor the worker's job, nor the history.                            *)
QuietStep ==
    \/ \E c \in Clients :
          \/ AddNotify(c) \/ ClearNotify(c) \/ Wait(c) \/ WaitCheck(c)
          \/ (\E h \in {"keep", "clear"} : SetExceptionHandler(c, h))
          \/ Destroy(c) \/ DestroyNotify(c) \/ Join(c) \/ SpuriousDone(c)
    \/ Announce \/ SpuriousWork \/ Tick
    \/ UNCHANGED vars

LEMMA QuietLemma ==
    ASSUME IInv, QuietStep
    PROVE  IInv'
<1> USE DEF IInv
<1>1. UNCHANGED <<jobs, clearJobs, jobActive, wjob, wdelay, fate, addedBy, atCall>>
  BY DEF QuietStep, AddNotify, ClearNotify, Wait, WaitCheck, SetExceptionHandler, Destroy,
         DestroyNotify, Join, SpuriousDone, Announce, SpuriousWork, Tick,
         vars, object, worker, history
<1>2. /\ wpc' = wpc \/ (wpc \notin InJob /\ wpc' \in {"woken", "relock"})
      /\ now' \in Nat
      /\ handler' \in {"none", "keep", "clear"}
  BY DEF QuietStep, AddNotify, ClearNotify, Wait, WaitCheck, SetExceptionHandler, Destroy,
         DestroyNotify, Join, SpuriousDone, Announce, SpuriousWork, Tick, NotifyWork,
         vars, object, worker, history, InJob, TypeOK
<1>3. finish' \in BOOLEAN /\ (finish => finish')
  BY DEF QuietStep, AddNotify, ClearNotify, Wait, WaitCheck, SetExceptionHandler, Destroy,
         DestroyNotify, Join, SpuriousDone, Announce, SpuriousWork, Tick,
         vars, object, worker, history, TypeOK
<1>4. /\ cpc' \in [Clients -> Places]
      /\ \A c \in Clients : cpc'[c] \in InClear => cpc[c] \in InClear
      /\ finish' => \A c \in Clients : cpc'[c] \in Leaving
  <2>1. /\ cpc \in [Clients -> Places]
        /\ finish => \A c \in Clients : cpc[c] \in Leaving
    BY DEF TypeOK, CallerInv, Places, InClear, Leaving
  <2>2. CASE Announce
    BY <2>1, <2>2 DEF Announce, NotifyDone, object, Places, InClear, Leaving
  <2>3. CASE UNCHANGED cpc /\ UNCHANGED finish
    BY <2>1, <2>3
  <2>4. CASE \E c \in Clients : Destroy(c)
    BY <2>1, <2>4 DEF Destroy, MayCall, Places, InClear, Leaving
  <2>5. CASE \E c \in Clients : \/ AddNotify(c) \/ ClearNotify(c) \/ Wait(c) \/ WaitCheck(c)
                                \/ DestroyNotify(c) \/ Join(c) \/ SpuriousDone(c)
    <3>1. PICK c \in Clients : \/ AddNotify(c) \/ ClearNotify(c) \/ Wait(c) \/ WaitCheck(c)
                               \/ DestroyNotify(c) \/ Join(c) \/ SpuriousDone(c)
      BY <2>5
    <3>2. UNCHANGED finish
      BY <3>1 DEF AddNotify, ClearNotify, Wait, WaitCheck, DestroyNotify, Join, SpuriousDone,
                  object
    <3>3. PICK v \in Places :
             /\ cpc' = [cpc EXCEPT ![c] = v]
             /\ v \in InClear => cpc[c] \in InClear
             /\ finish => v \in Leaving
      BY <2>1, <3>1 DEF AddNotify, ClearNotify, Wait, WaitCheck, DestroyNotify, Join,
                         SpuriousDone, MayCall, Places, InClear, Leaving
    <3>4. QED
      BY <2>1, <3>2, <3>3
  <2>6. QED
    BY <2>2, <2>3, <2>4, <2>5
       DEF QuietStep, SetExceptionHandler, SpuriousWork, Tick, vars, object
<1>5. TypeOK'
  BY <1>1, <1>2, <1>3, <1>4 DEF TypeOK, Places, InClear, Leaving, InJob
<1>6. ListInv'
  BY <1>1 DEF ListInv, GoodList, Ordered, Distinct, JobsIn, Pending
<1>7. WorkerInv'
  BY <1>1, <1>2, <1>3 DEF WorkerInv, InJob
<1>8. CallerInv'
  BY <1>1, <1>4 DEF CallerInv
<1>9. QED
  BY <1>5, <1>6, <1>7, <1>8

-----------------------------------------------------------------------------
(* The steps of a caller that touch the list or the history.               *)

LEMMA AddJobLemma ==
    ASSUME IInv, NEW c \in Clients, NEW j \in Jobs, NEW d \in Delays, AddJob(c, j, d)
    PROVE  IInv'
<1> USE DEF IInv
<1> DEFINE e == [job |-> j, fire |-> now + d]
<1>1. e \in Entries /\ e.job = j
  BY DelaysAssumption DEF TypeOK, Entries
<1>2. j \notin Pending /\ j # NoJob
  BY JobsAssumption DEF AddJob, Pending
<1>3. j \notin JobsIn(jobs) /\ j # wjob
  BY <1>2 DEF ListInv
<1>4. jobs' = InsertJob(jobs, e)
  BY DEF AddJob
<1> HIDE DEF e
<1>5. GoodList(jobs') /\ JobsIn(jobs') = JobsIn(jobs) \cup {j}
  <2>1. GoodList(InsertJob(jobs, e)) /\ JobsIn(InsertJob(jobs, e)) = JobsIn(jobs) \cup {e.job}
    BY <1>1, <1>3, InsertJobLemma DEF ListInv
  <2>2. QED
    BY <1>1, <1>4, <2>1
<1>6. /\ fate' \in [Jobs -> {"new", "pending", "finished", "threw", "dropped"}]
      /\ fate'[j] = "pending" /\ fate[j] = "new"
      /\ \A o \in Jobs \ {j} : fate'[o] = fate[o]
      /\ Pending' = Pending \cup {j}
  BY DEF AddJob, TypeOK, Pending
<1>7. UNCHANGED <<now, jobActive, clearJobs, finish, handler, wpc, wjob, wdelay, atCall>>
  BY DEF AddJob, worker
<1>8. /\ cpc' = [cpc EXCEPT ![c] = "addNotify"]
      /\ addedBy' = [addedBy EXCEPT ![c] = @ \cup {j}]
      /\ ~finish
  BY DEF AddJob, MayCall
<1>9. TypeOK'
  BY <1>5, <1>6, <1>7, <1>8 DEF TypeOK, GoodList
<1>10. ListInv'
  BY <1>3, <1>5, <1>6, <1>7 DEF ListInv
<1>11. WorkerInv'
  BY <1>7, <1>8 DEF WorkerInv
<1>12. CallerInv'
  <2>1. ~finish'
    BY <1>7, <1>8
  <2>2. ASSUME NEW o \in Clients, cpc'[o] \in InClear
        PROVE  /\ atCall'[o] = atCall[o] /\ atCall[o] \subseteq Jobs
               /\ cpc[o] \in InClear /\ j \notin atCall[o]
    <3>1. cpc[o] \in InClear
      BY <1>8, <2>2 DEF TypeOK, InClear
    <3>2. QED
      BY <1>6, <1>7, <3>1 DEF CallerInv, TypeOK
  <2>3. QED
    BY <1>6, <1>7, <2>1, <2>2 DEF CallerInv
<1>13. QED
  BY <1>9, <1>10, <1>11, <1>12

LEMMA ClearLemma ==
    ASSUME IInv, NEW c \in Clients, Clear(c)
    PROVE  IInv'
<1> USE DEF IInv
<1>1. UNCHANGED <<now, jobs, jobActive, finish, handler, wpc, wjob, wdelay, fate, addedBy>>
  BY DEF Clear, worker
<1>2. /\ cpc' = [cpc EXCEPT ![c] = "clearNotify"]
      /\ atCall' = [atCall EXCEPT ![c] = Pending]
      /\ clearJobs' = TRUE /\ ~finish
  BY DEF Clear, MayCall
<1>3. Pending \subseteq Jobs /\ \A j \in Pending : fate[j] # "new"
  BY DEF Pending
<1>4. TypeOK'
  <2>1. clearJobs' \in BOOLEAN
    BY <1>2
  <2>2. QED
    BY <1>1, <1>2, <1>3, <2>1 DEF TypeOK
<1>5. ListInv'
  BY <1>1 DEF ListInv, GoodList, Ordered, Distinct, JobsIn, Pending
<1>6. WorkerInv'
  BY <1>1 DEF WorkerInv
<1>7. CallerInv'
  <2>1. ASSUME NEW o \in Clients, cpc'[o] \in InClear
        PROVE  \A j \in atCall'[o] : fate'[j] # "new"
    <3>1. CASE o = c
      BY <1>1, <1>2, <1>3, <3>1 DEF TypeOK
    <3>2. CASE o # c
      BY <1>1, <1>2, <2>1, <3>2 DEF TypeOK, CallerInv
    <3>3. QED
      BY <3>1, <3>2
  <2>2. QED
    BY <1>1, <1>2, <2>1 DEF CallerInv
<1>8. QED
  BY <1>4, <1>5, <1>6, <1>7

LEMMA ClearCheckLemma ==
    ASSUME IInv, NEW c \in Clients, ClearCheck(c)
    PROVE  IInv'
<1> USE DEF IInv
<1>1. UNCHANGED <<now, jobs, jobActive, clearJobs, finish, handler, wpc, wjob, wdelay,
                  fate, addedBy>>
  BY DEF ClearCheck, object, worker
<1>2. /\ cpc[c] = "clearCheck"
      /\ cpc' = [cpc EXCEPT ![c] = IF clearJobs THEN "clearWait" ELSE "idle"]
      /\ atCall' = [atCall EXCEPT ![c] = IF clearJobs THEN @ ELSE {}]
  BY DEF ClearCheck
<1>3. TypeOK'
  BY <1>1, <1>2 DEF TypeOK
<1>4. ListInv'
  BY <1>1 DEF ListInv, GoodList, Ordered, Distinct, JobsIn, Pending
<1>5. WorkerInv'
  BY <1>1 DEF WorkerInv
<1>6. CallerInv'
  <2>1. ~finish'
    BY <1>1, <1>2 DEF CallerInv, Leaving
  <2>2. ASSUME NEW o \in Clients, cpc'[o] \in InClear
        PROVE  cpc[o] \in InClear /\ atCall'[o] = atCall[o]
    BY <1>2, <2>2 DEF TypeOK, InClear
  <2>3. QED
    BY <1>1, <2>1, <2>2 DEF CallerInv
<1>7. QED
  BY <1>3, <1>4, <1>5, <1>6

-----------------------------------------------------------------------------
(* The steps of the worker.                                                *)

(* Taking from a good list leaves all of its jobs accounted for.           *)
LEMMA TakeStepLemma ==
    ASSUME NEW q, GoodList(q), JobsIn(q) \subseteq Jobs, wjob = NoJob, Take(q)
    PROVE  /\ GoodList(jobs')
           /\ JobsIn(q) = JobsIn(jobs') \cup ({wjob'} \ {NoJob})
           /\ wjob' \notin JobsIn(jobs')
           /\ wjob' \in Jobs \cup {NoJob}
           /\ jobActive' \in BOOLEAN
           /\ wpc' \in {"top", "run"}
           /\ wjob' # NoJob <=> wpc' \in InJob
           /\ wpc' \in InJob => jobActive'
<1>1. CASE jobs' = q /\ jobActive' = FALSE /\ wpc' = "top" /\ wjob' = wjob
  BY <1>1, JobsAssumption DEF InJob
<1>2. CASE /\ GoodList(jobs')
           /\ wjob' \in JobsIn(q)
           /\ JobsIn(jobs') = JobsIn(q) \ {wjob'}
           /\ jobActive' = TRUE /\ wpc' = "run"
  BY <1>2, JobsAssumption DEF InJob
<1>3. QED
  BY <1>1, <1>2, TakeLemma

(* A step of the worker that ends its critical section with Take.          *)
LEMMA TakeInvLemma ==
    ASSUME IInv, NEW q, GoodList(q), JobsIn(q) = Pending', wjob = NoJob, Take(q),
           UNCHANGED <<now, finish, handler, wdelay, cpc, addedBy, atCall>>,
           fate' \in [Jobs -> {"new", "pending", "finished", "threw", "dropped"}],
           clearJobs' \in BOOLEAN, CallerInv'
    PROVE  IInv'
<1>1. JobsIn(q) \subseteq Jobs
  BY DEF Pending
<1>2. /\ GoodList(jobs')
      /\ JobsIn(q) = JobsIn(jobs') \cup ({wjob'} \ {NoJob})
      /\ wjob' \notin JobsIn(jobs')
      /\ wjob' \in Jobs \cup {NoJob}
      /\ jobActive' \in BOOLEAN
      /\ wpc' \in {"top", "run"}
      /\ wjob' # NoJob <=> wpc' \in InJob
      /\ wpc' \in InJob => jobActive'
  BY <1>1, TakeStepLemma
<1>3. TypeOK'
  BY <1>2 DEF IInv, TypeOK, GoodList
<1>4. ListInv'
  BY <1>2 DEF ListInv
<1>5. WorkerInv'
  BY <1>2 DEF WorkerInv
<1>6. QED
  BY <1>3, <1>4, <1>5 DEF IInv

(* At the top of the loop and when it wakes up the worker holds no job.    *)
LEMMA HandsEmptyLemma ==
    ASSUME IInv, wpc \notin InJob
    PROVE  /\ wjob = NoJob
           /\ Pending = JobsIn(jobs)
           /\ GoodList(jobs)
  BY DEF IInv, ListInv, WorkerInv

LEMMA WokenLemma ==
    ASSUME IInv, Woken
    PROVE  IInv'
<1>1. wjob = NoJob /\ Pending = JobsIn(jobs) /\ GoodList(jobs)
  BY HandsEmptyLemma DEF Woken, InJob
<1>2. UNCHANGED <<now, clearJobs, finish, handler, wdelay, cpc, fate, addedBy, atCall>>
  BY DEF Woken, history
<1>3. CallerInv' /\ Pending' = Pending
  BY <1>2 DEF IInv, CallerInv, Pending
<1>4. /\ fate' \in [Jobs -> {"new", "pending", "finished", "threw", "dropped"}]
      /\ clearJobs' \in BOOLEAN
  BY <1>2 DEF IInv, TypeOK
<1>5. Take(jobs)
  BY DEF Woken
<1>6. QED
  BY <1>1, <1>2, <1>3, <1>4, <1>5, TakeInvLemma

LEMMA RelockLemma ==
    ASSUME IInv, Relock
    PROVE  IInv'
<1>1. wjob = NoJob /\ Pending = JobsIn(jobs) /\ GoodList(jobs)
  BY HandsEmptyLemma DEF Relock, InJob
<1>2. UNCHANGED <<now, finish, handler, wdelay, cpc, fate, addedBy, atCall>>
  BY DEF Relock, history
<1>3. Pending' = Pending
  BY <1>2 DEF Pending
<1>4. CASE jobs = <<>>
  <2>1. /\ clearJobs' = FALSE
        /\ wpc' = IF finish THEN "exit" ELSE "waiting"
        /\ UNCHANGED <<jobs, jobActive, wjob>>
    BY <1>4 DEF Relock
  <2>2. Pending = {}
    BY <1>1, <1>4, EmptyList
  <2>3. TypeOK'
    <3>1. clearJobs' \in BOOLEAN
      BY <2>1
    <3>2. QED
      BY <1>2, <2>1, <3>1 DEF IInv, TypeOK
  <2>4. ListInv'
    BY <1>2, <2>1 DEF IInv, ListInv, GoodList, Ordered, Distinct, JobsIn, Pending
  <2>5. WorkerInv'
    BY <1>1, <1>2, <1>4, <2>1 DEF WorkerInv, InJob
  <2>6. CallerInv'
    <3>1. \A j \in Jobs : fate[j] # "pending"
      BY <2>2 DEF Pending
    <3>2. \A c \in Clients : atCall[c] \subseteq Jobs
      BY DEF IInv, TypeOK
    <3>3. QED
      BY <1>2, <3>1, <3>2 DEF IInv, CallerInv
  <2>7. QED
    BY <2>3, <2>4, <2>5, <2>6 DEF IInv
<1>5. CASE jobs # <<>>
  <2>1. Take(jobs) /\ UNCHANGED clearJobs
    BY <1>5 DEF Relock
  <2>2. CallerInv'
    BY <1>2, <2>1 DEF IInv, CallerInv
  <2>3. /\ fate' \in [Jobs -> {"new", "pending", "finished", "threw", "dropped"}]
        /\ clearJobs' \in BOOLEAN
    BY <1>2, <2>1 DEF IInv, TypeOK
  <2>4. QED
    BY <1>1, <1>2, <1>3, <2>1, <2>2, <2>3, TakeInvLemma
<1>6. QED
  BY <1>4, <1>5

LEMMA TopLemma ==
    ASSUME IInv, Top
    PROVE  IInv'
<1> DEFINE q == IF clearJobs THEN <<>> ELSE jobs
<1>1. wjob = NoJob /\ Pending = JobsIn(jobs) /\ GoodList(jobs)
  BY HandsEmptyLemma DEF Top, InJob
<1>2. /\ UNCHANGED <<now, finish, handler, wdelay, cpc, addedBy, atCall>>
      /\ clearJobs' = FALSE
      /\ fate' = IF clearJobs THEN Dropped(fate, jobs) ELSE fate
      /\ IF q = <<>>
         THEN jobs' = q /\ jobActive' = FALSE /\ wpc' = "announce" /\ UNCHANGED wjob
         ELSE Take(q)
  BY DEF Top
<1>3. GoodList(q)
  BY <1>1, EmptyList
<1>4. /\ fate' \in [Jobs -> {"new", "pending", "finished", "threw", "dropped"}]
      /\ JobsIn(q) = Pending'
      /\ \A j \in Jobs : fate'[j] = "new" => fate[j] = "new"
      /\ \A j \in Jobs : fate'[j] = "pending" => fate[j] = "pending" /\ ~clearJobs
  <2>1. CASE clearJobs
    <3>1. /\ fate' \in [Jobs -> {"new", "pending", "finished", "threw", "dropped"}]
          /\ \A j \in Jobs : fate'[j] = IF j \in JobsIn(jobs) THEN "dropped" ELSE fate[j]
      BY <1>2, <2>1, DroppedLemma DEF IInv
    <3>2. \A j \in Jobs : fate[j] = "pending" => j \in JobsIn(jobs)
      BY <1>1 DEF Pending
    <3>3. \A j \in Jobs : fate'[j] # "pending"
      BY <3>1, <3>2
    <3>4. Pending' = {} /\ JobsIn(q) = {}
      BY <2>1, <3>3, EmptyList DEF Pending
    <3>5. QED
      BY <3>1, <3>3, <3>4
  <2>2. CASE ~clearJobs
    BY <1>1, <1>2, <2>2 DEF IInv, TypeOK, Pending
  <2>3. QED
    BY <2>1, <2>2
<1>5. clearJobs' \in BOOLEAN
  BY <1>2
<1>6. CallerInv'
  <2>1. \A c \in Clients : atCall[c] \subseteq Jobs
    BY DEF IInv, TypeOK
  <2>2. QED
    BY <1>2, <1>4, <2>1 DEF IInv, CallerInv
<1> HIDE DEF q
<1>7. CASE q = <<>>
  <2>1. jobs' = q /\ jobActive' = FALSE /\ wpc' = "announce" /\ UNCHANGED wjob
    BY <1>2, <1>7
  <2>2. TypeOK'
    <3>1. jobActive' \in BOOLEAN /\ jobs' \in Seq(Entries)
      BY <1>3, <2>1 DEF GoodList
    <3>2. QED
      BY <1>2, <1>4, <1>5, <2>1, <3>1 DEF IInv, TypeOK
  <2>3. ListInv'
    <3>1. wjob \notin JobsIn(q) /\ JobsIn(q) = {}
      BY <1>7, EmptyList
    <3>2. GoodList(jobs') /\ JobsIn(jobs') = JobsIn(q)
      BY <1>3, <2>1
    <3>3. QED
      BY <1>1, <1>4, <2>1, <3>1, <3>2 DEF ListInv
  <2>4. WorkerInv'
    BY <1>1, <2>1 DEF WorkerInv, InJob
  <2>5. QED
    BY <1>6, <2>2, <2>3, <2>4 DEF IInv
<1>8. CASE q # <<>>
  <2>1. Take(q)
    BY <1>2, <1>8
  <2>2. QED
    BY <1>1, <1>2, <1>3, <1>4, <1>5, <1>6, <2>1, TakeInvLemma
<1>9. QED
  BY <1>7, <1>8

(* The job in the worker's hands is a pending one that is not in the list. *)
LEMMA InHandsLemma ==
    ASSUME IInv, wpc \in InJob
    PROVE  /\ wjob \in Jobs /\ fate[wjob] = "pending"
           /\ wjob \notin JobsIn(jobs)
           /\ Pending = JobsIn(jobs) \cup {wjob}
           /\ GoodList(jobs)
<1>1. wjob # NoJob /\ wjob \in Jobs
  BY DEF IInv, WorkerInv, TypeOK
<1>2. Pending = JobsIn(jobs) \cup {wjob}
  BY <1>1 DEF IInv, ListInv
<1>3. wjob \in Pending
  BY <1>2
<1>4. QED
  BY <1>1, <1>2, <1>3 DEF IInv, ListInv, Pending

LEMMA RunOnceLemma ==
    ASSUME IInv, RunOnce
    PROVE  IInv'
<1>1. /\ wjob \in Jobs /\ wjob \notin JobsIn(jobs)
      /\ Pending = JobsIn(jobs) \cup {wjob} /\ GoodList(jobs)
  BY InHandsLemma DEF RunOnce, InJob
<1>2. /\ UNCHANGED <<now, jobs, jobActive, clearJobs, finish, handler, wdelay, cpc, addedBy,
                     atCall>>
      /\ wpc' = "top" /\ wjob' = NoJob
      /\ fate' = [fate EXCEPT ![wjob] = "finished"]
  BY DEF RunOnce, object
<1>3. /\ fate' \in [Jobs -> {"new", "pending", "finished", "threw", "dropped"}]
      /\ fate'[wjob] = "finished"
      /\ \A j \in Jobs \ {wjob} : fate'[j] = fate[j]
  BY <1>1, <1>2 DEF IInv, TypeOK
<1>4. Pending' = JobsIn(jobs)
  BY <1>1, <1>3 DEF Pending
<1>5. TypeOK'
  BY <1>2, <1>3 DEF IInv, TypeOK
<1>6. ListInv'
  <2>1. GoodList(jobs') /\ JobsIn(jobs') = JobsIn(jobs)
    BY <1>1, <1>2
  <2>2. NoJob \notin Pending
    BY JobsAssumption DEF Pending
  <2>3. QED
    BY <1>1, <1>2, <1>4, <2>1, <2>2 DEF ListInv
<1>7. WorkerInv'
  BY <1>2 DEF WorkerInv, InJob
<1>8. CallerInv'
  <2>1. \A c \in Clients : atCall[c] \subseteq Jobs
    BY DEF IInv, TypeOK
  <2>2. \A j \in Jobs : /\ fate'[j] = "new" => fate[j] = "new"
                        /\ fate'[j] = "pending" => fate[j] = "pending"
    BY <1>3
  <2>3. QED
    BY <1>2, <2>1, <2>2 DEF IInv, CallerInv
<1>9. QED
  BY <1>5, <1>6, <1>7, <1>8 DEF IInv

LEMMA RunRepeatLemma ==
    ASSUME IInv, NEW d \in Delays, RunRepeat(d)
    PROVE  IInv'
<1>1. /\ UNCHANGED <<now, jobs, jobActive, clearJobs, finish, handler, wjob, cpc, fate, addedBy,
                     atCall>>
      /\ wpc = "run" /\ wpc' = "repeat" /\ wdelay' = d
  BY DEF RunRepeat, object, history
<1>2. TypeOK'
  BY <1>1, DelaysAssumption DEF IInv, TypeOK
<1>3. ListInv'
  BY <1>1 DEF IInv, ListInv, GoodList, Ordered, Distinct, JobsIn, Pending
<1>4. WorkerInv'
  BY <1>1 DEF IInv, WorkerInv, InJob
<1>5. CallerInv'
  BY <1>1 DEF IInv, CallerInv
<1>6. QED
  BY <1>2, <1>3, <1>4, <1>5 DEF IInv

LEMMA RepeatJobLemma ==
    ASSUME IInv, RepeatJob
    PROVE  IInv'
<1> DEFINE e == [job |-> wjob, fire |-> now + wdelay]
<1>1. /\ wjob \in Jobs /\ wjob \notin JobsIn(jobs)
      /\ Pending = JobsIn(jobs) \cup {wjob} /\ GoodList(jobs)
  BY InHandsLemma DEF RepeatJob, InJob
<1>2. /\ UNCHANGED <<now, jobActive, clearJobs, finish, handler, cpc, fate, addedBy, atCall>>
      /\ wpc' = "top" /\ wjob' = NoJob /\ wdelay' = 0
      /\ jobs' = InsertJob(jobs, e)
  BY DEF RepeatJob, history
<1>3. e \in Entries /\ e.job = wjob
  BY <1>1 DEF IInv, TypeOK, Entries
<1> HIDE DEF e
<1>4. GoodList(jobs') /\ JobsIn(jobs') = JobsIn(jobs) \cup {wjob}
  <2>1. GoodList(InsertJob(jobs, e)) /\ JobsIn(InsertJob(jobs, e)) = JobsIn(jobs) \cup {e.job}
    BY <1>1, <1>3, InsertJobLemma
  <2>2. QED
    BY <1>2, <1>3, <2>1
<1>5. TypeOK'
  BY <1>2, <1>4 DEF IInv, TypeOK, GoodList
<1>6. ListInv'
  <2>1. Pending' = Pending /\ NoJob \notin Pending
    BY <1>2, JobsAssumption DEF Pending
  <2>2. QED
    BY <1>1, <1>2, <1>4, <2>1 DEF ListInv
<1>7. WorkerInv'
  BY <1>2 DEF WorkerInv, InJob
<1>8. CallerInv'
  BY <1>2 DEF IInv, CallerInv
<1>9. QED
  BY <1>5, <1>6, <1>7, <1>8 DEF IInv

LEMMA RunThrowLemma ==
    ASSUME IInv, RunThrow
    PROVE  IInv'
<1> DEFINE f == IF handler = "clear" THEN Dropped(fate, jobs) ELSE fate
<1>1. /\ wjob \in Jobs /\ wjob \notin JobsIn(jobs)
      /\ Pending = JobsIn(jobs) \cup {wjob} /\ GoodList(jobs)
  BY InHandsLemma DEF RunThrow, InJob
<1>2. /\ UNCHANGED <<now, jobActive, clearJobs, finish, handler, wdelay, cpc, addedBy, atCall>>
      /\ wpc' = "top" /\ wjob' = NoJob
      /\ jobs' = IF handler = "clear" THEN <<>> ELSE jobs
      /\ fate' = [f EXCEPT ![wjob] = "threw"]
  BY DEF RunThrow
<1>3. GoodList(jobs')
  BY <1>1, <1>2, EmptyList
<1>4. /\ f \in [Jobs -> {"new", "pending", "finished", "threw", "dropped"}]
      /\ \A j \in Jobs : f[j] = IF handler = "clear" /\ j \in JobsIn(jobs)
                                THEN "dropped" ELSE fate[j]
  <2>1. CASE handler = "clear"
    BY <2>1, DroppedLemma DEF IInv
  <2>2. CASE handler # "clear"
    BY <2>2 DEF IInv, TypeOK
  <2>3. QED
    BY <2>1, <2>2
<1> HIDE DEF f
<1>5. /\ fate' \in [Jobs -> {"new", "pending", "finished", "threw", "dropped"}]
      /\ fate'[wjob] = "threw"
      /\ \A j \in Jobs \ {wjob} : fate'[j] = f[j]
  BY <1>1, <1>2, <1>4
<1>6. Pending' = JobsIn(jobs')
  <2>1. CASE handler = "clear"
    <3>1. JobsIn(jobs') = {}
      BY <1>2, <2>1, EmptyList
    <3>2. \A j \in Jobs : fate[j] = "pending" => j \in JobsIn(jobs) \/ j = wjob
      BY <1>1 DEF Pending
    <3>3. \A j \in Jobs : fate'[j] # "pending"
      BY <1>4, <1>5, <2>1, <3>2
    <3>4. QED
      BY <3>1, <3>3 DEF Pending
  <2>2. CASE handler # "clear"
    <3>1. jobs' = jobs
      BY <1>2, <2>2
    <3>2. \A j \in Jobs : fate'[j] = "pending" <=> fate[j] = "pending" /\ j # wjob
      BY <1>4, <1>5, <2>2
    <3>3. Pending' = Pending \ {wjob}
      BY <3>2 DEF Pending
    <3>4. JobsIn(jobs') = JobsIn(jobs)
      BY <3>1
    <3>5. QED
      BY <1>1, <3>3, <3>4
  <2>3. QED
    BY <2>1, <2>2
<1>7. TypeOK'
  BY <1>2, <1>3, <1>5 DEF IInv, TypeOK, GoodList
<1>8. ListInv'
  <2>1. NoJob \notin Pending'
    BY JobsAssumption DEF Pending
  <2>2. QED
    BY <1>2, <1>3, <1>6, <2>1 DEF ListInv
<1>9. WorkerInv'
  BY <1>2 DEF WorkerInv, InJob
<1>10. CallerInv'
  <2>1. \A c \in Clients : atCall[c] \subseteq Jobs
    BY DEF IInv, TypeOK
  <2>2. \A j \in Jobs : /\ fate'[j] = "new" => fate[j] = "new"
                        /\ fate'[j] = "pending" => fate[j] = "pending"
    BY <1>4, <1>5
  <2>3. QED
    BY <1>2, <2>1, <2>2 DEF IInv, CallerInv
<1>11. QED
  BY <1>7, <1>8, <1>9, <1>10 DEF IInv

-----------------------------------------------------------------------------
LEMMA StepLemma == IInv /\ [Next]_vars => IInv'
<1> SUFFICES ASSUME IInv, [Next]_vars PROVE IInv'
  OBVIOUS
<1>1. CASE QuietStep
  BY <1>1, QuietLemma
<1>2. ASSUME NEW c \in Clients, CallerProceeds(c) \/ CallerStarts(c) \/ SpuriousDone(c)
      PROVE  IInv'
  <2>1. ASSUME NEW j \in Jobs, NEW d \in Delays, AddJob(c, j, d)
        PROVE  IInv'
    BY <2>1, AddJobLemma
  <2>2. CASE Clear(c)
    BY <2>2, ClearLemma
  <2>3. CASE ClearCheck(c)
    BY <2>3, ClearCheckLemma
  <2>4. QED
    BY <1>1, <1>2, <2>1, <2>2, <2>3 DEF CallerProceeds, CallerStarts, QuietStep
<1>3. CASE WorkerProceeds
  <2>1. ASSUME NEW d \in Delays, RunRepeat(d)
        PROVE  IInv'
    BY <2>1, RunRepeatLemma
  <2>2. QED
    BY <1>1, <1>3, <2>1, TopLemma, RelockLemma, WokenLemma, RunOnceLemma, RunThrowLemma,
       RepeatJobLemma DEF WorkerProceeds, QuietStep
<1>4. CASE SpuriousWork \/ Tick \/ UNCHANGED vars
  BY <1>1, <1>4 DEF QuietStep
<1>5. QED
  BY <1>2, <1>3, <1>4 DEF Next

LEMMA InvariantLemma == Spec => []IInv
<1>1. QED
  BY InitLemma, StepLemma, PTL DEF Spec

(* Type correctness of the worker thread, for any jobs, callers and delays. *)
THEOREM TypeTheorem == Spec => []TypeOK
<1>1. IInv => TypeOK
  BY DEF IInv
<1>2. QED
  BY <1>1, InvariantLemma, PTL

(* However AddJob, the repetitions, Clear and the exceptions interleave,   *)
(* _jobs stays in the order of the fire times.                             *)
THEOREM SortedTheorem == Spec => []Sorted
<1>1. IInv => Sorted
  BY DEF IInv, ListInv, GoodList, Ordered, Sorted
<1>2. QED
  BY <1>1, InvariantLemma, PTL

(* No job that was added is ever lost or in two places.                    *)
THEOREM NoJobLostTheorem == Spec => []NoJobLost
<1>1. IInv => NoJobLost
  <2> SUFFICES ASSUME IInv PROVE NoJobLost
    OBVIOUS
  <2>1. \A i, k \in DOMAIN jobs : jobs[i].job = jobs[k].job => i = k
    BY DEF IInv, ListInv, GoodList, Distinct
  <2>2. \A k \in DOMAIN jobs : jobs[k].job # wjob
    BY DEF IInv, ListInv, JobsIn
  <2>3. ASSUME NEW j \in Jobs
        PROVE  fate[j] = "pending" <=> \/ j = wjob
                                       \/ \E k \in DOMAIN jobs : jobs[k].job = j
    <3>1. fate[j] = "pending" <=> j \in Pending
      BY DEF Pending
    <3>2. j \in Pending <=> j = wjob \/ j \in JobsIn(jobs)
      BY JobsAssumption DEF IInv, ListInv
    <3>3. QED
      BY <3>1, <3>2 DEF JobsIn
  <2>4. QED
    BY <2>1, <2>2, <2>3 DEF NoJobLost
<1>2. QED
  BY <1>1, InvariantLemma, PTL

(* ~WorkThread returns from join only when no job is left behind.          *)
THEOREM DestroyDrainsTheorem == Spec => []DestroyDrains
<1>1. IInv => DestroyDrains
  <2> SUFFICES ASSUME IInv, wpc = "exit" PROVE Pending = {}
    BY DEF DestroyDrains
  <2>1. Pending = JobsIn(jobs)
    BY HandsEmptyLemma DEF InJob
  <2>2. jobs = <<>>
    BY DEF IInv, WorkerInv
  <2>3. QED
    BY <2>1, <2>2, EmptyList
<1>2. QED
  BY <1>1, InvariantLemma, PTL

(* No job is lost while the thread lives, and none is left when it ends.   *)
THEOREM JobsKeptTheorem == Spec => []JobsKept
<1>1. NoJobLost /\ DestroyDrains => JobsKept
  BY DEF JobsKept
<1>2. QED
  BY <1>1, NoJobLostTheorem, DestroyDrainsTheorem, PTL

(* The caller that leaves its call in this step.                           *)
LeavesFrom(c, place) == cpc[c] = place /\ cpc'[c] = "idle"

(* Only its own check of the condition lets a caller out of Wait or Clear. *)
LEMMA LeavesLemma ==
    ASSUME IInv, [Next]_vars, NEW c \in Clients
    PROVE  /\ LeavesFrom(c, "waitCheck") => WaitCheck(c)
           /\ LeavesFrom(c, "clearCheck") => ClearCheck(c)
<1> USE DEF LeavesFrom, IInv, TypeOK, Next, vars, object, worker, history,
            CallerProceeds, CallerStarts, WorkerProceeds,
            AddJob, AddNotify, Clear, ClearNotify, ClearCheck, Wait, WaitCheck,
            SetExceptionHandler, Destroy, DestroyNotify, Join, SpuriousDone, SpuriousWork, Tick,
            Top, Announce, NotifyDone, Relock, Woken, RunOnce, RunRepeat, RunThrow, RepeatJob,
            MayCall
<1>1. LeavesFrom(c, "waitCheck") => WaitCheck(c)
  OBVIOUS
<1>2. LeavesFrom(c, "clearCheck") => ClearCheck(c)
  OBVIOUS
<1>3. QED
  BY <1>1, <1>2

(* When Wait returns no job at all is pending, its caller's included.      *)
THEOREM WaitDrainsTheorem == Spec => WaitDrains
<1>1. ASSUME IInv, [Next]_vars, NEW c \in Clients, LeavesFrom(c, "waitCheck")
      PROVE  \A j \in addedBy[c] : fate[j] # "pending"
  <2>1. jobs = <<>> /\ ~jobActive
    <3>1. cpc' = [cpc EXCEPT ![c] = IF jobs # <<>> \/ jobActive THEN "waitWait" ELSE "idle"]
      BY <1>1, LeavesLemma DEF WaitCheck
    <3>2. cpc \in [Clients -> {"idle", "addNotify", "clearNotify", "clearCheck", "clearWait",
                               "waitCheck", "waitWait", "dtorNotify", "join", "joined"}]
      BY <1>1 DEF IInv, TypeOK
    <3>3. QED
      BY <1>1, <3>1, <3>2 DEF LeavesFrom
  <2>2. wpc \notin InJob
    BY <1>1, <2>1 DEF IInv, WorkerInv
  <2>3. Pending = {}
    BY <1>1, <2>1, <2>2, HandsEmptyLemma, EmptyList
  <2>4. addedBy[c] \subseteq Jobs
    BY <1>1 DEF IInv, TypeOK
  <2>5. QED
    BY <2>3, <2>4 DEF Pending
<1>2. IInv /\ [Next]_vars
        => [\A c \in Clients : cpc[c] = "waitCheck" /\ cpc'[c] = "idle"
                                => \A j \in addedBy[c] : fate[j] # "pending"]_vars
  BY <1>1 DEF LeavesFrom
<1>3. QED
  BY <1>2, InvariantLemma, PTL DEF Spec, WaitDrains

(* When Clear returns none of the jobs it found is pending.                *)
THEOREM ClearDropsTheorem == Spec => ClearDrops
<1>1. ASSUME IInv, [Next]_vars, NEW c \in Clients, LeavesFrom(c, "clearCheck")
      PROVE  \A j \in atCall[c] : fate[j] # "pending"
  <2>1. ~clearJobs
    <3>1. cpc' = [cpc EXCEPT ![c] = IF clearJobs THEN "clearWait" ELSE "idle"]
      BY <1>1, LeavesLemma DEF ClearCheck
    <3>2. cpc \in [Clients -> {"idle", "addNotify", "clearNotify", "clearCheck", "clearWait",
                               "waitCheck", "waitWait", "dtorNotify", "join", "joined"}]
      BY <1>1 DEF IInv, TypeOK
    <3>3. QED
      BY <1>1, <3>1, <3>2 DEF LeavesFrom
  <2>2. cpc[c] \in InClear
    BY <1>1 DEF LeavesFrom, InClear
  <2>3. QED
    BY <1>1, <2>1, <2>2 DEF IInv, CallerInv
<1>2. IInv /\ [Next]_vars
        => [\A c \in Clients : cpc[c] = "clearCheck" /\ cpc'[c] = "idle"
                                => \A j \in atCall[c] : fate[j] # "pending"]_vars
  BY <1>1 DEF LeavesFrom
<1>3. QED
  BY <1>2, InvariantLemma, PTL DEF Spec, ClearDrops

(* Wait and Clear keep their promises to their callers.                    *)
THEOREM CallsServedTheorem == Spec => CallsServed
<1>1. QED
  BY WaitDrainsTheorem, ClearDropsTheorem DEF CallsServed

-----------------------------------------------------------------------------
(***************************************************************************)
(* WorkThread implements JobSchedule: what its list, its two condition     *)
(* variables and its lock do together is to keep a set of jobs in which    *)
(* nobody is overtaken by a job that was added later and fires no earlier. *)
(***************************************************************************)
(* The mapping, for any list: the entries that wait, and which of the jobs *)
(* has to run before which.                                                *)
EntriesOf(q) == {q[k] : k \in DOMAIN q}
BeforeIn(q) == {<<q[p[1]].job, q[p[2]].job>> :
                   p \in {r \in (DOMAIN q) \X (DOMAIN q) : r[1] < r[2]}}

(* A repeating job asks for one of the delays: what JobSchedule's Repeat   *)
(* needs to know of the worker beyond IInv.                                *)
DelayInv == wdelay \in Delays

-----------------------------------------------------------------------------
LEMMA BeforeLemma ==
    ASSUME NEW q, NEW a, NEW b
    PROVE  <<a, b>> \in BeforeIn(q) <=>
              \E i, k \in DOMAIN q : i < k /\ q[i].job = a /\ q[k].job = b
<1>1. ASSUME <<a, b>> \in BeforeIn(q)
      PROVE  \E i, k \in DOMAIN q : i < k /\ q[i].job = a /\ q[k].job = b
  <2>1. PICK p \in (DOMAIN q) \X (DOMAIN q) :
           p[1] < p[2] /\ <<a, b>> = <<q[p[1]].job, q[p[2]].job>>
    BY <1>1 DEF BeforeIn
  <2>2. p[1] \in DOMAIN q /\ p[2] \in DOMAIN q
    BY <2>1
  <2>3. QED
    BY <2>1, <2>2
<1>2. ASSUME NEW i \in DOMAIN q, NEW k \in DOMAIN q, i < k, q[i].job = a, q[k].job = b
      PROVE  <<a, b>> \in BeforeIn(q)
  <2>1. /\ <<i, k>> \in {r \in (DOMAIN q) \X (DOMAIN q) : r[1] < r[2]}
        /\ <<a, b>> = <<q[<<i, k>>[1]].job, q[<<i, k>>[2]].job>>
    BY <1>2
  <2>2. QED
    BY <2>1 DEF BeforeIn
<1>3. QED
  BY <1>1, <1>2

(* Every member of BeforeIn(q) is a pair.                                  *)
LEMMA BeforePairs ==
    ASSUME NEW q, NEW p \in BeforeIn(q)
    PROVE  \E i, k \in DOMAIN q : i < k /\ p = <<q[i].job, q[k].job>>
<1>1. PICK r \in (DOMAIN q) \X (DOMAIN q) :
         r[1] < r[2] /\ p = <<q[r[1]].job, q[r[2]].job>>
  BY DEF BeforeIn
<1>2. r[1] \in DOMAIN q /\ r[2] \in DOMAIN q
  BY <1>1
<1>3. QED
  BY <1>1, <1>2

LEMMA EmptyMapped == EntriesOf(<<>>) = {} /\ BeforeIn(<<>>) = {}
<1>1. EntriesOf(<<>>) = {}
  BY DEF EntriesOf
<1>2. \A p \in BeforeIn(<<>>) : FALSE
  <2> SUFFICES ASSUME NEW p \in BeforeIn(<<>>) PROVE FALSE
    OBVIOUS
  <2>1. \E i, k \in DOMAIN <<>> : i < k /\ p = <<(<<>>)[i].job, (<<>>)[k].job>>
    BY BeforePairs
  <2>2. QED
    BY <2>1
<1>3. QED
  BY <1>1, <1>2

-----------------------------------------------------------------------------
(* Where the positions of q are found after an insertion at p.             *)
LEMMA ShiftLemma ==
    ASSUME NEW q \in Seq(Entries), NEW e \in Entries, NEW p \in 1..(Len(q) + 1),
           NEW r, Inserted(q, p, e, r)
    PROVE  /\ DOMAIN q = 1..Len(q) /\ Len(q) \in Nat
           /\ DOMAIN r = 1..(Len(q) + 1)
           /\ p \in DOMAIN r /\ r[p] = e
           /\ \A k \in DOMAIN q : IF k < p THEN k \in DOMAIN r /\ r[k] = q[k]
                                           ELSE k + 1 \in DOMAIN r /\ r[k + 1] = q[k]
           /\ \A k \in DOMAIN r : \/ k = p
                                  \/ k < p /\ k \in DOMAIN q
                                  \/ k > p /\ k - 1 \in DOMAIN q /\ r[k] = q[k - 1]
<1>1. /\ DOMAIN q = 1..Len(q) /\ Len(q) \in Nat
      /\ r \in Seq(Entries) /\ Len(r) = Len(q) + 1 /\ DOMAIN r = 1..Len(r)
      /\ \A k \in 1..Len(r) : r[k] = IF k < p THEN q[k] ELSE IF k = p THEN e ELSE q[k - 1]
  BY EntryFields DEF Inserted
<1>2. \A k \in DOMAIN q : IF k < p THEN k \in DOMAIN r /\ r[k] = q[k]
                                   ELSE k + 1 \in DOMAIN r /\ r[k + 1] = q[k]
  <2> SUFFICES ASSUME NEW k \in DOMAIN q
               PROVE  IF k < p THEN k \in DOMAIN r /\ r[k] = q[k]
                               ELSE k + 1 \in DOMAIN r /\ r[k + 1] = q[k]
    OBVIOUS
  <2>1. CASE k < p
    BY <1>1, <2>1
  <2>2. CASE ~(k < p)
    <3>1. k + 1 \in 1..Len(r) /\ ~(k + 1 < p) /\ k + 1 # p /\ (k + 1) - 1 = k
      BY <1>1, <2>2
    <3>2. QED
      BY <1>1, <2>2, <3>1
  <2>3. QED
    BY <2>1, <2>2
<1>3. QED
  BY <1>1, <1>2

(* An insertion where InsertJob inserts is JobSchedule's Enter.            *)
LEMMA EnterLemma ==
    ASSUME NEW q, GoodList(q), NEW e \in Entries
    PROVE  /\ EntriesOf(InsertJob(q, e)) = EntriesOf(q) \cup {e}
           /\ BeforeIn(InsertJob(q, e)) =
                 BeforeIn(q) \cup {<<x.job, e.job>> : x \in {y \in EntriesOf(q) : y.fire <= e.fire}}
                             \cup {<<e.job, x.job>> : x \in {y \in EntriesOf(q) : y.fire > e.fire}}
<1> DEFINE r == InsertJob(q, e)
           ahead == {<<x.job, e.job>> : x \in {y \in EntriesOf(q) : y.fire <= e.fire}}
           behind == {<<e.job, x.job>> : x \in {y \in EntriesOf(q) : y.fire > e.fire}}
<1>1. PICK p \in 1..(Len(q) + 1) :
         /\ Inserted(q, p, e, r)
         /\ \A k \in 1..Len(q) : IF k < p THEN q[k].fire <= e.fire ELSE e.fire < q[k].fire
  BY InsertPosition
<1> HIDE DEF r
<1>2. /\ DOMAIN q = 1..Len(q) /\ Len(q) \in Nat
      /\ DOMAIN r = 1..(Len(q) + 1)
      /\ p \in DOMAIN r /\ r[p] = e
      /\ \A k \in DOMAIN q : IF k < p THEN k \in DOMAIN r /\ r[k] = q[k]
                                      ELSE k + 1 \in DOMAIN r /\ r[k + 1] = q[k]
      /\ \A k \in DOMAIN r : \/ k = p
                             \/ k < p /\ k \in DOMAIN q
                             \/ k > p /\ k - 1 \in DOMAIN q /\ r[k] = q[k - 1]
  BY <1>1, ShiftLemma DEF GoodList
<1>3. \A k \in DOMAIN q : q[k].fire \in Nat
  BY EntryFields DEF GoodList
<1>4. e.fire \in Nat
  BY DEF Entries
<1>5. \A k \in DOMAIN q : IF k < p THEN q[k].fire <= e.fire ELSE q[k].fire > e.fire
  BY <1>1, <1>2, <1>3, <1>4
<1>6. EntriesOf(r) = EntriesOf(q) \cup {e}
  <2>1. ASSUME NEW k \in DOMAIN r PROVE r[k] \in EntriesOf(q) \cup {e}
    BY <1>2 DEF EntriesOf
  <2>2. ASSUME NEW k \in DOMAIN q PROVE q[k] \in EntriesOf(r)
    BY <1>2 DEF EntriesOf
  <2>3. e \in EntriesOf(r)
    BY <1>2 DEF EntriesOf
  <2>4. QED
    BY <2>1, <2>2, <2>3 DEF EntriesOf
<1>7. ASSUME NEW k \in DOMAIN q, k < p
      PROVE  <<q[k].job, e.job>> \in ahead
  BY <1>5, <1>7 DEF EntriesOf
<1>8. ASSUME NEW k \in DOMAIN q, ~(k < p)
      PROVE  <<e.job, q[k].job>> \in behind
  BY <1>5, <1>8 DEF EntriesOf
<1>9. ASSUME NEW i \in DOMAIN r, NEW k \in DOMAIN r, i < k
      PROVE  <<r[i].job, r[k].job>> \in BeforeIn(q) \cup ahead \cup behind
  <2>1. CASE k = p
    BY <1>2, <1>7, <1>9, <2>1
  <2>2. CASE i = p
    <3>1. k - 1 \in DOMAIN q /\ r[k] = q[k - 1] /\ ~(k - 1 < p)
      BY <1>2, <1>9, <2>2
    <3>2. <<e.job, q[k - 1].job>> \in behind
      BY <1>8, <3>1
    <3>3. QED
      BY <1>2, <2>2, <3>1, <3>2
  <2>3. CASE i # p /\ k # p
    <3>1. PICK a \in DOMAIN q : r[i] = q[a] /\ (a = i \/ a = i - 1) /\ (a = i => i < p)
                                                                    /\ (a = i - 1 => i > p)
      BY <1>2, <2>3
    <3>2. PICK b \in DOMAIN q : r[k] = q[b] /\ (b = k \/ b = k - 1) /\ (b = k => k < p)
                                                                    /\ (b = k - 1 => k > p)
      BY <1>2, <2>3
    <3>3. a < b
      BY <1>2, <1>9, <3>1, <3>2
    <3>4. <<q[a].job, q[b].job>> \in BeforeIn(q)
      BY <3>3, BeforeLemma
    <3>5. QED
      BY <3>1, <3>2, <3>4
  <2>4. QED
    BY <2>1, <2>2, <2>3
<1>10. BeforeIn(r) \subseteq BeforeIn(q) \cup ahead \cup behind
  <2> SUFFICES ASSUME NEW x \in BeforeIn(r)
               PROVE  x \in BeforeIn(q) \cup ahead \cup behind
    OBVIOUS
  <2>1. PICK i \in DOMAIN r, k \in DOMAIN r : i < k /\ x = <<r[i].job, r[k].job>>
    BY BeforePairs
  <2>2. QED
    BY <1>9, <2>1
<1>11. ASSUME NEW i \in DOMAIN q, NEW k \in DOMAIN q, i < k
       PROVE  <<q[i].job, q[k].job>> \in BeforeIn(r)
  <2>1. PICK a \in DOMAIN r : r[a] = q[i] /\ a = IF i < p THEN i ELSE i + 1
    BY <1>2
  <2>2. PICK b \in DOMAIN r : r[b] = q[k] /\ b = IF k < p THEN k ELSE k + 1
    BY <1>2
  <2>3. a < b
    BY <1>2, <1>11, <2>1, <2>2
  <2>4. QED
    BY <2>1, <2>2, <2>3, BeforeLemma
<1>12. BeforeIn(q) \subseteq BeforeIn(r)
  <2> SUFFICES ASSUME NEW x \in BeforeIn(q)
               PROVE  x \in BeforeIn(r)
    OBVIOUS
  <2>1. PICK i \in DOMAIN q, k \in DOMAIN q : i < k /\ x = <<q[i].job, q[k].job>>
    BY BeforePairs
  <2>2. QED
    BY <1>11, <2>1
<1>13. ahead \subseteq BeforeIn(r)
  <2> SUFFICES ASSUME NEW k \in DOMAIN q, q[k].fire <= e.fire
               PROVE  <<q[k].job, e.job>> \in BeforeIn(r)
    BY DEF EntriesOf
  <2>1. k < p
    BY <1>3, <1>4, <1>5
  <2>2. k \in DOMAIN r /\ r[k] = q[k]
    BY <1>2, <2>1
  <2>3. QED
    BY <1>2, <2>1, <2>2, BeforeLemma
<1>14. behind \subseteq BeforeIn(r)
  <2> SUFFICES ASSUME NEW k \in DOMAIN q, q[k].fire > e.fire
               PROVE  <<e.job, q[k].job>> \in BeforeIn(r)
    BY DEF EntriesOf
  <2>1. ~(k < p)
    BY <1>3, <1>4, <1>5
  <2>2. k + 1 \in DOMAIN r /\ r[k + 1] = q[k] /\ p < k + 1
    BY <1>2, <2>1
  <2>3. QED
    BY <1>2, <2>2, BeforeLemma
<1>15. BeforeIn(r) = BeforeIn(q) \cup ahead \cup behind
  <2> HIDE DEF ahead, behind
  <2>1. QED
    BY <1>10, <1>12, <1>13, <1>14
<1>16. QED
  BY <1>6, <1>15 DEF r

(* Taking the first entry of a list is JobSchedule's Start.                *)
LEMMA LeaveLemma ==
    ASSUME NEW q, GoodList(q), q # <<>>
    PROVE  /\ EntriesOf(RemoveAt(q, 1)) = EntriesOf(q) \ {q[1]}
           /\ BeforeIn(RemoveAt(q, 1)) = {p \in BeforeIn(q) : q[1].job \notin {p[1], p[2]}}
           /\ \A x \in EntriesOf(q) : <<x.job, q[1].job>> \notin BeforeIn(q)
           /\ q[1] \in EntriesOf(q)
<1> DEFINE r == RemoveAt(q, 1)
<1>1. /\ q \in Seq(Entries) /\ DOMAIN q = 1..Len(q) /\ Len(q) \in Nat
      /\ \A i, k \in DOMAIN q : q[i].job = q[k].job => i = k
  BY EntryFields DEF GoodList, Distinct
<1>2. 1 \in DOMAIN q
  BY <1>1, EmptySeq
<1>3. Removed(q, 1, r)
  BY <1>1, <1>2, RemoveAtLemma
<1> HIDE DEF r
<1>4. /\ DOMAIN r = 1..(Len(q) - 1)
      /\ \A k \in DOMAIN r : k + 1 \in DOMAIN q /\ r[k] = q[k + 1]
      /\ \A k \in DOMAIN q \ {1} : k - 1 \in DOMAIN r /\ r[k - 1] = q[k]
  <2>1. r \in Seq(Entries) /\ Len(r) = Len(q) - 1 /\ DOMAIN r = 1..Len(r)
    BY <1>3, EntryFields DEF Removed
  <2>2. \A k \in DOMAIN r : k + 1 \in DOMAIN q /\ r[k] = q[k + 1]
    BY <1>1, <1>3, <2>1 DEF Removed
  <2>3. ASSUME NEW k \in DOMAIN q \ {1}
        PROVE  k - 1 \in DOMAIN r /\ r[k - 1] = q[k]
    <3>1. k - 1 \in DOMAIN r /\ (k - 1) + 1 = k
      BY <1>1, <2>1
    <3>2. QED
      BY <2>2, <3>1
  <2>4. QED
    BY <2>1, <2>2, <2>3
<1>5. EntriesOf(r) = EntriesOf(q) \ {q[1]}
  <2>1. ASSUME NEW k \in DOMAIN r PROVE r[k] \in EntriesOf(q) \ {q[1]}
    <3>1. k + 1 \in DOMAIN q /\ r[k] = q[k + 1] /\ k + 1 # 1
      BY <1>4
    <3>2. q[k + 1] # q[1]
      BY <1>1, <1>2, <3>1
    <3>3. QED
      BY <3>1, <3>2 DEF EntriesOf
  <2>2. ASSUME NEW k \in DOMAIN q, q[k] # q[1] PROVE q[k] \in EntriesOf(r)
    BY <1>4, <2>2 DEF EntriesOf
  <2>3. QED
    BY <2>1, <2>2 DEF EntriesOf
<1>6. ASSUME NEW i \in DOMAIN r, NEW k \in DOMAIN r, i < k
      PROVE  /\ <<r[i].job, r[k].job>> \in BeforeIn(q)
             /\ q[1].job # r[i].job /\ q[1].job # r[k].job
  <2>1. /\ i + 1 \in DOMAIN q /\ r[i] = q[i + 1] /\ i + 1 # 1
        /\ k + 1 \in DOMAIN q /\ r[k] = q[k + 1] /\ k + 1 # 1
        /\ i + 1 < k + 1
    BY <1>4, <1>6
  <2>2. QED
    BY <1>1, <1>2, <2>1, BeforeLemma
<1>7. ASSUME NEW i \in DOMAIN q, NEW k \in DOMAIN q, i < k,
             q[1].job # q[i].job, q[1].job # q[k].job
      PROVE  <<q[i].job, q[k].job>> \in BeforeIn(r)
  <2>1. /\ i - 1 \in DOMAIN r /\ r[i - 1] = q[i]
        /\ k - 1 \in DOMAIN r /\ r[k - 1] = q[k]
        /\ i - 1 < k - 1
    BY <1>1, <1>4, <1>7
  <2>2. QED
    BY <2>1, BeforeLemma
<1>8. BeforeIn(r) = {p \in BeforeIn(q) : q[1].job \notin {p[1], p[2]}}
  <2>1. ASSUME NEW p \in BeforeIn(r)
        PROVE  p \in BeforeIn(q) /\ q[1].job \notin {p[1], p[2]}
    <3>1. PICK i \in DOMAIN r, k \in DOMAIN r : i < k /\ p = <<r[i].job, r[k].job>>
      BY BeforePairs
    <3>2. QED
      BY <1>6, <3>1
  <2>2. ASSUME NEW p \in BeforeIn(q), q[1].job \notin {p[1], p[2]}
        PROVE  p \in BeforeIn(r)
    <3>1. PICK i \in DOMAIN q, k \in DOMAIN q : i < k /\ p = <<q[i].job, q[k].job>>
      BY BeforePairs
    <3>2. QED
      BY <1>7, <2>2, <3>1
  <2>3. QED
    BY <2>1, <2>2
<1>9. ASSUME NEW x, <<x.job, q[1].job>> \in BeforeIn(q) PROVE FALSE
  <2>1. PICK i \in DOMAIN q, k \in DOMAIN q : i < k /\ q[k].job = q[1].job
    BY <1>9, BeforeLemma
  <2>2. k = 1
    BY <1>1, <1>2, <2>1
  <2>3. QED
    BY <1>1, <2>1, <2>2
<1>10. QED
  BY <1>2, <1>5, <1>8, <1>9 DEF EntriesOf, r

(* What Take does to the mapped state: nothing, or Start of the first      *)
(* entry, which the order of the list makes the first one that is due.     *)
LEMMA TakeFirstLemma ==
    ASSUME TypeOK, NEW q, GoodList(q), Take(q)
    PROVE  \/ jobs' = q /\ wjob' = wjob
           \/ /\ q # <<>> /\ q[1].fire <= now
              /\ jobs' = RemoveAt(q, 1)
              /\ wjob' = q[1].job
<1>1. /\ DOMAIN q = 1..Len(q) /\ Len(q) \in Nat
      /\ \A k \in DOMAIN q : q[k].fire \in Nat
      /\ \A i, k \in DOMAIN q : i < k => q[i].fire <= q[k].fire
  BY EntryFields DEF GoodList, Ordered
<1>2. CASE ~ \E k \in DOMAIN q : Due(q[k])
  BY <1>2 DEF Take
<1>3. CASE \E k \in DOMAIN q : Due(q[k])
  <2>1. PICK k \in DOMAIN q : q[k].fire <= now
    BY <1>3 DEF Due
  <2>2. 1 \in DOMAIN q /\ q # <<>>
    BY <1>1, <2>1
  <2>3. q[1].fire <= now
    <3>1. k = 1 \/ 1 < k
      BY <1>1
    <3>2. q[1].fire <= q[k].fire
      BY <1>1, <2>2, <3>1
    <3>3. now \in Nat
      BY DEF TypeOK
    <3>4. QED
      BY <1>1, <2>1, <2>2, <3>2, <3>3
  <2> DEFINE First(m) == Due(q[m]) /\ \A i \in 1..(m - 1) : ~Due(q[i])
             f == CHOOSE m \in DOMAIN q : First(m)
  <2>4. First(1)
    BY <2>3 DEF Due
  <2>5. f \in DOMAIN q /\ First(f)
    BY <2>2, <2>4
  <2>6. f = 1
    <3>1. f = 1 \/ 1 \in 1..(f - 1)
      BY <1>1, <2>5
    <3>2. QED
      BY <2>4, <2>5, <3>1
  <2>7. jobs' = RemoveAt(q, f) /\ wjob' = q[f].job
    BY <1>3 DEF Take, FirstIn
  <2>8. QED
    BY <2>2, <2>3, <2>6, <2>7
<1>4. QED
  BY <1>2, <1>3

-----------------------------------------------------------------------------
(* The steps of JobSchedule, in the words of this module.                  *)

LEMMA MappedLemma ==
    /\ Schedule!Next <=>
          \/ Schedule!Tick
          \/ \E j \in Jobs, d \in Delays : Schedule!Add(j, d)
          \/ \E e \in EntriesOf(jobs) : Schedule!Start(e)
          \/ Schedule!Finish
          \/ \E d \in Delays : Schedule!Repeat(d)
          \/ Schedule!DropAll
    /\ \A j, d : Schedule!Add(j, d) <=>
          /\ j \notin {e.job : e \in EntriesOf(jobs)} \cup {wjob}
          /\ EntriesOf(jobs)' = EntriesOf(jobs) \cup {[job |-> j, fire |-> now + d]}
          /\ BeforeIn(jobs)' =
                BeforeIn(jobs) \cup {<<e.job, j>> : e \in {x \in EntriesOf(jobs) : x.fire <= now + d}}
                               \cup {<<j, e.job>> : e \in {x \in EntriesOf(jobs) : x.fire > now + d}}
          /\ UNCHANGED <<now, wjob>>
    /\ \A e : Schedule!Start(e) <=>
          /\ wjob = NoJob
          /\ e.fire <= now
          /\ \A x \in EntriesOf(jobs) : <<x.job, e.job>> \notin BeforeIn(jobs)
          /\ EntriesOf(jobs)' = EntriesOf(jobs) \ {e}
          /\ BeforeIn(jobs)' = {p \in BeforeIn(jobs) : e.job \notin {p[1], p[2]}}
          /\ wjob' = e.job
          /\ UNCHANGED now
    /\ Schedule!Finish <=>
          /\ wjob # NoJob /\ wjob' = NoJob
          /\ UNCHANGED <<now, EntriesOf(jobs), BeforeIn(jobs)>>
    /\ \A d : Schedule!Repeat(d) <=>
          /\ wjob # NoJob
          /\ EntriesOf(jobs)' = EntriesOf(jobs) \cup {[job |-> wjob, fire |-> now + d]}
          /\ BeforeIn(jobs)' =
                BeforeIn(jobs) \cup {<<e.job, wjob>> : e \in {x \in EntriesOf(jobs) : x.fire <= now + d}}
                               \cup {<<wjob, e.job>> : e \in {x \in EntriesOf(jobs) : x.fire > now + d}}
          /\ wjob' = NoJob
          /\ UNCHANGED now
    /\ Schedule!DropAll <=>
          /\ EntriesOf(jobs)' = {} /\ BeforeIn(jobs)' = {}
          /\ wjob' \in {wjob, NoJob}
          /\ UNCHANGED now
    /\ Schedule!Tick <=>
          /\ now' = now + 1
          /\ UNCHANGED <<EntriesOf(jobs), BeforeIn(jobs), wjob>>
    /\ UNCHANGED Schedule!vars <=> UNCHANGED <<now, EntriesOf(jobs), BeforeIn(jobs), wjob>>
    /\ Schedule!Init <=>
          now = 0 /\ EntriesOf(jobs) = {} /\ BeforeIn(jobs) = {} /\ wjob = NoJob
  BY DEF Schedule!Next, Schedule!Tick, Schedule!Add, Schedule!Enter, Schedule!Start,
         Schedule!Finish, Schedule!Repeat, Schedule!DropAll, Schedule!vars, Schedule!Init,
         Schedule!JobsOf, EntriesOf, BeforeIn

(* The same list, the same mapped state.                                   *)
LEMMA SameList ==
    ASSUME jobs' = jobs
    PROVE  EntriesOf(jobs)' = EntriesOf(jobs) /\ BeforeIn(jobs)' = BeforeIn(jobs)
  BY DEF EntriesOf, BeforeIn

LEMMA ListNow ==
    /\ EntriesOf(jobs)' = EntriesOf(jobs')
    /\ BeforeIn(jobs)' = BeforeIn(jobs')
  BY DEF EntriesOf, BeforeIn

(* A step that ends with Take of the list as it is.                        *)
LEMMA TakeMappedLemma ==
    ASSUME IInv, wjob = NoJob, Take(jobs), UNCHANGED now
    PROVE  [Schedule!Next]_(Schedule!vars)
<1>1. GoodList(jobs) /\ TypeOK
  BY DEF IInv, ListInv
<1>2. CASE jobs' = jobs /\ wjob' = wjob
  BY <1>2, SameList, MappedLemma
<1>3. CASE /\ jobs # <<>> /\ jobs[1].fire <= now
           /\ jobs' = RemoveAt(jobs, 1)
           /\ wjob' = jobs[1].job
  <2> DEFINE e == jobs[1]
             left == RemoveAt(jobs, 1)
  <2>1. /\ EntriesOf(left) = EntriesOf(jobs) \ {e}
        /\ BeforeIn(left) = {p \in BeforeIn(jobs) : e.job \notin {p[1], p[2]}}
        /\ \A x \in EntriesOf(jobs) : <<x.job, e.job>> \notin BeforeIn(jobs)
        /\ e \in EntriesOf(jobs)
    BY <1>1, <1>3, LeaveLemma
  <2>2. EntriesOf(jobs)' = EntriesOf(left) /\ BeforeIn(jobs)' = BeforeIn(left)
    BY <1>3, ListNow
  <2>3. e.fire <= now /\ wjob' = e.job
    BY <1>3
  <2>4. PICK x : x = e
    OBVIOUS
  <2>5. Schedule!Start(x)
    <3> HIDE DEF e, left
    <3>1. QED
      BY <2>1, <2>2, <2>3, <2>4, MappedLemma
  <2>6. QED
    BY <2>1, <2>4, <2>5, MappedLemma
<1>4. QED
  BY <1>1, <1>2, <1>3, TakeFirstLemma

(* A job that enters the list.                                             *)
LEMMA EnterMappedLemma ==
    ASSUME GoodList(jobs), NEW j \in Jobs, NEW t \in Nat,
           jobs' = InsertJob(jobs, [job |-> j, fire |-> t])
    PROVE
      /\ EntriesOf(jobs)' = EntriesOf(jobs) \cup {[job |-> j, fire |-> t]}
      /\ BeforeIn(jobs)' =
            BeforeIn(jobs) \cup {<<e.job, j>> : e \in {x \in EntriesOf(jobs) : x.fire <= t}}
                           \cup {<<j, e.job>> : e \in {x \in EntriesOf(jobs) : x.fire > t}}
<1> DEFINE e == [job |-> j, fire |-> t]
<1>1. e \in Entries /\ e.job = j /\ e.fire = t
  BY DEF Entries
<1>2. jobs' = InsertJob(jobs, e)
  OBVIOUS
<1>3. e = [job |-> j, fire |-> t]
  OBVIOUS
<1> HIDE DEF e
<1>4. /\ EntriesOf(InsertJob(jobs, e)) = EntriesOf(jobs) \cup {e}
      /\ BeforeIn(InsertJob(jobs, e)) =
            BeforeIn(jobs)
              \cup {<<x.job, e.job>> : x \in {y \in EntriesOf(jobs) : y.fire <= e.fire}}
              \cup {<<e.job, x.job>> : x \in {y \in EntriesOf(jobs) : y.fire > e.fire}}
  BY <1>1, EnterLemma
<1>5. EntriesOf(jobs)' = EntriesOf(InsertJob(jobs, e)) /\ BeforeIn(jobs)' = BeforeIn(InsertJob(jobs, e))
  BY <1>2, ListNow
<1>6. QED
  BY <1>1, <1>3, <1>4, <1>5

-----------------------------------------------------------------------------
LEMMA AddMapped ==
    ASSUME IInv, NEW c \in Clients, NEW j \in Jobs, NEW d \in Delays, AddJob(c, j, d)
    PROVE  Schedule!Next
<1>1. /\ fate[j] = "new"
      /\ jobs' = InsertJob(jobs, [job |-> j, fire |-> now + d])
      /\ UNCHANGED <<now, wjob>>
  BY DEF AddJob, worker
<1>2. now + d \in Nat
  BY DelaysAssumption DEF IInv, TypeOK
<1>3. GoodList(jobs) /\ j \notin JobsIn(jobs) \cup {wjob}
  <2>1. j \notin Pending /\ j # NoJob
    BY <1>1, JobsAssumption DEF Pending
  <2>2. QED
    BY <2>1 DEF IInv, ListInv
<1>4. {e.job : e \in EntriesOf(jobs)} = JobsIn(jobs)
  BY DEF EntriesOf, JobsIn
<1>5. PICK t \in Nat : t = now + d
  BY <1>2
<1>6. /\ EntriesOf(jobs)' = EntriesOf(jobs) \cup {[job |-> j, fire |-> t]}
      /\ BeforeIn(jobs)' =
            BeforeIn(jobs) \cup {<<e.job, j>> : e \in {x \in EntriesOf(jobs) : x.fire <= t}}
                           \cup {<<j, e.job>> : e \in {x \in EntriesOf(jobs) : x.fire > t}}
  BY <1>1, <1>3, <1>5, EnterMappedLemma
<1>7. Schedule!Add(j, d)
  BY <1>1, <1>3, <1>4, <1>5, <1>6, MappedLemma
<1>8. QED
  BY <1>7, MappedLemma

LEMMA TopMapped ==
    ASSUME IInv, Top
    PROVE  [Schedule!Next]_(Schedule!vars)
<1>1. wjob = NoJob /\ UNCHANGED now
  BY HandsEmptyLemma DEF Top, InJob
<1>2. CASE clearJobs \/ jobs = <<>>
  <2>1. jobs' = <<>> /\ UNCHANGED wjob
    BY <1>2 DEF Top
  <2>2. EntriesOf(jobs)' = {} /\ BeforeIn(jobs)' = {}
    BY <2>1, ListNow, EmptyMapped
  <2>3. Schedule!DropAll
    BY <1>1, <2>1, <2>2, MappedLemma
  <2>4. QED
    BY <2>3, MappedLemma
<1>3. CASE ~clearJobs /\ jobs # <<>>
  <2>1. Take(jobs)
    BY <1>3 DEF Top
  <2>2. QED
    BY <1>1, <2>1, TakeMappedLemma
<1>4. QED
  BY <1>2, <1>3

LEMMA RelockMapped ==
    ASSUME IInv, Relock
    PROVE  [Schedule!Next]_(Schedule!vars)
<1>1. wjob = NoJob /\ UNCHANGED now
  BY HandsEmptyLemma DEF Relock, InJob
<1>2. CASE jobs = <<>>
  <2>1. UNCHANGED <<jobs, wjob>>
    BY <1>2 DEF Relock
  <2>2. QED
    BY <1>1, <2>1, SameList, MappedLemma
<1>3. CASE jobs # <<>>
  <2>1. Take(jobs)
    BY <1>3 DEF Relock
  <2>2. QED
    BY <1>1, <2>1, TakeMappedLemma
<1>4. QED
  BY <1>2, <1>3

LEMMA WokenMapped ==
    ASSUME IInv, Woken
    PROVE  [Schedule!Next]_(Schedule!vars)
<1>1. wjob = NoJob /\ UNCHANGED now /\ Take(jobs)
  BY HandsEmptyLemma DEF Woken, InJob
<1>2. QED
  BY <1>1, TakeMappedLemma

LEMMA RunOnceMapped ==
    ASSUME IInv, RunOnce
    PROVE  Schedule!Next
<1>1. wjob # NoJob /\ wjob' = NoJob /\ UNCHANGED <<now, jobs>>
  BY DEF RunOnce, object, IInv, WorkerInv, InJob
<1>2. Schedule!Finish
  BY <1>1, SameList, MappedLemma
<1>3. QED
  BY <1>2, MappedLemma

LEMMA RunThrowMapped ==
    ASSUME IInv, RunThrow
    PROVE  Schedule!Next
<1>1. wjob # NoJob /\ wjob' = NoJob /\ UNCHANGED now
  BY DEF RunThrow, IInv, WorkerInv, InJob
<1>2. CASE handler = "clear"
  <2>1. jobs' = <<>>
    BY <1>2 DEF RunThrow
  <2>2. EntriesOf(jobs)' = {} /\ BeforeIn(jobs)' = {}
    BY <2>1, ListNow, EmptyMapped
  <2>3. Schedule!DropAll
    BY <1>1, <2>2, MappedLemma
  <2>4. QED
    BY <2>3, MappedLemma
<1>3. CASE handler # "clear"
  <2>1. jobs' = jobs
    BY <1>3 DEF RunThrow
  <2>2. Schedule!Finish
    BY <1>1, <2>1, SameList, MappedLemma
  <2>3. QED
    BY <2>2, MappedLemma
<1>4. QED
  BY <1>2, <1>3

LEMMA RepeatMapped ==
    ASSUME IInv, DelayInv, RepeatJob
    PROVE  Schedule!Next
<1>1. /\ jobs' = InsertJob(jobs, [job |-> wjob, fire |-> now + wdelay])
      /\ wjob' = NoJob /\ UNCHANGED now
  BY DEF RepeatJob
<1>2. wjob \in Jobs /\ GoodList(jobs)
  BY InHandsLemma DEF RepeatJob, InJob
<1>3. wjob # NoJob
  BY <1>2, JobsAssumption
<1>4. now + wdelay \in Nat
  BY DEF IInv, TypeOK
<1>5. PICK d \in Delays, t \in Nat : d = wdelay /\ t = now + d
  BY <1>4 DEF DelayInv
<1>6. PICK j \in Jobs : j = wjob
  BY <1>2
<1>7. /\ EntriesOf(jobs)' = EntriesOf(jobs) \cup {[job |-> j, fire |-> t]}
      /\ BeforeIn(jobs)' =
            BeforeIn(jobs) \cup {<<e.job, j>> : e \in {x \in EntriesOf(jobs) : x.fire <= t}}
                           \cup {<<j, e.job>> : e \in {x \in EntriesOf(jobs) : x.fire > t}}
  BY <1>1, <1>2, <1>5, <1>6, EnterMappedLemma
<1>8. Schedule!Repeat(d)
  BY <1>1, <1>3, <1>5, <1>6, <1>7, MappedLemma
<1>9. QED
  BY <1>8, MappedLemma

(* Everything else stutters, or is a tick of the clock.                    *)
LEMMA QuietMapped ==
    ASSUME \/ QuietStep
           \/ \E c \in Clients : Clear(c) \/ ClearCheck(c)
           \/ \E d \in Delays : RunRepeat(d)
    PROVE  [Schedule!Next]_(Schedule!vars)
<1>1. UNCHANGED <<jobs, wjob>> /\ (now' = now \/ now' = now + 1)
  BY DEF QuietStep, AddNotify, ClearNotify, Wait, WaitCheck, SetExceptionHandler, Destroy,
         DestroyNotify, Join, SpuriousDone, Announce, SpuriousWork, Tick, Clear, ClearCheck,
         RunRepeat, vars, object, worker, history
<1>2. CASE now' = now
  BY <1>1, <1>2, SameList, MappedLemma
<1>3. CASE now' = now + 1
  <2>1. Schedule!Tick
    BY <1>1, <1>3, SameList, MappedLemma
  <2>2. QED
    BY <2>1, MappedLemma
<1>4. QED
  BY <1>1, <1>2, <1>3

LEMMA StepMapped ==
    ASSUME IInv, DelayInv, [Next]_vars
    PROVE  [Schedule!Next]_(Schedule!vars)
<1>1. ASSUME NEW c \in Clients, CallerProceeds(c) \/ CallerStarts(c) \/ SpuriousDone(c)
      PROVE  [Schedule!Next]_(Schedule!vars)
  <2>1. ASSUME NEW j \in Jobs, NEW d \in Delays, AddJob(c, j, d)
        PROVE  Schedule!Next
    BY <2>1, AddMapped
  <2>2. QED
    BY <1>1, <2>1, QuietMapped DEF CallerProceeds, CallerStarts, QuietStep
<1>2. CASE WorkerProceeds
  BY <1>2, TopMapped, RelockMapped, WokenMapped, RunOnceMapped, RunThrowMapped, RepeatMapped,
     QuietMapped DEF WorkerProceeds, QuietStep
<1>3. CASE SpuriousWork \/ Tick \/ UNCHANGED vars
  BY <1>3, QuietMapped DEF QuietStep
<1>4. QED
  BY <1>1, <1>2, <1>3 DEF Next

LEMMA DelayStep ==
    ASSUME DelayInv, [Next]_vars
    PROVE  DelayInv'
  BY DelaysAssumption
     DEF DelayInv, Next, vars, object, worker, history, CallerProceeds, CallerStarts,
         WorkerProceeds, AddJob, AddNotify, Clear, ClearNotify, ClearCheck, Wait, WaitCheck,
         SetExceptionHandler, Destroy, DestroyNotify, Join, SpuriousDone, SpuriousWork, Tick,
         Top, Announce, Relock, Woken, RunOnce, RunRepeat, RunThrow, RepeatJob

LEMMA InitMapped == Init => Schedule!Init
<1> SUFFICES ASSUME Init PROVE Schedule!Init
  OBVIOUS
<1>1. now = 0 /\ jobs = <<>> /\ wjob = NoJob
  BY DEF Init
<1>2. EntriesOf(jobs) = {} /\ BeforeIn(jobs) = {}
  BY <1>1, EmptyMapped
<1>3. QED
  BY <1>1, <1>2, MappedLemma

(* WorkThread implements JobSchedule: no job starts before its time, or    *)
(* while another one runs, or before a job that was added earlier and      *)
(* fires no later.                                                         *)
THEOREM ScheduleTheorem == Spec => ScheduleSpec
<1>1. Init => DelayInv
  BY DelaysAssumption DEF Init, DelayInv
<1>2. DelayInv /\ [Next]_vars => DelayInv'
  BY DelayStep
<1>3. Spec => []DelayInv
  BY <1>1, <1>2, PTL DEF Spec
<1>4. IInv /\ DelayInv /\ [Next]_vars => [Schedule!Next]_(Schedule!vars)
  BY StepMapped
<1>5. QED
  BY <1>3, <1>4, InitMapped, InvariantLemma, PTL DEF Spec, ScheduleSpec, Schedule!Spec
=============================================================================
