--------------------------- MODULE CrittersProofs ---------------------------
(***************************************************************************)
(* Proofs about Critters for any critters and maps, and for scripts that   *)
(* call one another as deep and as often as they like.                     *)
(***************************************************************************)
EXTENDS Critters, SequenceTheorems, FiniteSetTheorems,
        WellFoundedInduction, TLAPS

Things == Critters \cup Maps \cup (Critters \X Critters)
Pcs == {"script", "transit", "arrive", "arrived", "train", "leave", "left", "gone", "look",
        "looking", "move", "destroy", "finish", "tear", "round", "detach", "unload", "unloaded",
        "clear"}
Frames == [pc : Pcs, c : Critters \cup {Nowhere}, from : Places, to : Places,
           left : SUBSET Things, all : SUBSET Things, since : Nat]

(* The pairs of two different critters.                                    *)
Others == {p \in Critters \X Critters : p[1] # p[2]}

Leaving == {"leave", "left", "gone"}
Behind == {"arrive", "unloaded"}

(* What a frame says is what its function needs to go on.                  *)
FrameOK(f) ==
    /\ f.pc \notin {"script", "jobs", "clear"} => f.c \in Critters
    /\ f.pc \in {"left", "gone"} => f.from # Nowhere
    /\ f.pc \in {"transit", "arrive", "arrived", "train"} => f.to \in Maps \cup {Global}
    /\ f.pc \in {"arrive", "arrived", "train"} => f.left \subseteq Critters /\ f.c \notin f.all
    /\ f.pc = "looking" => f.to \in Maps /\ f.left \subseteq Others
    /\ f.pc = "clear" => f.left \subseteq Maps /\ f.all \subseteq Critters

(* The call a is inside the call b: the part of b that comes after the     *)
(* critter has left its place is reached from there only.                  *)
Inside(a, b) == b.pc \in Behind => a.pc \in Leaving /\ a.c = b.c

GoodStack(s) ==
    /\ s \in Seq(Frames)
    /\ \A k \in 1..Len(s) : FrameOK(s[k])
    /\ \A k \in 1..(Len(s) - 1) : Inside(s[k], s[k + 1])

(* No two transfers of one critter are under way.                          *)
Unique(s) ==
    \A j, k \in 1..Len(s) :
      s[j].pc \in Transfer /\ s[k].pc \in Transfer /\ s[j].c = s[k].c => j = k

(* The frame may take the place of the innermost call: if it is a transfer *)
(* it is the one of that call, or the call has made sure there is no other *)
(* one of its critter.                                                     *)
Bound(f) ==
    f.pc \in Transfer => f.c = Top.c /\ (Top.pc \in Transfer \/ Top.c \notin Locks(Tail(stack)))

(* The stack is good, and if the innermost call has made its critter leave *)
(* its place, then the critter is alive and nowhere.                       *)
StackInv ==
    /\ GoodStack(stack)
    /\ Unique(stack)
    /\ stack # <<>> /\ stack[1].pc \in Behind =>
          place[stack[1].c] = Nowhere /\ Exists(stack[1].c)

PlaceInv ==
    /\ life \in [Critters -> Lives]
    /\ place \in [Critters -> Places]
    /\ \A m \in Maps : on[m] \subseteq Critters
    /\ sees \subseteq Critters \X Critters
    /\ calls \in Nat

(* No critter is attached to itself or sees itself, and what no other part *)
(* of the invariant mentions has its type.                                 *)
SortInv ==
    /\ on \in [Maps -> SUBSET Critters]
    /\ sees \subseteq Others
    /\ master \in [Critters -> Critters \cup {Nowhere}] /\ \A c \in Critters : master[c] # c
    /\ carries \in [Critters -> BOOLEAN]
    /\ world \in Lives /\ failed \in BOOLEAN /\ broken \in BOOLEAN
    /\ calls \in 0..MaxCalls

IInv == PlaceInv /\ SortInv /\ StackInv /\ Together

-----------------------------------------------------------------------------
(* Stacks.                                                                 *)

LEMMA EmptyGood == GoodStack(<<>>)
  BY DEF GoodStack

LEMMA OneGood ==
    ASSUME NEW a \in Frames, FrameOK(a)
    PROVE  GoodStack(<<a>>)
  BY DEF GoodStack

LEMMA TwoGood ==
    ASSUME NEW a \in Frames, FrameOK(a), NEW b \in Frames, FrameOK(b), Inside(a, b)
    PROVE  GoodStack(<<a, b>>)
<1>1. <<a, b>> \in Seq(Frames) /\ Len(<<a, b>>) = 2 /\ <<a, b>>[1] = a /\ <<a, b>>[2] = b
  OBVIOUS
<1> DEFINE s == <<a, b>>
<1> HIDE DEF s
<1>2. s \in Seq(Frames) /\ Len(s) = 2 /\ s[1] = a /\ s[2] = b
  BY <1>1 DEF s
<1>3. \A k \in 1..2 : k = 1 \/ k = 2
  OBVIOUS
<1>4. \A k \in 1..(2 - 1) : k = 1 /\ k + 1 = 2
  OBVIOUS
<1>5. GoodStack(s)
  BY <1>2, <1>3, <1>4 DEF GoodStack
<1>6. QED
  BY <1>5 DEF s

LEMMA ConcatGood ==
    ASSUME NEW s, GoodStack(s), NEW t, GoodStack(t),
           s # <<>> /\ t # <<>> => Inside(s[Len(s)], t[1])
    PROVE  /\ GoodStack(s \o t)
           /\ s # <<>> => s \o t # <<>> /\ (s \o t)[1] = s[1]
           /\ s = <<>> => s \o t = t
<1>1. s \in Seq(Frames) /\ t \in Seq(Frames) /\ Len(s) \in Nat /\ Len(t) \in Nat
  BY LenProperties DEF GoodStack
<1> DEFINE r == s \o t
<1>2. /\ r \in Seq(Frames) /\ Len(r) = Len(s) + Len(t)
      /\ \A k \in 1..(Len(s) + Len(t)) : r[k] = IF k <= Len(s) THEN s[k] ELSE t[k - Len(s)]
  BY <1>1, ConcatProperties
<1>3. s = <<>> => r = t
  BY <1>1, ConcatEmptySeq
<1> HIDE DEF r
<1>4. ASSUME NEW k \in 1..Len(r) PROVE FrameOK(r[k])
  <2>1. CASE k <= Len(s)
    BY <1>1, <1>2, <2>1 DEF GoodStack
  <2>2. CASE k > Len(s)
    <3>1. k - Len(s) \in 1..Len(t) /\ r[k] = t[k - Len(s)]
      BY <1>1, <1>2, <2>2
    <3>2. QED
      BY <3>1 DEF GoodStack
  <2>3. QED
    BY <1>1, <2>1, <2>2
<1>5. ASSUME NEW k \in 1..(Len(r) - 1) PROVE Inside(r[k], r[k + 1])
  <2>1. CASE k < Len(s)
    <3>1. r[k] = s[k] /\ r[k + 1] = s[k + 1] /\ k \in 1..(Len(s) - 1)
      BY <1>1, <1>2, <2>1
    <3>2. QED
      BY <3>1 DEF GoodStack
  <2>2. CASE k = Len(s)
    <3>1. /\ r[k] = s[Len(s)] /\ r[k + 1] = t[(k + 1) - Len(s)] /\ (k + 1) - Len(s) = 1
          /\ Len(t) # 0 /\ Len(s) # 0
      BY <1>1, <1>2, <2>2
    <3>2. s # <<>> /\ t # <<>>
      BY <1>1, <3>1
    <3>3. QED
      BY <3>1, <3>2
  <2>3. CASE k > Len(s)
    <3>1. /\ r[k] = t[k - Len(s)] /\ r[k + 1] = t[(k + 1) - Len(s)]
          /\ (k + 1) - Len(s) = (k - Len(s)) + 1 /\ k - Len(s) \in 1..(Len(t) - 1)
      BY <1>1, <1>2, <2>3
    <3>2. QED
      BY <3>1 DEF GoodStack
  <2>4. QED
    BY <1>1, <2>1, <2>2, <2>3
<1>6. s # <<>> => r # <<>> /\ r[1] = s[1]
  <2> SUFFICES ASSUME s # <<>> PROVE r # <<>> /\ r[1] = s[1]
    OBVIOUS
  <2>1. Len(s) # 0
    BY <1>1, EmptySeq
  <2>2. 1 \in 1..(Len(s) + Len(t)) /\ 1 <= Len(s) /\ Len(r) # 0
    BY <1>1, <1>2, <2>1
  <2>3. QED
    BY <1>2, <2>2
<1>7. QED
  BY <1>2, <1>3, <1>4, <1>5, <1>6 DEF GoodStack, r

LEMMA TailGood ==
    ASSUME NEW s, GoodStack(s), s # <<>>
    PROVE  /\ GoodStack(Tail(s))
           /\ Tail(s) # <<>> => Inside(s[1], Tail(s)[1])
           /\ s[1] \in Frames /\ FrameOK(s[1]) /\ s[1] = Head(s)
<1>1. s \in Seq(Frames) /\ Len(s) \in Nat /\ Len(s) # 0 /\ \A k \in 1..Len(s) : s[k] \in Frames
  BY LenProperties, EmptySeq DEF GoodStack
<1> DEFINE r == Tail(s)
<1>2. r \in Seq(Frames) /\ Len(r) = Len(s) - 1 /\ \A k \in 1..Len(r) : r[k] = s[k + 1]
  BY <1>1, HeadTailProperties
<1>3. s[1] = Head(s)
  BY <1>1
<1> HIDE DEF r
<1>4. \A k \in 1..Len(r) : FrameOK(r[k])
  BY <1>1, <1>2 DEF GoodStack
<1>5. \A k \in 1..(Len(r) - 1) : Inside(r[k], r[k + 1])
  <2> SUFFICES ASSUME NEW k \in 1..(Len(r) - 1) PROVE Inside(r[k], r[k + 1])
    OBVIOUS
  <2>1. r[k] = s[k + 1] /\ r[k + 1] = s[(k + 1) + 1] /\ k + 1 \in 1..(Len(s) - 1)
    BY <1>1, <1>2
  <2>2. QED
    BY <2>1 DEF GoodStack
<1>6. r # <<>> => Inside(s[1], r[1])
  <2> SUFFICES ASSUME r # <<>> PROVE Inside(s[1], r[1])
    OBVIOUS
  <2>1. Len(r) # 0
    BY <1>2, EmptySeq
  <2>2. 1 \in 1..Len(r) /\ 1 \in 1..(Len(s) - 1) /\ r[1] = s[1 + 1]
    BY <1>1, <1>2, <2>1
  <2>3. QED
    BY <2>2 DEF GoodStack
<1>7. QED
  BY <1>1, <1>2, <1>3, <1>4, <1>5, <1>6 DEF GoodStack, r

LEMMA EmptyUnique == Unique(<<>>)
  BY DEF Unique

LEMMA ConcatUnique ==
    ASSUME NEW s \in Seq(Frames), NEW t \in Seq(Frames), Unique(t),
           \A k \in 1..Len(s) : s[k].pc \in Transfer =>
             /\ k = Len(s)
             /\ \A j \in 1..Len(t) : t[j].pc \in Transfer => t[j].c # s[k].c
    PROVE  Unique(s \o t)
<1> DEFINE r == s \o t
<1>1. Len(s) \in Nat /\ Len(t) \in Nat
  BY LenProperties
<1>2. /\ Len(r) = Len(s) + Len(t)
      /\ \A k \in 1..(Len(s) + Len(t)) : r[k] = IF k <= Len(s) THEN s[k] ELSE t[k - Len(s)]
  BY ConcatProperties
<1> HIDE DEF r
<1>3. ASSUME NEW j \in 1..Len(r), NEW k \in 1..Len(r), j < k,
             r[j].pc \in Transfer, r[k].pc \in Transfer, r[j].c = r[k].c
      PROVE  FALSE
  <2>1. CASE k <= Len(s)
    <3>1. r[j] = s[j] /\ j \in 1..Len(s) /\ j # Len(s)
      BY <1>1, <1>2, <1>3, <2>1
    <3>2. QED
      BY <1>3, <3>1
  <2>2. CASE j <= Len(s) /\ k > Len(s)
    <3>1. /\ r[j] = s[j] /\ j \in 1..Len(s)
          /\ r[k] = t[k - Len(s)] /\ k - Len(s) \in 1..Len(t)
      BY <1>1, <1>2, <1>3, <2>2
    <3>2. QED
      BY <1>3, <3>1
  <2>3. CASE j > Len(s)
    <3>1. /\ r[j] = t[j - Len(s)] /\ j - Len(s) \in 1..Len(t)
          /\ r[k] = t[k - Len(s)] /\ k - Len(s) \in 1..Len(t) /\ j - Len(s) # k - Len(s)
      BY <1>1, <1>2, <1>3, <2>3
    <3>2. QED
      BY <1>3, <3>1 DEF Unique
  <2>4. QED
    BY <1>1, <1>2, <1>3, <2>1, <2>2, <2>3
<1>4. \A j, k \in 1..Len(r) : j < k \/ k < j \/ j = k
  BY <1>1, <1>2
<1>5. Unique(r)
  BY <1>3, <1>4 DEF Unique
<1>6. QED
  BY <1>5 DEF r

LEMMA TailUnique ==
    ASSUME NEW s \in Seq(Frames), s # <<>>, Unique(s)
    PROVE  /\ Unique(Tail(s))
           /\ s[1].pc \in Transfer =>
                \A j \in 1..Len(Tail(s)) : Tail(s)[j].pc \in Transfer => Tail(s)[j].c # s[1].c
<1> DEFINE r == Tail(s)
<1>1. Len(s) \in Nat /\ Len(s) # 0
  BY LenProperties, EmptySeq
<1>2. Len(r) = Len(s) - 1 /\ \A k \in 1..Len(r) : r[k] = s[k + 1]
  BY <1>1, HeadTailProperties
<1> HIDE DEF r
<1>3. ASSUME NEW k \in 1..Len(r) PROVE k + 1 \in 1..Len(s) /\ k + 1 # 1 /\ r[k] = s[k + 1]
  BY <1>1, <1>2
<1>4. 1 \in 1..Len(s)
  BY <1>1
<1>5. \A j \in 1..Len(r) : s[1].pc \in Transfer /\ r[j].pc \in Transfer => r[j].c # s[1].c
  BY <1>3, <1>4 DEF Unique
<1>6. ASSUME NEW j \in 1..Len(r), NEW k \in 1..Len(r),
             r[j].pc \in Transfer, r[k].pc \in Transfer, r[j].c = r[k].c
      PROVE  j = k
  <2>1. j + 1 = k + 1
    BY <1>3, <1>6 DEF Unique
  <2>2. QED
    BY <1>1, <1>2, <2>1
<1>7. QED
  BY <1>5, <1>6 DEF Unique, r

LEMMA SubSeqUnique ==
    ASSUME NEW s \in Seq(Frames), Unique(s), NEW n \in 1..Len(s), NEW r \in Seq(Frames),
           Len(r) = Len(s) - n + 1, \A k \in 1..(Len(s) - n + 1) : r[k] = s[n + k - 1]
    PROVE  Unique(r)
<1>1. Len(s) \in Nat
  BY LenProperties
<1>2. ASSUME NEW k \in 1..Len(r) PROVE n + k - 1 \in 1..Len(s) /\ r[k] = s[n + k - 1]
  BY <1>1
<1>3. ASSUME NEW j \in 1..Len(r), NEW k \in 1..Len(r),
             r[j].pc \in Transfer, r[k].pc \in Transfer, r[j].c = r[k].c
      PROVE  j = k
  <2>1. n + j - 1 = n + k - 1
    BY <1>2, <1>3 DEF Unique
  <2>2. QED
    BY <1>1, <2>1
<1>4. QED
  BY <1>3 DEF Unique

-----------------------------------------------------------------------------
(* The parts that all calls share.                                         *)

LEMMA TopLemma ==
    ASSUME StackInv, Top.pc # "jobs"
    PROVE  /\ stack # <<>> /\ Top = stack[1] /\ Top \in Frames /\ FrameOK(Top)
           /\ GoodStack(Tail(stack))
           /\ Tail(stack) # <<>> => Inside(Top, Tail(stack)[1])
           /\ Top.pc \in Behind => place[Top.c] = Nowhere /\ Exists(Top.c)
<1>1. stack # <<>>
  BY DEF Top, Frame
<1>2. Top = Head(stack)
  BY <1>1 DEF Top
<1>3. QED
  BY <1>1, <1>2, TailGood DEF StackInv

(* Whatever frames take the place of the innermost call, the stack stays   *)
(* good, if the part of a call that waits for a critter to leave its place *)
(* stays right behind the call that makes it leave.                        *)
LEMMA GoToLemma ==
    ASSUME StackInv, Top.pc # "jobs", NEW frames, GoTo(frames), GoodStack(frames),
           frames # <<>> => frames[1].pc \notin Behind,
           \A k \in 1..Len(frames) :
             frames[k].pc \in Transfer => k = Len(frames) /\ Bound(frames[k]),
           Top.pc \in Leaving => /\ frames # <<>>
                                 /\ frames[Len(frames)].pc \in Leaving
                                 /\ frames[Len(frames)].c = Top.c
    PROVE  StackInv'
<1>1. /\ GoodStack(Tail(stack))
      /\ Tail(stack) # <<>> => Inside(Top, Tail(stack)[1])
  BY TopLemma
<1>2. stack' = frames \o Tail(stack)
  BY DEF GoTo
<1>3. frames # <<>> /\ Tail(stack) # <<>> => Inside(frames[Len(frames)], Tail(stack)[1])
  BY <1>1 DEF Inside
<1>4. /\ GoodStack(stack')
      /\ frames # <<>> => stack' # <<>> /\ stack'[1] = frames[1]
      /\ frames = <<>> => stack' = Tail(stack)
  BY <1>1, <1>2, <1>3, ConcatGood
<1>5. stack' # <<>> => stack'[1].pc \notin Behind
  <2>1. CASE frames # <<>>
    BY <1>4, <2>1
  <2>2. CASE frames = <<>>
    BY <1>1, <1>4, <2>2 DEF Inside
  <2>3. QED
    BY <2>1, <2>2
<1>6. Unique(stack')
  <2>1. stack # <<>> /\ Top = stack[1] /\ stack \in Seq(Frames) /\ Unique(stack)
    BY TopLemma DEF StackInv, GoodStack
  <2>2. Unique(Tail(stack)) /\ Tail(stack) \in Seq(Frames) /\ frames \in Seq(Frames)
    BY <1>1, <2>1, TailUnique DEF GoodStack
  <2>3. ASSUME NEW k \in 1..Len(frames), frames[k].pc \in Transfer,
               NEW j \in 1..Len(Tail(stack)), Tail(stack)[j].pc \in Transfer
        PROVE  Tail(stack)[j].c # frames[k].c
    <3>1. frames[k].c = Top.c /\ (Top.pc \in Transfer \/ Top.c \notin Locks(Tail(stack)))
      BY <2>3 DEF Bound
    <3>2. CASE Top.pc \in Transfer
      BY <2>1, <2>3, <3>1, <3>2, TailUnique
    <3>3. CASE Top.c \notin Locks(Tail(stack))
      <4>1. j \in DOMAIN Tail(stack)
        BY <2>2
      <4>2. Tail(stack)[j].c \in Locks(Tail(stack))
        BY <2>3, <4>1 DEF Locks, Moving
      <4>3. QED
        BY <3>1, <3>3, <4>2
    <3>4. QED
      BY <3>1, <3>2, <3>3
  <2>4. Unique(frames \o Tail(stack))
    BY <2>2, <2>3, ConcatUnique
  <2>5. QED
    BY <1>2, <2>4
<1>7. QED
  BY <1>4, <1>5, <1>6 DEF StackInv, GoodStack, FrameOK, Inside, Unique

(* The innermost call ends, and it was not one that makes a critter leave. *)
LEMMA PopLemma ==
    ASSUME StackInv, Top.pc \notin Leaving \cup {"jobs"}, GoTo(<<>>)
    PROVE  StackInv'
<1>1. PICK s : s = <<>>
  OBVIOUS
<1>2. GoodStack(s) /\ Len(s) = 0 /\ GoTo(s)
  BY <1>1, EmptyGood
<1>3. QED
  BY <1>1, <1>2, GoToLemma

LEMMA OneLemma ==
    ASSUME StackInv, Top.pc # "jobs", NEW a \in Frames, FrameOK(a), a.pc \notin Behind, Bound(a),
           Top.pc \in Leaving => a.pc \in Leaving /\ a.c = Top.c, GoTo(<<a>>)
    PROVE  StackInv'
<1>1. PICK s : s = <<a>>
  OBVIOUS
<1>2. GoodStack(s) /\ Len(s) = 1 /\ s[1] = a /\ s # <<>>
  BY <1>1, OneGood
<1>3. GoTo(s)
  BY <1>1 DEF GoTo
<1>4. \A k \in 1..Len(s) : s[k].pc \in Transfer => k = Len(s) /\ Bound(s[k])
  <2>1. \A k \in 1..Len(s) : k = 1
    BY <1>2
  <2>2. QED
    BY <1>2, <2>1
<1>5. QED
  BY <1>2, <1>3, <1>4, GoToLemma

LEMMA TwoLemma ==
    ASSUME StackInv, Top.pc # "jobs", NEW a \in Frames, FrameOK(a), NEW b \in Frames, FrameOK(b),
           Inside(a, b), a.pc \notin Behind \cup Transfer, Bound(b),
           Top.pc \in Leaving => b.pc \in Leaving /\ b.c = Top.c, GoTo(<<a, b>>)
    PROVE  StackInv'
<1>1. PICK s : s = <<a, b>>
  OBVIOUS
<1>2. GoodStack(s) /\ Len(s) = 2 /\ s[1] = a /\ s[2] = b
  BY <1>1, TwoGood
<1>3. GoTo(s)
  BY <1>1 DEF GoTo
<1>4. s # <<>>
  BY <1>2
<1>5. \A k \in 1..Len(s) : s[k].pc \in Transfer => k = Len(s) /\ Bound(s[k])
  <2>1. \A k \in 1..Len(s) : k = 1 \/ k = 2
    BY <1>2
  <2>2. QED
    BY <1>2, <2>1
<1>6. QED
  BY <1>2, <1>3, <1>4, <1>5, GoToLemma

(* An exception leaves the frame of a script, or nothing.                  *)
LEMMA AbortLemma ==
    ASSUME StackInv, Abort
    PROVE  StackInv'
<1>1. stack \in Seq(Frames) /\ Len(stack) \in Nat /\ \A k \in 1..Len(stack) : stack[k] \in Frames
  BY LenProperties DEF StackInv, GoodStack
<1> DEFINE P == {k \in 1..Len(stack) : stack[k].pc = "script"}
<1>2. Callback = IF P # {} THEN Min(P) ELSE 0
  BY DEF Callback, SelectInSeq
<1>3. CASE P = {}
  <2>1. stack' = <<>>
    BY <1>2, <1>3 DEF Abort
  <2>2. QED
    BY <2>1, EmptyGood, EmptyUnique DEF StackInv, GoodStack, FrameOK, Inside, Unique
<1>4. CASE P # {}
  <2>1. \E k \in P : \A i \in P : k <= i
    <3>1. P \subseteq Nat
      OBVIOUS
    <3>2. PICK k \in P : \A i \in P : ~(<<i, k>> \in OpToRel(<, Nat))
      BY <1>4, <3>1, NatLessThanWellFounded, WFMin
    <3>3. \A i \in P : ~(i < k)
      BY <3>1, <3>2 DEF OpToRel
    <3>4. QED
      BY <3>1, <3>3
  <2>2. Callback \in P
    BY <1>2, <1>4, <2>1 DEF Min
  <2>3. PICK n \in 1..Len(stack) : n = Callback /\ stack[n].pc = "script"
    BY <2>2
  <2>4. stack' = SubSeq(stack, n, Len(stack))
    BY <2>3 DEF Abort
  <2> DEFINE r == SubSeq(stack, n, Len(stack))
  <2>5. /\ r \in Seq(Frames) /\ Len(r) = Len(stack) - n + 1
        /\ \A k \in 1..(Len(stack) - n + 1) : r[k] = stack[n + k - 1]
    <3>1. \A k \in n..Len(stack) : stack[k] \in Frames
      BY <1>1
    <3>2. QED
      BY <1>1, <3>1, SubSeqProperties
  <2> HIDE DEF r
  <2>6. \A k \in 1..Len(r) : FrameOK(r[k])
    <3> SUFFICES ASSUME NEW k \in 1..Len(r) PROVE FrameOK(r[k])
      OBVIOUS
    <3>1. r[k] = stack[n + k - 1] /\ n + k - 1 \in 1..Len(stack)
      BY <1>1, <2>5
    <3>2. QED
      BY <3>1 DEF StackInv, GoodStack
  <2>7. \A k \in 1..(Len(r) - 1) : Inside(r[k], r[k + 1])
    <3> SUFFICES ASSUME NEW k \in 1..(Len(r) - 1) PROVE Inside(r[k], r[k + 1])
      OBVIOUS
    <3>1. /\ r[k] = stack[n + k - 1] /\ n + k - 1 \in 1..(Len(stack) - 1)
          /\ r[k + 1] = stack[n + (k + 1) - 1] /\ n + (k + 1) - 1 = (n + k - 1) + 1
      BY <1>1, <2>5
    <3>2. QED
      BY <3>1 DEF StackInv, GoodStack
  <2>8. r[1].pc = "script"
    <3>1. r[1] = stack[n + 1 - 1] /\ n + 1 - 1 = n
      BY <1>1, <2>5
    <3>2. QED
      BY <2>3, <3>1
  <2>9. GoodStack(r) /\ r # <<>> /\ r[1].pc \notin Behind
    BY <1>1, <2>5, <2>6, <2>7, <2>8 DEF GoodStack, Behind
  <2>10. stack' = r
    BY <2>4 DEF r
  <2>11. Unique(r)
    BY <1>1, <2>5, SubSeqUnique DEF StackInv
  <2>12. QED
    BY <2>9, <2>10, <2>11 DEF StackInv, GoodStack, FrameOK, Inside, Unique
<1>5. QED
  BY <1>3, <1>4

LEMMA FrameLemma ==
    ASSUME NEW c \in Critters, NEW pc \in {"look", "move", "leave", "destroy", "unload", "transit"}
    PROVE  /\ Frame(pc, c) \in Frames
           /\ Frame(pc, c).pc = pc /\ Frame(pc, c).c = c
           /\ Frame(pc, c).left = {} /\ Frame(pc, c).all = {}
           /\ pc # "transit" => FrameOK(Frame(pc, c))
<1>1. pc \in Pcs /\ Nowhere \in Places /\ 0 \in Nat /\ {} \in SUBSET Things
  BY DEF Places, Pcs
<1>2. Frame(pc, c) \in Frames
  BY <1>1 DEF Frame, Frames
<1>3. QED
  BY <1>2 DEF Frame, FrameOK

LEMMA ScriptLemma == Script \in Frames /\ FrameOK(Script) /\ Script.pc = "script"
<1>1. "script" \in Pcs /\ Nowhere \in Places /\ 0 \in Nat /\ {} \in SUBSET Things
  BY DEF Places, Pcs
<1>2. Script \in Frames
  BY <1>1 DEF Script, Frame, Frames
<1>3. QED
  BY <1>2 DEF Script, Frame, FrameOK

LEMMA CallLemma ==
    ASSUME StackInv, NEW frames, Call(frames), GoodStack(frames), frames # <<>>,
           frames[1].pc \notin Behind,
           \A k \in 1..Len(frames) : frames[k].pc \notin Transfer
    PROVE  StackInv'
<1>1. stack' = frames \o stack /\ GoodStack(stack)
  BY DEF Call, StackInv
<1>2. stack # <<>> => stack[1].pc \notin Behind
  <2> SUFFICES ASSUME stack # <<>> PROVE stack[1].pc \notin Behind
    OBVIOUS
  <2>1. Top = stack[1]
    BY TailGood DEF Top, StackInv
  <2>2. QED
    BY <2>1 DEF Call, InScript, At, Behind
<1>3. GoodStack(stack') /\ stack' # <<>> /\ stack'[1] = frames[1]
  BY <1>1, <1>2, ConcatGood DEF Inside
<1>4. Unique(stack')
  <2>1. frames \in Seq(Frames) /\ stack \in Seq(Frames) /\ Unique(stack)
    BY DEF StackInv, GoodStack
  <2>2. Unique(frames \o stack)
    BY <2>1, ConcatUnique
  <2>3. QED
    BY <1>1, <2>2
<1>5. QED
  BY <1>3, <1>4 DEF StackInv, GoodStack, FrameOK, Inside, Unique

LEMMA CallOneLemma ==
    ASSUME StackInv, NEW a \in Frames, FrameOK(a), a.pc \notin Behind \cup Transfer, Call(<<a>>)
    PROVE  StackInv'
<1>1. PICK s : s = <<a>>
  OBVIOUS
<1>2. GoodStack(s) /\ Len(s) = 1 /\ s[1] = a /\ s # <<>>
  BY <1>1, OneGood
<1>3. Call(s)
  BY <1>1 DEF Call
<1>4. \A k \in 1..Len(s) : s[k].pc \notin Transfer
  <2>1. \A k \in 1..Len(s) : k = 1
    BY <1>2
  <2>2. QED
    BY <1>2, <2>1
<1>5. QED
  BY <1>2, <1>3, <1>4, CallLemma

LEMMA CallTwoLemma ==
    ASSUME StackInv, NEW a \in Frames, FrameOK(a), NEW b \in Frames, FrameOK(b),
           a.pc \notin Behind \cup Transfer, b.pc \notin Behind \cup Transfer, Call(<<a, b>>)
    PROVE  StackInv'
<1>1. PICK s : s = <<a, b>>
  OBVIOUS
<1>2. GoodStack(s) /\ Len(s) = 2 /\ s[1] = a /\ s[2] = b
  BY <1>1, TwoGood DEF Inside
<1>3. Call(s)
  BY <1>1 DEF Call
<1>4. s # <<>>
  BY <1>2
<1>5. \A k \in 1..Len(s) : s[k].pc \notin Transfer
  <2>1. \A k \in 1..Len(s) : k = 1 \/ k = 2
    BY <1>2
  <2>2. QED
    BY <1>2, <2>1
<1>6. QED
  BY <1>2, <1>3, <1>4, <1>5, CallLemma

-----------------------------------------------------------------------------
(* What scripts call.                                                      *)

LEMMA ScriptsLemma ==
    ASSUME PlaceInv, StackInv, Scripts
    PROVE  StackInv'
<1>1. ASSUME NEW c \in Critters, NEW to \in Maps \cup {Global}, TransitTo(c, to)
      PROVE  StackInv'
  <2> DEFINE a == [Frame("transit", c) EXCEPT !.to = to, !.since = calls + 1]
  <2>1. a \in Frames /\ FrameOK(a) /\ a.pc = "transit"
    <3>1. /\ Frame("transit", c) \in Frames /\ Frame("transit", c).pc = "transit"
          /\ Frame("transit", c).c = c
      BY FrameLemma
    <3>2. to \in Places /\ calls + 1 \in Nat
      BY DEF Places, PlaceInv
    <3>3. QED
      BY <3>1, <3>2 DEF Frames, FrameOK
  <2>2. PICK f \in Frames : f = a
    BY <2>1
  <2>3. Call(<<f>>)
    BY <1>1, <2>2 DEF TransitTo
  <2>4. QED
    BY <2>1, <2>2, <2>3, CallOneLemma DEF Behind, Transfer
<1>2. ASSUME NEW c \in Critters, NEW cr \in Critters, AttachToCritter(c, cr)
      PROVE  StackInv'
  <2>1. FrameOK(Frame("look", c)) /\ FrameOK(Frame("move", cr))
    BY FrameLemma
  <2>2. Call(<<Frame("look", c), Frame("move", cr)>>)
    BY <1>2 DEF AttachToCritter
  <2>3. QED
    BY <2>1, <2>2, FrameLemma, CallTwoLemma DEF Behind, Transfer
<1>3. ASSUME NEW c \in Critters, DetachFromCritter(c)
      PROVE  StackInv'
  <2>1. FrameOK(Frame("look", c))
    BY FrameLemma
  <2>2. Call(<<Frame("look", c)>>)
    BY <1>3 DEF DetachFromCritter
  <2>3. QED
    BY <2>1, <2>2, FrameLemma, CallOneLemma DEF Behind, Transfer
<1>4. ASSUME NEW c \in Critters, DestroyCritter(c)
      PROVE  StackInv'
  <2>1. FrameOK(Frame("destroy", c))
    BY FrameLemma
  <2>2. Call(<<Frame("destroy", c)>>)
    BY <1>4 DEF DestroyCritter
  <2>3. QED
    BY <2>1, <2>2, FrameLemma, CallOneLemma DEF Behind, Transfer
<1>5. ASSUME NEW c \in Critters, UnloadCritter(c)
      PROVE  StackInv'
  <2>1. FrameOK(Frame("unload", c))
    BY FrameLemma
  <2>2. Call(<<Script, Frame("unload", c)>>)
    BY <1>5 DEF UnloadCritter
  <2>3. QED
    BY <2>1, <2>2, ScriptLemma, FrameLemma, CallTwoLemma DEF Behind, Transfer
<1>6. ASSUME DestroyLocation
      PROVE  StackInv'
  <2> DEFINE b == [Frame("clear", Nowhere) EXCEPT !.left = Maps]
  <2>1. b \in Frames /\ FrameOK(b) /\ b.pc = "clear"
    <3>1. Maps \in SUBSET Things /\ {} \in SUBSET Things /\ "clear" \in Pcs /\ Nowhere \in Places
      BY DEF Things, Pcs, Places
    <3>2. QED
      BY <3>1 DEF Frame, Frames, FrameOK
  <2>2. PICK f \in Frames : f = b
    BY <2>1
  <2>3. Call(<<Script, f>>)
    BY <1>6, <2>2 DEF DestroyLocation
  <2>4. QED
    BY <2>1, <2>2, <2>3, ScriptLemma, CallTwoLemma DEF Behind, Transfer
<1>7. ASSUME NEW c \in Critters, AddItem(c)
      PROVE  StackInv'
  <2>1. Call(<<Script>>)
    BY <1>7 DEF AddItem
  <2>2. QED
    BY <2>1, ScriptLemma, CallOneLemma DEF Behind, Transfer
<1>8. QED
  BY <1>1, <1>2, <1>3, <1>4, <1>5, <1>6, <1>7 DEF Scripts, Critters

-----------------------------------------------------------------------------
(* The calls that move a critter from place to place.                      *)

LEMMA ThenLemma ==
    ASSUME NEW f \in Frames, NEW pc \in Pcs
    PROVE  LET g == [f EXCEPT !.pc = pc]
           IN  /\ g \in Frames /\ g.pc = pc /\ g.c = f.c /\ g.from = f.from /\ g.to = f.to
               /\ g.left = f.left /\ g.all = f.all
  BY DEF Frames

LEMMA MaybeLemma ==
    /\ \A x : <<>> \o <<x>> = <<x>>
    /\ \A x, y : <<x>> \o <<y>> = <<x, y>>
<1>1. ASSUME NEW x PROVE <<>> \o <<x>> = <<x>>
  <2>1. <<x>> \in Seq({x})
    OBVIOUS
  <2>2. QED
    BY <2>1, ConcatEmptySeq
<1>2. ASSUME NEW x, NEW y PROVE <<x>> \o <<y>> = <<x, y>>
  <2>1. /\ <<x>> \in Seq({x, y}) /\ <<y>> \in Seq({x, y}) /\ Len(<<x>>) = 1 /\ Len(<<y>>) = 1
        /\ <<x>>[1] = x /\ <<y>>[1] = y
    OBVIOUS
  <2> DEFINE r == <<x>> \o <<y>>
  <2>2. /\ r \in Seq({x, y}) /\ Len(r) = 1 + 1
        /\ \A i \in 1..(1 + 1) : r[i] = IF i <= 1 THEN <<x>>[i] ELSE <<y>>[i - 1]
    BY <2>1, ConcatProperties
  <2> HIDE DEF r
  <2>3. r[1] = x /\ r[2] = y /\ Len(r) = 2
    BY <2>1, <2>2
  <2>4. r = <<x, y>>
    BY <2>2, <2>3
  <2>5. QED
    BY <2>4 DEF r
<1>3. QED
  BY <1>1, <1>2

LEMMA TransitLemma ==
    ASSUME PlaceInv, SortInv, StackInv, Transit
    PROVE  StackInv'
<1> DEFINE c == Top.c
           moved(pc) == [Top EXCEPT !.pc = pc, !.from = MapId(c),
                                    !.left = AttachedCritters(c), !.all = AttachedCritters(c)]
<1>1. /\ Top.pc = "transit" /\ Top \in Frames /\ FrameOK(Top) /\ c \in Critters
      /\ Top.to \in Maps \cup {Global}
      /\ c \notin Locks(Tail(stack))
  BY TopLemma DEF Transit, At, FrameOK
<1>2. /\ MapId(c) \in Places /\ AttachedCritters(c) \subseteq Critters
      /\ c \notin AttachedCritters(c)
  BY <1>1 DEF MapId, AttachedCritters, Places, PlaceInv, SortInv
<1>3. AttachedCritters(c) \in SUBSET Things
  BY <1>2 DEF Things
<1>4. ASSUME NEW pc \in {"arrive", "train"}
      PROVE  /\ moved(pc) \in Frames /\ FrameOK(moved(pc))
             /\ moved(pc).pc = pc /\ moved(pc).c = c
  <2>1. pc \in Pcs
    BY DEF Pcs
  <2>2. /\ moved(pc) \in Frames
        /\ moved(pc).pc = pc /\ moved(pc).c = c /\ moved(pc).to = Top.to
        /\ moved(pc).left = AttachedCritters(c) /\ moved(pc).all = AttachedCritters(c)
    BY <1>1, <1>2, <1>3, <2>1 DEF Frames
  <2>3. QED
    BY <1>1, <1>2, <2>2 DEF FrameOK
<1>5. PICK arrive \in Frames, train \in Frames : arrive = moved("arrive") /\ train = moved("train")
  BY <1>4
<1>6. /\ FrameOK(arrive) /\ arrive.pc = "arrive" /\ arrive.c = c
      /\ FrameOK(train) /\ train.pc = "train" /\ train.c = c
      /\ Bound(arrive) /\ Bound(train)
  BY <1>1, <1>4, <1>5 DEF Bound
<1>7. \/ Fail
      \/ GoTo(<<Frame("leave", c), arrive>>)
      \/ GoTo(<<>> \o <<train>>)
      \/ GoTo(<<Frame("look", c)>> \o <<train>>)
  BY <1>5 DEF Transit
<1>8. CASE Fail
  BY <1>8, AbortLemma DEF Fail
<1> HIDE DEF moved
<1>9. CASE GoTo(<<Frame("leave", c), arrive>>)
  <2>1. PICK a \in Frames : a = Frame("leave", c)
    BY <1>1, FrameLemma
  <2>2. FrameOK(a) /\ a.pc = "leave" /\ a.c = c
    BY <1>1, <2>1, FrameLemma
  <2>3. GoTo(<<a, arrive>>)
    BY <1>9, <2>1
  <2>4. Inside(a, arrive) /\ a.pc \notin Behind \cup Transfer /\ Top.pc \notin Leaving \cup {"jobs"}
    BY <1>1, <1>6, <2>2 DEF Inside, Leaving, Behind, Transfer
  <2>5. QED
    BY <1>6, <2>2, <2>3, <2>4, TwoLemma
<1>10. CASE GoTo(<<>> \o <<train>>)
  <2>1. GoTo(<<train>>)
    BY <1>10, MaybeLemma
  <2>2. QED
    BY <1>1, <1>6, <2>1, OneLemma DEF Leaving, Behind, Bound, Transfer
<1>11. CASE GoTo(<<Frame("look", c)>> \o <<train>>)
  <2>1. PICK a \in Frames : a = Frame("look", c)
    BY <1>1, FrameLemma
  <2>2. FrameOK(a) /\ a.pc = "look"
    BY <1>1, <2>1, FrameLemma
  <2>3. GoTo(<<a, train>>)
    BY <1>11, <2>1, MaybeLemma
  <2>4. Inside(a, train) /\ a.pc \notin Behind \cup Transfer /\ Top.pc \notin Leaving \cup {"jobs"}
    BY <1>1, <1>6, <2>2 DEF Inside, Leaving, Behind, Transfer
  <2>5. QED
    BY <1>6, <2>2, <2>3, <2>4, TwoLemma
<1>12. QED
  BY <1>7, <1>8, <1>9, <1>10, <1>11

(* A script runs, and then the call goes on at another place of the code.  *)
LEMMA ScriptThenLemma ==
    ASSUME StackInv, Top.pc \notin Leaving \cup {"jobs"}, NEW f \in Frames, FrameOK(f),
           f.pc \notin Behind, Bound(f), GoTo(<<Script, f>>)
    PROVE  StackInv'
<1>1. Script \in Frames /\ FrameOK(Script) /\ Script.pc \notin Behind \cup Transfer /\ Inside(Script, f)
  BY ScriptLemma DEF Inside, Behind, Transfer
<1>2. QED
  BY <1>1, TwoLemma

LEMMA ArriveStack ==
    ASSUME StackInv, Arrive
    PROVE  StackInv'
<1>1. Top.pc = "arrive" /\ Top \in Frames /\ FrameOK(Top)
  BY TopLemma DEF Arrive, At
<1>2. PICK f \in Frames : f = Then("arrived")
  BY <1>1, ThenLemma DEF Then, Pcs
<1>3. f.pc = "arrived" /\ f.c = Top.c /\ f.to = Top.to /\ f.left = Top.left /\ f.all = Top.all
  BY <1>1, <1>2, ThenLemma DEF Then, Pcs
<1>4. FrameOK(f)
  BY <1>1, <1>3 DEF FrameOK
<1>5. GoTo(<<Script, f>>)
  BY <1>2 DEF Arrive
<1>6. QED
  BY <1>1, <1>3, <1>4, <1>5, ScriptThenLemma DEF Leaving, Behind, Bound, Transfer

LEMMA ArrivedStack ==
    ASSUME StackInv, Arrived
    PROVE  StackInv'
<1>1. Top.pc = "arrived" /\ Top \in Frames /\ FrameOK(Top) /\ Top.c \in Critters
  BY TopLemma DEF Arrived, At, FrameOK
<1>2. PICK f \in Frames : f = Then("train")
  BY <1>1, ThenLemma DEF Then, Pcs
<1>3. f.pc = "train" /\ f.c = Top.c /\ f.to = Top.to /\ f.left = Top.left /\ f.all = Top.all
  BY <1>1, <1>2, ThenLemma DEF Then, Pcs
<1>4. FrameOK(f)
  BY <1>1, <1>3 DEF FrameOK
<1>5. PICK a \in Frames : a = Frame("look", Top.c)
  BY <1>1, FrameLemma
<1>6. FrameOK(a) /\ a.pc = "look"
  BY <1>1, <1>5, FrameLemma
<1>7. GoTo(<<a, f>>) \/ GoTo(<<>>)
  BY <1>2, <1>5 DEF Arrived
<1>8. /\ Inside(a, f) /\ a.pc \notin Behind \cup Transfer /\ Bound(f)
      /\ Top.pc \notin Leaving \cup {"jobs"}
  BY <1>1, <1>3, <1>6 DEF Inside, Leaving, Behind, Bound, Transfer
<1>9. QED
  BY <1>4, <1>6, <1>7, <1>8, TwoLemma, PopLemma

LEMMA FollowStack ==
    ASSUME StackInv, Follow
    PROVE  StackInv'
<1>1. Top.pc = "train" /\ Top \in Frames /\ FrameOK(Top) /\ Top.c \in Critters
  BY TopLemma DEF Follow, At, FrameOK
<1>2. PICK a \in Top.left :
         GoTo((IF Follows(a) THEN <<[Frame("transit", a) EXCEPT !.to = Top.to, !.since = Top.since]>> ELSE <<>>)
              \o <<[Top EXCEPT !.left = @ \ {a}]>>)
  BY DEF Follow
<1>3. a \in Critters /\ Top.to \in Maps \cup {Global} /\ Top.left \subseteq Critters
  BY <1>1 DEF FrameOK
<1> DEFINE g == [Frame("transit", a) EXCEPT !.to = Top.to, !.since = Top.since]
           h == [Top EXCEPT !.left = @ \ {a}]
<1>4. g \in Frames /\ g.pc = "transit" /\ g.c = a /\ g.to = Top.to
  <2>1. /\ Frame("transit", a) \in Frames /\ Frame("transit", a).pc = "transit"
        /\ Frame("transit", a).c = a
    BY <1>3, FrameLemma
  <2>2. Top.to \in Places /\ Top.since \in Nat
    BY <1>1 DEF Frames
  <2>3. QED
    BY <2>1, <2>2 DEF Frames
<1>5. h \in Frames /\ h.pc = "train" /\ h.c = Top.c /\ h.to = Top.to /\ h.left = Top.left \ {a}
      /\ h.all = Top.all
  BY <1>1 DEF Frames
<1>6. FrameOK(g) /\ FrameOK(h)
  BY <1>1, <1>3, <1>4, <1>5 DEF FrameOK
<1>7. PICK t \in Frames, u \in Frames : t = g /\ u = h
  BY <1>4, <1>5
<1>8. GoTo(<<t>> \o <<u>>) \/ GoTo(<<>> \o <<u>>)
  BY <1>2, <1>7
<1>9. GoTo(<<t, u>>) \/ GoTo(<<u>>)
  BY <1>8, MaybeLemma
<1>10. FrameOK(t) /\ t.pc = "transit" /\ FrameOK(u) /\ u.pc = "train" /\ u.c = Top.c
  BY <1>4, <1>5, <1>6, <1>7
<1>11. /\ Inside(t, u) /\ t.pc \notin Behind \cup Transfer /\ u.pc \notin Behind /\ Bound(u)
       /\ Top.pc \notin Leaving \cup {"jobs"}
  BY <1>1, <1>10 DEF Inside, Leaving, Behind, Bound, Transfer
<1>12. QED
  BY <1>9, <1>10, <1>11, OneLemma, TwoLemma

LEMMA RejoinStack ==
    ASSUME StackInv, Rejoin
    PROVE  StackInv'
<1>1. Top.pc = "train" /\ Top \in Frames /\ FrameOK(Top) /\ Top.c \in Critters
  BY TopLemma DEF Rejoin, At, FrameOK
<1>2. PICK a \in Frames, b \in Frames : a = Frame("move", Top.c) /\ b = Frame("look", Top.c)
  BY <1>1, FrameLemma
<1>3. FrameOK(a) /\ a.pc = "move" /\ FrameOK(b) /\ b.pc = "look"
  BY <1>1, <1>2, FrameLemma
<1>4. GoTo(<<a, b>>) \/ GoTo(<<>>)
  BY <1>2 DEF Rejoin
<1>5. /\ Inside(a, b) /\ a.pc \notin Behind \cup Transfer /\ Bound(b)
      /\ Top.pc \notin Leaving \cup {"jobs"}
  BY <1>1, <1>3 DEF Inside, Leaving, Behind, Bound, Transfer
<1>6. QED
  BY <1>3, <1>4, <1>5, TwoLemma, PopLemma

LEMMA LeaveStack ==
    ASSUME PlaceInv, StackInv, Leave
    PROVE  StackInv'
<1>1. Top.pc = "leave" /\ Top \in Frames /\ FrameOK(Top) /\ Top.c \in Critters
  BY TopLemma DEF Leave, At, FrameOK
<1>2. CASE Fail
  BY <1>2, AbortLemma DEF Fail
<1>3. CASE ~Fail
  <2> DEFINE g == [Then("left") EXCEPT !.from = place[Top.c]]
  <2>1. place[Top.c] # Nowhere /\ GoTo(<<Script, g>>)
    BY <1>3 DEF Leave
  <2>2. g \in Frames /\ g.pc = "left" /\ g.c = Top.c /\ g.from = place[Top.c]
    <3>1. place[Top.c] \in Places /\ "left" \in Pcs
      BY <1>1 DEF PlaceInv, Pcs
    <3>2. QED
      BY <1>1, <3>1 DEF Then, Frames
  <2>3. FrameOK(g)
    BY <1>1, <2>1, <2>2 DEF FrameOK
  <2>4. PICK f \in Frames : f = g
    BY <2>2
  <2>5. /\ FrameOK(f) /\ Inside(Script, f) /\ Script.pc \notin Behind \cup Transfer
        /\ f.pc \in Leaving /\ f.c = Top.c /\ Bound(f)
    BY <2>2, <2>3, <2>4, ScriptLemma DEF Inside, Leaving, Behind, Bound, Transfer
  <2>6. GoTo(<<Script, f>>)
    BY <2>1, <2>4
  <2>7. QED
    BY <1>1, <2>5, <2>6, ScriptLemma, TwoLemma
<1>4. QED
  BY <1>2, <1>3

LEMMA LeftStack ==
    ASSUME StackInv, Left
    PROVE  StackInv'
<1>1. Top.pc = "left" /\ Top \in Frames /\ FrameOK(Top) /\ Top.c \in Critters /\ Top.from # Nowhere
  BY TopLemma DEF Left, At, FrameOK
<1>2. PICK f \in Frames : f = Then("gone")
  BY <1>1, ThenLemma DEF Then, Pcs
<1>3. f.pc = "gone" /\ f.c = Top.c /\ f.from = Top.from
  BY <1>1, <1>2, ThenLemma DEF Then, Pcs
<1>4. FrameOK(f)
  BY <1>1, <1>3 DEF FrameOK
<1>5. GoTo(<<Script>> \o <<f>>) \/ GoTo(<<>> \o <<f>>)
  BY <1>2 DEF Left
<1>6. GoTo(<<Script, f>>) \/ GoTo(<<f>>)
  BY <1>5, MaybeLemma
<1>7. /\ Inside(Script, f) /\ Script.pc \notin Behind \cup Transfer /\ f.pc \notin Behind
      /\ f.pc \in Leaving /\ f.c = Top.c /\ Bound(f)
  BY <1>3, ScriptLemma DEF Inside, Leaving, Behind, Bound, Transfer
<1>8. QED
  BY <1>1, <1>4, <1>6, <1>7, ScriptLemma, OneLemma, TwoLemma

(* The critter has left: the call behind goes on with a critter that is    *)
(* alive and nowhere.                                                      *)
LEMMA GoneStack ==
    ASSUME PlaceInv, StackInv, Together, Gone
    PROVE  StackInv'
<1>1. /\ Top.pc = "gone" /\ Top \in Frames /\ FrameOK(Top) /\ Top.c \in Critters
      /\ Top.from # Nowhere /\ GoodStack(Tail(stack))
      /\ Tail(stack) # <<>> => Inside(Top, Tail(stack)[1])
  BY TopLemma DEF Gone, At, FrameOK
<1>2. CASE Fail
  BY <1>2, AbortLemma DEF Fail
<1>3. CASE ~Fail
  <2>1. /\ place[Top.c] = Top.from /\ GoTo(<<>>)
        /\ place' = [place EXCEPT ![Top.c] = Nowhere] /\ UNCHANGED life
    BY <1>3 DEF Gone
  <2>2. stack' = Tail(stack)
    BY <1>1, <2>1, ConcatGood, EmptyGood DEF GoTo
  <2>3. PICK c \in Critters : c = Top.c
    BY <1>1
  <2>4. place'[c] = Nowhere /\ Exists(c)'
    BY <1>1, <2>1, <2>3 DEF PlaceInv, Together, Exists
  <2>5. Tail(stack) # <<>> /\ Tail(stack)[1].pc \in Behind => Tail(stack)[1].c = c
    BY <1>1, <2>3 DEF Inside
  <2>6. Unique(Tail(stack))
    BY <1>1, TopLemma, TailUnique DEF StackInv, GoodStack
  <2>7. QED
    BY <1>1, <2>2, <2>4, <2>5, <2>6 DEF StackInv, GoodStack, FrameOK, Inside, Exists, Unique
<1>4. QED
  BY <1>2, <1>3

-----------------------------------------------------------------------------
(* Who sees whom.                                                          *)

LEMMA LookStack ==
    ASSUME PlaceInv, StackInv, StartLook \/ Look \/ EndLook
    PROVE  StackInv'
<1>1. Top.pc \in {"look", "looking"} /\ Top \in Frames /\ FrameOK(Top) /\ Top.c \in Critters
  BY TopLemma DEF StartLook, Look, EndLook, At, FrameOK
<1>2. Top.pc \notin Leaving \cup {"jobs"}
  BY <1>1 DEF Leaving
<1>3. CASE GoTo(<<>>)
  BY <1>2, <1>3, PopLemma
<1>4. CASE Fail
  BY <1>4, AbortLemma DEF Fail
<1>5. ASSUME StartLook, ~GoTo(<<>>), ~Fail
      PROVE  StackInv'
  <2> DEFINE c == Top.c
             g == [Then("looking") EXCEPT !.to = place[c], !.left = Pairs(c, on[place[c]])]
  <2>1. place[c] \in Maps /\ GoTo(<<g>>)
    BY <1>5 DEF StartLook
  <2>2. Pairs(c, on[place[c]]) \subseteq Others
    BY <1>1, <2>1 DEF Pairs, PlaceInv, Others
  <2>3. g \in Frames /\ g.pc = "looking" /\ g.c = c /\ g.to = place[c]
        /\ g.left = Pairs(c, on[place[c]])
    <3>1. /\ Pairs(c, on[place[c]]) \in SUBSET Things /\ place[c] \in Places /\ "looking" \in Pcs
      BY <2>1, <2>2 DEF Things, Places, Pcs, Others
    <3>2. PICK q \in SUBSET Things, m \in Places : q = Pairs(c, on[place[c]]) /\ m = place[c]
      BY <3>1
    <3>3. PICK h \in Frames : h = Then("looking") /\ h.pc = "looking" /\ h.c = c
      BY <1>1, <3>1, ThenLemma DEF Then
    <3>4. g = [h EXCEPT !.to = m, !.left = q]
      BY <3>2, <3>3
    <3>5. QED
      BY <3>2, <3>3, <3>4 DEF Frames
  <2>4. FrameOK(g)
    BY <1>1, <2>1, <2>2, <2>3 DEF FrameOK
  <2>5. PICK f \in Frames : f = g
    BY <2>3
  <2>6. FrameOK(f) /\ f.pc \notin Behind /\ Bound(f) /\ GoTo(<<f>>)
    BY <2>1, <2>3, <2>4, <2>5 DEF Behind, Bound, Transfer
  <2>7. QED
    BY <1>2, <2>6, OneLemma
<1>6. ASSUME Look, ~Fail
      PROVE  StackInv'
  <2>1. PICK p \in Top.left : GoTo(<<Script, [Top EXCEPT !.left = @ \ {p}]>>)
    BY <1>6 DEF Look
  <2> DEFINE g == [Top EXCEPT !.left = @ \ {p}]
  <2>2. g \in Frames /\ g.pc = Top.pc /\ g.c = Top.c /\ g.to = Top.to /\ g.left = Top.left \ {p}
    BY <1>1 DEF Frames
  <2>3. FrameOK(g) /\ g.pc \notin Behind /\ Bound(g)
    BY <1>1, <2>2 DEF FrameOK, Behind, Bound, Transfer
  <2>4. PICK f \in Frames : f = g
    BY <2>2
  <2>5. FrameOK(f) /\ f.pc \notin Behind /\ Bound(f) /\ GoTo(<<Script, f>>)
    BY <2>1, <2>3, <2>4
  <2>6. QED
    BY <1>2, <2>5, ScriptThenLemma
<1>7. QED
  BY <1>3, <1>4, <1>5, <1>6 DEF EndLook

(* The sequence that SetToSeq makes of a finite set.                       *)
LEMMA SetToSeqLemma ==
    ASSUME NEW S, IsFiniteSet(S)
    PROVE  SetToSeq(S) \in Seq(S)
<1>1. Cardinality(S) \in Nat /\ ExistsBijection(1..Cardinality(S), S)
  BY FS_CardinalityType
<1>2. \E f \in [1..Cardinality(S) -> S] : IsInjective(f)
  BY <1>1 DEF ExistsBijection, Bijection, Injection
<1>3. SetToSeq(S) \in [1..Cardinality(S) -> S]
  BY <1>2 DEF SetToSeq
<1>4. QED
  BY <1>1, <1>3, SeqDef

LEMMA MoveStack ==
    ASSUME StackInv, MoveAttachedCritters
    PROVE  StackInv'
<1>1. Top.pc = "move" /\ Top \in Frames /\ FrameOK(Top) /\ Top.c \in Critters
  BY TopLemma DEF MoveAttachedCritters, At, FrameOK
<1>2. Top.pc \notin Leaving \cup {"jobs"}
  BY <1>1 DEF Leaving
<1> DEFINE m == place[Top.c]
           looks == {[Frame("look", a) EXCEPT !.from = m] : a \in AttachedCritters(Top.c)}
<1>3. Fail \/ GoTo(<<>>) \/ (m \in Maps /\ GoTo(SetToSeq(looks)))
  BY DEF MoveAttachedCritters
<1>4. CASE Fail
  BY <1>4, AbortLemma DEF Fail
<1>5. CASE GoTo(<<>>)
  BY <1>2, <1>5, PopLemma
<1>6. CASE m \in Maps /\ GoTo(SetToSeq(looks))
  <2>1. AttachedCritters(Top.c) \in SUBSET Critters
    BY DEF AttachedCritters
  <2>2. IsFiniteSet(AttachedCritters(Top.c))
    BY <2>1, CrittersAssumption, FS_Subset
  <2>3. IsFiniteSet(looks)
    <3> DEFINE A == AttachedCritters(Top.c)
               f == [a \in A |-> [Frame("look", a) EXCEPT !.from = m]]
    <3>1. f \in Surjection(A, looks)
      BY DEF Surjection
    <3> HIDE DEF f, A, looks
    <3>2. IsFiniteSet(A)
      BY <2>2 DEF A
    <3>3. QED
      BY <3>1, <3>2, FS_Surjection
  <2>4. ASSUME NEW f \in looks PROVE f \in Frames /\ FrameOK(f) /\ f.pc = "look"
    <3>1. PICK a \in Critters : f = [Frame("look", a) EXCEPT !.from = m]
      BY <2>1
    <3>2. /\ Frame("look", a) \in Frames /\ Frame("look", a).pc = "look"
          /\ Frame("look", a).c = a
      BY FrameLemma
    <3>3. m \in Places
      BY <1>6 DEF Places
    <3>4. f \in Frames /\ f.pc = "look" /\ f.c = a
      BY <3>1, <3>2, <3>3 DEF Frames
    <3>5. QED
      BY <3>4 DEF FrameOK
  <2> HIDE DEF looks, m
  <2>5. PICK s : s = SetToSeq(looks)
    OBVIOUS
  <2>6. s \in Seq(looks)
    BY <2>3, <2>5, SetToSeqLemma
  <2>7. s \in Seq(Frames) /\ Len(s) \in Nat /\ \A k \in 1..Len(s) : s[k] \in looks
    BY <2>4, <2>6, SeqMonotonic, LenProperties
  <2>8. GoodStack(s)
    BY <2>4, <2>7 DEF GoodStack, Inside, Behind
  <2>9. s # <<>> => s[1].pc \notin Behind
    BY <2>4, <2>7, EmptySeq DEF Behind
  <2>10. GoTo(s) /\ \A k \in 1..Len(s) : s[k].pc \notin Transfer
    BY <1>6, <2>4, <2>5, <2>7 DEF Transfer
  <2>11. QED
    BY <1>2, <2>8, <2>9, <2>10, GoToLemma
<1>7. QED
  BY <1>3, <1>4, <1>5, <1>6

-----------------------------------------------------------------------------
(* The end of a critter, of a location, and the calls that end by          *)
(* themselves.                                                             *)

LEMMA DestroyStack ==
    ASSUME StackInv, BeginDestroy \/ Round \/ DestroyInventory \/ TearOff \/ Detach \/ EndDestroy
    PROVE  StackInv'
<1>1. /\ Top.pc \in {"destroy", "finish", "tear", "round", "detach"}
      /\ Top \in Frames /\ FrameOK(Top) /\ Top.c \in Critters
  BY TopLemma DEF BeginDestroy, Round, DestroyInventory, TearOff, Detach, EndDestroy, At, FrameOK
<1>2. Top.pc \notin Leaving \cup {"jobs"} /\ Top.pc \notin Behind
  BY <1>1 DEF Leaving, Behind
<1>3. CASE GoTo(<<>>)
  BY <1>2, <1>3, PopLemma
<1>4. CASE Fail
  BY <1>4, AbortLemma DEF Fail
<1>5. ASSUME NEW pc \in {"finish", "round", "tear", "detach", "unloaded"}
      PROVE  /\ Then(pc) \in Frames /\ FrameOK(Then(pc)) /\ Then(pc).pc = pc
             /\ Then(pc).c = Top.c
  <2>1. pc \in Pcs
    BY DEF Pcs
  <2>2. Then(pc) \in Frames /\ Then(pc).pc = pc /\ Then(pc).c = Top.c
    BY <1>1, <2>1, ThenLemma DEF Then
  <2>3. QED
    BY <1>1, <2>2 DEF FrameOK
<1>6. CASE GoTo(<<Script, Then("finish")>>)
  <2>1. PICK f \in Frames : f = Then("finish") /\ FrameOK(f) /\ f.pc = "finish"
    BY <1>5
  <2>2. GoTo(<<Script, f>>)
    BY <1>6, <2>1
  <2>3. QED
    BY <1>2, <2>1, <2>2, ScriptThenLemma DEF Behind, Bound, Transfer
<1>7. ASSUME NEW pc \in {"round", "tear"}, GoTo(<<Then(pc)>>)
      PROVE  StackInv'
  <2>1. PICK f \in Frames : f = Then(pc) /\ FrameOK(f) /\ f.pc = pc
    BY <1>5
  <2>2. GoTo(<<f>>)
    BY <1>7, <2>1
  <2>3. QED
    BY <1>2, <2>1, <2>2, OneLemma DEF Behind, Bound, Transfer
<1>8. CASE GoTo(<<Script, Top>>)
  <2>1. PICK f \in Frames : f = Top /\ FrameOK(f) /\ f.pc \notin Behind /\ Bound(f)
    BY <1>1, <1>2 DEF Bound, Transfer
  <2>2. GoTo(<<Script, f>>)
    BY <1>8, <2>1
  <2>3. QED
    BY <1>2, <2>1, <2>2, ScriptThenLemma
<1>9. CASE GoTo(<<Frame("leave", Top.c), Then("detach")>>)
  <2>1. PICK a \in Frames, f \in Frames :
           a = Frame("leave", Top.c) /\ FrameOK(a) /\ a.pc = "leave" /\ a.c = Top.c
             /\ f = Then("detach") /\ FrameOK(f) /\ f.pc = "detach"
    BY <1>1, <1>5, FrameLemma
  <2>2. GoTo(<<a, f>>) /\ Inside(a, f) /\ a.pc \notin Behind \cup Transfer /\ Bound(f)
    BY <1>9, <2>1 DEF Inside, Behind, Bound, Transfer
  <2>3. QED
    BY <1>2, <2>1, <2>2, TwoLemma
<1>10. QED
  BY <1>3, <1>4, <1>6, <1>7, <1>8, <1>9
     DEF BeginDestroy, Round, DestroyInventory, TearOff, Detach, EndDestroy

LEMMA UnloadStack ==
    ASSUME StackInv, Unload \/ Unloaded
    PROVE  StackInv'
<1>1. /\ Top.pc \in {"unload", "unloaded"} /\ Top \in Frames /\ FrameOK(Top) /\ Top.c \in Critters
  BY TopLemma DEF Unload, Unloaded, At, FrameOK
<1>2. Top.pc \notin Leaving \cup {"jobs"}
  BY <1>1 DEF Leaving
<1>3. CASE GoTo(<<>>)
  BY <1>2, <1>3, PopLemma
<1>4. CASE Fail
  BY <1>4, AbortLemma DEF Fail
<1>5. CASE GoTo(<<Frame("leave", Top.c), Then("unloaded")>>)
  <2>1. PICK f \in Frames : f = Then("unloaded") /\ f.pc = "unloaded" /\ f.c = Top.c
    <3>1. "unloaded" \in Pcs
      BY DEF Pcs
    <3>2. Then("unloaded") \in Frames /\ Then("unloaded").pc = "unloaded" /\ Then("unloaded").c = Top.c
      BY <1>1, <3>1, ThenLemma DEF Then
    <3>3. QED
      BY <3>2
  <2>2. FrameOK(f)
    BY <1>1, <2>1 DEF FrameOK
  <2>3. PICK a \in Frames : a = Frame("leave", Top.c) /\ FrameOK(a) /\ a.pc = "leave" /\ a.c = Top.c
    BY <1>1, FrameLemma
  <2>4. GoTo(<<a, f>>) /\ Inside(a, f) /\ a.pc \notin Behind \cup Transfer /\ Bound(f)
    BY <1>5, <2>1, <2>3 DEF Inside, Behind, Leaving, Bound, Transfer
  <2>5. QED
    BY <1>2, <2>2, <2>3, <2>4, TwoLemma
<1>6. QED
  BY <1>3, <1>4, <1>5 DEF Unload, Unloaded

LEMMA ClearStack ==
    ASSUME PlaceInv, StackInv, ClearMap \/ ClearNpc \/ EndLocation
    PROVE  StackInv'
<1>1. /\ Top.pc = "clear" /\ Top \in Frames /\ FrameOK(Top)
      /\ Top.left \subseteq Maps /\ Top.all \subseteq Critters
  BY TopLemma DEF ClearMap, ClearNpc, EndLocation, At, FrameOK
<1>2. Top.pc \notin Leaving \cup {"jobs"} /\ Top.pc \notin Behind
  BY <1>1 DEF Leaving, Behind
<1>3. CASE Fail \/ Refuse
  BY <1>3, AbortLemma DEF Fail, Refuse
<1>4. CASE GoTo(<<>>)
  BY <1>2, <1>4, PopLemma
<1>5. ASSUME NEW f \in Frames, f.pc = "clear", f.left \subseteq Maps, f.all \subseteq Critters
      PROVE  FrameOK(f) /\ f.pc \notin Behind /\ Bound(f)
  BY <1>5 DEF FrameOK, Behind, Bound, Transfer
<1>6. ASSUME ClearMap, ~Refuse
      PROVE  StackInv'
  <2>1. PICK m \in Top.left :
           LET here == [Top EXCEPT !.to = m] IN
           \/ \E p \in on[m] \cap Players : GoTo(<<[Frame("transit", p) EXCEPT !.to = Global], here>>)
           \/ GoTo(<<[here EXCEPT !.all = on[m]]>>)
           \/ GoTo(<<[Top EXCEPT !.to = Nowhere, !.left = @ \ {m}]>>)
    BY <1>6 DEF ClearMap
  <2>2. m \in Maps /\ m \in Places /\ Nowhere \in Places /\ Global \in Places
    BY <1>1 DEF Places
  <2>3. on[m] \subseteq Critters /\ on[m] \in SUBSET Things
    BY <2>2 DEF PlaceInv, Things
  <2>4. PICK here \in Frames :
           here = [Top EXCEPT !.to = m] /\ here.pc = "clear" /\ here.left = Top.left
             /\ here.all = Top.all
    <3> DEFINE h == [Top EXCEPT !.to = m]
    <3>1. h \in Frames /\ h.pc = "clear" /\ h.left = Top.left /\ h.all = Top.all
      BY <1>1, <2>2 DEF Frames
    <3>2. QED
      BY <3>1
  <2>5. ASSUME NEW p \in on[m] \cap Players,
               GoTo(<<[Frame("transit", p) EXCEPT !.to = Global], here>>)
        PROVE  StackInv'
    <3>1. p \in Critters
      BY <2>3
    <3>2. /\ Frame("transit", p) \in Frames /\ Frame("transit", p).pc = "transit"
          /\ Frame("transit", p).c = p
      BY <3>1, FrameLemma
    <3>3. PICK t \in Frames : t = [Frame("transit", p) EXCEPT !.to = Global]
                                /\ t.pc = "transit" /\ t.c = p /\ t.to = Global
      <4> DEFINE h == [Frame("transit", p) EXCEPT !.to = Global]
      <4>1. h \in Frames /\ h.pc = "transit" /\ h.c = p /\ h.to = Global
        BY <2>2, <3>2 DEF Frames
      <4>2. QED
        BY <4>1
    <3>4. FrameOK(t) /\ t.pc \notin Behind \cup Transfer
      BY <3>1, <3>3 DEF FrameOK, Behind, Transfer
    <3>5. GoTo(<<t, here>>)
      BY <2>5, <3>3
    <3>6. FrameOK(here) /\ Inside(t, here) /\ Bound(here)
      BY <1>1, <1>5, <2>4 DEF Inside
    <3>7. QED
      BY <1>2, <3>4, <3>5, <3>6, TwoLemma
  <2>6. ASSUME GoTo(<<[here EXCEPT !.all = on[m]]>>)
        PROVE  StackInv'
    <3>1. PICK f \in Frames : f = [here EXCEPT !.all = on[m]] /\ f.pc = "clear"
                                /\ f.left = Top.left /\ f.all = on[m]
      <4> DEFINE h == [here EXCEPT !.all = on[m]]
      <4>1. h \in Frames /\ h.pc = "clear" /\ h.left = Top.left /\ h.all = on[m]
        BY <2>3, <2>4 DEF Frames
      <4>2. QED
        BY <4>1
    <3>2. GoTo(<<f>>)
      BY <2>6, <3>1
    <3>3. QED
      BY <1>1, <1>2, <1>5, <2>3, <3>1, <3>2, OneLemma
  <2>7. ASSUME GoTo(<<[Top EXCEPT !.to = Nowhere, !.left = @ \ {m}]>>)
        PROVE  StackInv'
    <3>1. PICK f \in Frames : f = [Top EXCEPT !.to = Nowhere, !.left = @ \ {m}] /\ f.pc = "clear"
                                /\ f.left = Top.left \ {m} /\ f.all = Top.all
      <4> DEFINE h == [Top EXCEPT !.to = Nowhere, !.left = @ \ {m}]
      <4>1. h \in Frames /\ h.pc = "clear" /\ h.left = Top.left \ {m} /\ h.all = Top.all
        BY <1>1, <2>2 DEF Frames
      <4>2. QED
        BY <4>1
    <3>2. GoTo(<<f>>)
      BY <2>7, <3>1
    <3>3. f.left \subseteq Maps
      BY <1>1, <3>1
    <3>4. QED
      BY <1>1, <1>2, <1>5, <3>1, <3>2, <3>3, OneLemma
  <2>8. QED
    BY <2>1, <2>4, <2>5, <2>6, <2>7
<1>7. ASSUME ClearNpc, ~Fail
      PROVE  StackInv'
  <2>1. PICK n \in Top.all : GoTo(<<Frame("destroy", n), [Top EXCEPT !.all = @ \ {n}]>>)
    BY <1>7 DEF ClearNpc
  <2>2. n \in Critters
    BY <1>1
  <2>3. PICK a \in Frames : a = Frame("destroy", n) /\ FrameOK(a) /\ a.pc = "destroy"
    BY <2>2, FrameLemma
  <2>4. PICK f \in Frames : f = [Top EXCEPT !.all = @ \ {n}] /\ f.pc = "clear"
                              /\ f.left = Top.left /\ f.all = Top.all \ {n}
    <3> DEFINE h == [Top EXCEPT !.all = @ \ {n}]
    <3>1. h \in Frames /\ h.pc = "clear" /\ h.left = Top.left /\ h.all = Top.all \ {n}
      BY <1>1 DEF Frames
    <3>2. QED
      BY <3>1
  <2>5. f.all \subseteq Critters
    BY <1>1, <2>4
  <2>6. FrameOK(f) /\ f.pc \notin Behind /\ Bound(f)
    BY <1>1, <1>5, <2>4, <2>5
  <2>7. GoTo(<<a, f>>) /\ Inside(a, f) /\ a.pc \notin Behind \cup Transfer
    BY <2>1, <2>3, <2>4, <2>6 DEF Inside, Behind, Transfer
  <2>8. QED
    BY <1>2, <2>3, <2>6, <2>7, TwoLemma
<1>8. QED
  BY <1>3, <1>4, <1>6, <1>7 DEF EndLocation

LEMMA StackLemma ==
    ASSUME IInv, Next
    PROVE  StackInv'
<1>1. CASE ScriptReturns
  <2>1. Top.pc = "script" /\ GoTo(<<>>)
    BY <1>1 DEF ScriptReturns, At
  <2>2. QED
    BY <2>1, PopLemma DEF Leaving, IInv
<1>2. CASE TransitLocked
  BY <1>2, AbortLemma DEF TransitLocked, Refuse, IInv
<1>3. QED
  BY <1>1, <1>2, ScriptsLemma, TransitLemma, ArriveStack, ArrivedStack, FollowStack, RejoinStack,
     LeaveStack, LeftStack, GoneStack, LookStack, MoveStack, DestroyStack, UnloadStack, ClearStack
     DEF Next, Engine, IInv

-----------------------------------------------------------------------------
(* Where the critters are, who sees whom and who is alive.                 *)

(* Nothing of it changes.                                                  *)
LEMMA SamePlace ==
    ASSUME PlaceInv, Together, UNCHANGED <<life, place, on, sees>>, calls' \in Nat
    PROVE  PlaceInv' /\ Together'
  BY DEF PlaceInv, Together, MapId, Exists

(* One critter begins or ends to be destroyed.                             *)
LEMMA LifeChanges ==
    ASSUME PlaceInv, Together, UNCHANGED <<place, on, sees>>, calls' \in Nat,
           NEW c \in Critters, NEW l \in Lives, life' = [life EXCEPT ![c] = l],
           l = "destroyed" => place[c] = Nowhere
    PROVE  PlaceInv' /\ Together'
  BY DEF PlaceInv, Together, MapId, Exists

(* The critters of one map see one another, or no longer do.               *)
LEMMA SightChanges ==
    ASSUME PlaceInv, Together, UNCHANGED <<life, place, on>>, calls' \in Nat,
           \A p \in sees' : /\ p \in Critters \X Critters
                            /\ MapId(p[1]) # Nowhere /\ MapId(p[1]) = MapId(p[2])
    PROVE  PlaceInv' /\ Together'
  BY DEF PlaceInv, Together, MapId, Exists

LEMMA CallsStay ==
    ASSUME PlaceInv,
           \/ Fail \/ Refuse \/ \E frames : GoTo(frames)
    PROVE  calls' \in Nat
  BY DEF PlaceInv, Fail, Refuse, Abort, GoTo

LEMMA ScriptsPlace ==
    ASSUME PlaceInv, Together, Scripts
    PROVE  PlaceInv' /\ Together'
<1>1. ASSUME NEW frames, Call(frames) PROVE calls' \in Nat
  BY <1>1 DEF Call, PlaceInv
<1>2. ASSUME NEW c \in Critters, UnloadCritter(c)
      PROVE  PlaceInv' /\ Together'
  <2>1. calls' \in Nat
    BY <1>1, <1>2 DEF UnloadCritter
  <2>2. QED
    BY <1>2, <2>1, LifeChanges DEF UnloadCritter, Lives
<1>3. CASE \A c \in Critters : ~UnloadCritter(c)
  <2>1. calls' \in Nat /\ UNCHANGED <<life, place, on, sees>>
    BY <1>1, <1>3 DEF Scripts, TransitTo, AttachToCritter, DetachFromCritter, AddItem,
          DestroyCritter, DestroyLocation, critters
  <2>2. QED
    BY <2>1, SamePlace
<1>4. QED
  BY <1>2, <1>3

LEMMA TransitPlace ==
    ASSUME PlaceInv, Together, Transit
    PROVE  PlaceInv' /\ Together'
<1>1. calls' \in Nat
  BY CallsStay DEF Transit
<1>2. sees' \subseteq sees
  BY DEF Transit, Unseen
<1>3. QED
  BY <1>1, <1>2, SightChanges DEF Transit, Together, PlaceInv

(* The critter that arrives was nowhere, so that nobody has seen it.       *)
LEMMA ArrivePlace ==
    ASSUME PlaceInv, StackInv, Together, Arrive
    PROVE  PlaceInv' /\ Together'
<1>1. /\ Top.pc = "arrive" /\ Top.c \in Critters /\ Top.to \in Maps \cup {Global}
      /\ place[Top.c] = Nowhere /\ Exists(Top.c)
  BY TopLemma DEF Arrive, At, FrameOK, Behind
<1>2. PICK c \in Critters, t \in Maps \cup {Global} : c = Top.c /\ t = Top.to
  BY <1>1
<1>3. /\ place' = [place EXCEPT ![c] = t]
      /\ on' = [m \in Maps |-> IF m = t THEN on[m] \cup {c} ELSE on[m]]
      /\ life' = life /\ sees' = sees /\ place[c] = Nowhere /\ life[c] # "destroyed"
  BY <1>1, <1>2 DEF Arrive, Exists
<1>4. calls' \in Nat
  BY CallsStay DEF Arrive
<1>5. PlaceInv'
  BY <1>3, <1>4 DEF PlaceInv, Places
<1>6. \A m \in Maps, d \in Critters : d \in on'[m] <=> place'[d] = m
  BY <1>3, PlacesAssumption DEF PlaceInv, Together
<1>7. \A p \in sees : p[1] \in Critters /\ p[2] \in Critters /\ p[1] # c /\ p[2] # c
  BY <1>3, PlacesAssumption DEF PlaceInv, Together, MapId
<1>8. \A p \in sees : place'[p[1]] = place[p[1]] /\ place'[p[2]] = place[p[2]]
  BY <1>3, <1>7 DEF PlaceInv
<1>9. \A d \in Critters : life'[d] = "destroyed" => place'[d] = Nowhere
  BY <1>3 DEF PlaceInv, Together, Exists
<1>10. QED
  BY <1>3, <1>5, <1>6, <1>8, <1>9 DEF Together, MapId, Exists

LEMMA GonePlace ==
    ASSUME PlaceInv, StackInv, Together, Gone
    PROVE  PlaceInv' /\ Together'
<1>1. Top.pc = "gone" /\ Top.c \in Critters /\ Top.from \in Places /\ Top.from # Nowhere
  BY TopLemma DEF Gone, At, FrameOK, Frames
<1>2. PICK c \in Critters, f \in Places : c = Top.c /\ f = Top.from /\ f # Nowhere
  BY <1>1
<1>3. /\ sees' = IF f = Global THEN sees ELSE Unseen(c)
      /\ on' = [n \in Maps |-> on[n] \ (IF n = f THEN {c} ELSE {})]
      /\ life' = life
      /\ IF place[c] = f THEN place' = [place EXCEPT ![c] = Nowhere] ELSE place' = place
  BY <1>2 DEF Gone
<1>4. calls' \in Nat
  BY CallsStay DEF Gone
<1>5. sees' \subseteq sees
  BY <1>3 DEF Unseen
<1>6. PlaceInv'
  BY <1>3, <1>4, <1>5 DEF PlaceInv, Places
<1>7. \A m \in Maps, d \in Critters : d \in on'[m] <=> place'[d] = m
  BY <1>3, PlacesAssumption DEF PlaceInv, Together
<1>8. ASSUME NEW p \in sees'
      PROVE  place'[p[1]] = place[p[1]] /\ place'[p[2]] = place[p[2]]
  <2>1. p \in sees /\ p[1] \in Critters /\ p[2] \in Critters
    BY <1>5 DEF PlaceInv
  <2>2. place[p[1]] \in Maps /\ place[p[2]] \in Maps
    BY <2>1, PlacesAssumption DEF Together, MapId
  <2>3. CASE f = Global /\ place[c] = f
    <3>1. p[1] # c /\ p[2] # c
      BY <2>2, <2>3, PlacesAssumption
    <3>2. QED
      BY <1>3, <2>1, <3>1 DEF PlaceInv
  <2>4. CASE f # Global /\ place[c] = f
    <3>1. p[1] # c /\ p[2] # c
      BY <1>3, <2>4 DEF Unseen
    <3>2. QED
      BY <1>3, <2>1, <3>1 DEF PlaceInv
  <2>5. CASE place[c] # f
    BY <1>3, <2>5
  <2>6. QED
    BY <2>3, <2>4, <2>5
<1>9. \A d \in Critters : life'[d] = "destroyed" => place'[d] = Nowhere
  BY <1>3 DEF PlaceInv, Together, Exists
<1>10. QED
  BY <1>5, <1>6, <1>7, <1>8, <1>9 DEF Together, MapId, Exists

(* Those that look at one another are on the map they look around.         *)
LEMMA LookPlace ==
    ASSUME PlaceInv, StackInv, Together, Look
    PROVE  PlaceInv' /\ Together'
<1>1. /\ Top.pc = "looking" /\ Top.to \in Maps /\ Top.left \subseteq Others
  BY TopLemma DEF Look, At, FrameOK
<1>2. calls' \in Nat
  BY CallsStay DEF Look
<1>3. PICK p \in Top.left : MaySee(p) /\ sees' \subseteq sees \cup {p}
  BY DEF Look
<1>4. p \in Critters \X Critters /\ place[p[1]] = Top.to /\ place[p[2]] = Top.to
  BY <1>1, <1>3 DEF MaySee, Others
<1>5. MapId(p[1]) # Nowhere /\ MapId(p[1]) = MapId(p[2])
  BY <1>1, <1>4, PlacesAssumption DEF MapId
<1>6. QED
  BY <1>2, <1>3, <1>4, <1>5, SightChanges DEF Look, Together, PlaceInv

LEMMA DestroyPlace ==
    ASSUME PlaceInv, StackInv, Together, BeginDestroy \/ EndDestroy \/ Unloaded
    PROVE  PlaceInv' /\ Together'
<1>1. /\ Top.pc \in {"destroy", "finish", "tear", "unloaded"} /\ Top.c \in Critters
      /\ Top.pc = "unloaded" => place[Top.c] = Nowhere
  BY TopLemma DEF BeginDestroy, EndDestroy, Unloaded, At, FrameOK, Behind
<1>2. calls' \in Nat
  BY CallsStay DEF BeginDestroy, EndDestroy, Unloaded
<1>3. PICK c \in Critters : c = Top.c
  BY <1>1
<1>4. UNCHANGED <<place, on, sees>>
  BY DEF BeginDestroy, EndDestroy, Unloaded
<1>5. \/ UNCHANGED life
      \/ life' = [life EXCEPT ![c] = "destroying"]
      \/ life' = [life EXCEPT ![c] = "destroyed"] /\ place[c] = Nowhere
  BY <1>1, <1>3 DEF BeginDestroy, EndDestroy, Unloaded, IsTorn, At
<1>6. QED
  BY <1>2, <1>4, <1>5, SamePlace, LifeChanges DEF Lives

LEMMA PlaceLemma ==
    ASSUME IInv, Next
    PROVE  PlaceInv' /\ Together'
<1>1. CASE \/ ScriptReturns \/ TransitLocked \/ Arrived \/ Follow \/ Rejoin \/ Leave \/ Left
           \/ StartLook \/ EndLook \/ MoveAttachedCritters \/ Round \/ DestroyInventory
           \/ TearOff \/ Detach \/ Unload \/ ClearMap \/ ClearNpc \/ EndLocation
  <2>1. UNCHANGED <<life, place, on, sees>>
    BY <1>1 DEF ScriptReturns, TransitLocked, Arrived, Follow, Rejoin, Leave, Left, StartLook,
          EndLook, MoveAttachedCritters, Round, DestroyInventory, TearOff, Detach, Unload,
          ClearMap, ClearNpc, EndLocation, critters
  <2>2. Fail \/ Refuse \/ \E frames : GoTo(frames)
    BY <1>1 DEF ScriptReturns, TransitLocked, Arrived, Follow, Rejoin, Leave, Left, StartLook,
          EndLook, MoveAttachedCritters, Round, DestroyInventory, TearOff, Detach, Unload,
          ClearMap, ClearNpc, EndLocation
  <2>3. QED
    BY <2>1, <2>2, CallsStay, SamePlace DEF IInv
<1>2. QED
  BY <1>1, ScriptsPlace, TransitPlace, ArrivePlace, GonePlace, LookPlace, DestroyPlace
     DEF Next, Engine, IInv

-----------------------------------------------------------------------------
(* Nobody is attached to itself or sees itself.                            *)

LEMMA AloneLemma ==
    ASSUME SortInv, NEW c
    PROVE  /\ Alone(c) \in [Critters -> Critters \cup {Nowhere}]
           /\ \A a \in Critters : Alone(c)[a] # a
  BY PlacesAssumption DEF SortInv, Alone

LEMMA MasterLemma ==
    ASSUME IInv, Next
    PROVE  /\ master' \in [Critters -> Critters \cup {Nowhere}]
           /\ \A c \in Critters : master'[c] # c
<1> USE DEF IInv
<1>1. CASE UNCHANGED master
  BY <1>1 DEF SortInv
<1>2. ASSUME NEW c, master' = Alone(c)
      PROVE  /\ master' \in [Critters -> Critters \cup {Nowhere}]
             /\ \A d \in Critters : master'[d] # d
  BY <1>2, AloneLemma
<1>3. ASSUME NEW c \in Critters, NEW cr \in Critters, AttachToCritter(c, cr)
      PROVE  /\ master' \in [Critters -> Critters \cup {Nowhere}]
             /\ \A d \in Critters : master'[d] # d
  BY <1>3 DEF AttachToCritter, SortInv
<1>4. ASSUME NEW c \in Critters, DetachFromCritter(c)
      PROVE  /\ master' \in [Critters -> Critters \cup {Nowhere}]
             /\ \A d \in Critters : master'[d] # d
  BY <1>4, PlacesAssumption DEF DetachFromCritter, SortInv
<1>5. CASE Rejoin /\ ~UNCHANGED master
  <2>1. Top.pc = "train" /\ Top.c \in Critters /\ Top.c \notin Top.all
    BY <1>5, TopLemma DEF Rejoin, At, FrameOK
  <2>2. PICK J \in [Critters -> BOOLEAN] :
           /\ master' = [a \in Critters |-> IF J[a] THEN Top.c ELSE master[a]]
           /\ \A a \in Critters : J[a] => a \in Top.all
    <3> DEFINE J == [a \in Critters |-> /\ a \in Top.all /\ Exists(a) /\ master[a] = Nowhere
                                        /\ AttachedCritters(a) = {} /\ MapId(a) = MapId(Top.c)]
    <3>1. master' = [a \in Critters |-> IF J[a] THEN Top.c ELSE master[a]]
      BY <1>5 DEF Rejoin
    <3>2. J \in [Critters -> BOOLEAN] /\ \A a \in Critters : J[a] => a \in Top.all
      OBVIOUS
    <3>3. QED
      BY <3>1, <3>2
  <2>3. QED
    BY <2>1, <2>2 DEF SortInv
<1>6. QED
  BY <1>1, <1>2, <1>3, <1>4, <1>5
     DEF Next, Scripts, Engine, critters, TransitTo, DestroyCritter, UnloadCritter,
         DestroyLocation, AddItem, ScriptReturns, TransitLocked, Transit, Arrive, Arrived, Follow,
         Leave, Left, Gone, StartLook, Look, EndLook, MoveAttachedCritters, BeginDestroy, Round,
         DestroyInventory, TearOff, Detach, EndDestroy, Unload, Unloaded, ClearMap, ClearNpc,
         EndLocation

LEMMA SightLemma ==
    ASSUME IInv, Next
    PROVE  sees' \subseteq Others
<1>1. CASE sees' \subseteq sees
  BY <1>1 DEF IInv, SortInv
<1>2. CASE Look
  <2>1. PICK p \in Top.left : sees' \subseteq sees \cup {p}
    BY <1>2 DEF Look
  <2>2. Top.left \subseteq Others
    BY <1>2, TopLemma DEF IInv, Look, At, FrameOK
  <2>3. QED
    BY <2>1, <2>2 DEF IInv, SortInv
<1>3. CASE Transit \/ Gone
  BY <1>1, <1>3 DEF Transit, Gone, Unseen
<1>4. QED
  BY <1>1, <1>2, <1>3
     DEF Next, Scripts, Engine, critters, TransitTo, AttachToCritter, DetachFromCritter,
         DestroyCritter, UnloadCritter,
         DestroyLocation, AddItem, ScriptReturns, TransitLocked, Arrive, Arrived, Follow, Rejoin,
         Leave, Left, StartLook, EndLook, MoveAttachedCritters, BeginDestroy, Round,
         DestroyInventory, TearOff, Detach, EndDestroy, Unload, Unloaded, ClearMap, ClearNpc,
         EndLocation

LEMMA ListLemma ==
    ASSUME IInv, Next
    PROVE  on' \in [Maps -> SUBSET Critters]
<1>1. CASE UNCHANGED on
  BY <1>1 DEF IInv, SortInv
<1>2. CASE Arrive
  <2>1. Top.c \in Critters
    BY <1>2, TopLemma DEF IInv, Arrive, At, FrameOK
  <2>2. QED
    BY <1>2, <2>1 DEF IInv, SortInv, Arrive
<1>3. CASE Gone
  BY <1>3 DEF IInv, SortInv, Gone
<1>4. QED
  BY <1>1, <1>2, <1>3
     DEF Next, Scripts, Engine, critters, TransitTo, AttachToCritter, DetachFromCritter,
         DestroyCritter, UnloadCritter,
         DestroyLocation, AddItem, ScriptReturns, TransitLocked, Transit, Arrived, Follow, Rejoin,
         Leave, Left, StartLook, Look, EndLook, MoveAttachedCritters, BeginDestroy, Round,
         DestroyInventory, TearOff, Detach, EndDestroy, Unload, Unloaded, ClearMap, ClearNpc,
         EndLocation

(* What is carried, the location, and what only the model keeps.           *)
LEMMA RestLemma ==
    ASSUME IInv, Next
    PROVE  /\ carries' \in [Critters -> BOOLEAN]
           /\ world' \in Lives
           /\ failed' \in BOOLEAN /\ broken' \in BOOLEAN /\ calls' \in 0..MaxCalls
<1> USE DEF IInv, SortInv
<1>1. carries' \in [Critters -> BOOLEAN]
  <2>1. \/ UNCHANGED carries
        \/ \E c, b : b \in BOOLEAN /\ carries' = [carries EXCEPT ![c] = b]
    BY DEF Next, Scripts, Engine, critters, TransitTo, AttachToCritter, DetachFromCritter,
         DestroyCritter, UnloadCritter,
         DestroyLocation, AddItem, ScriptReturns, TransitLocked, Transit, Arrive, Arrived, Follow, Rejoin,
         Leave, Left, Gone, StartLook, Look, EndLook, MoveAttachedCritters, BeginDestroy, Round,
         DestroyInventory, TearOff, Detach, EndDestroy, Unload, Unloaded, ClearMap, ClearNpc,
         EndLocation
  <2>2. QED
    BY <2>1
<1>2. world' \in Lives
  BY DEF Next, Scripts, Engine, critters, TransitTo, AttachToCritter, DetachFromCritter,
         DestroyCritter, UnloadCritter,
         DestroyLocation, AddItem, ScriptReturns, TransitLocked, Transit, Arrive, Arrived, Follow, Rejoin,
         Leave, Left, Gone, StartLook, Look, EndLook, MoveAttachedCritters, BeginDestroy, Round,
         DestroyInventory, TearOff, Detach, EndDestroy, Unload, Unloaded, ClearMap, ClearNpc,
         EndLocation, Lives
<1>3. \/ \E frames : Call(frames)
      \/ \E frames : GoTo(frames)
      \/ Fail
      \/ Refuse
  BY DEF Next, Scripts, Engine, TransitTo, AttachToCritter, DetachFromCritter,
         DestroyCritter, UnloadCritter,
         DestroyLocation, AddItem, ScriptReturns, TransitLocked, Transit, Arrive, Arrived, Follow, Rejoin,
         Leave, Left, Gone, StartLook, Look, EndLook, MoveAttachedCritters, BeginDestroy, Round,
         DestroyInventory, TearOff, Detach, EndDestroy, Unload, Unloaded, ClearMap, ClearNpc,
         EndLocation
<1>4. failed' \in BOOLEAN /\ calls' \in 0..MaxCalls
  <2>1. failed' = TRUE \/ failed' = failed
    BY <1>3 DEF Call, GoTo, Fail, Refuse
  <2>2. calls' = calls \/ (calls < MaxCalls /\ calls' = calls + 1)
    BY <1>3 DEF Call, GoTo, Fail, Refuse, Abort
  <2>3. failed \in BOOLEAN /\ calls \in 0..MaxCalls
    OBVIOUS
  <2>4. calls' \in 0..MaxCalls
    BY <2>2, <2>3, MaxCallsAssumption
  <2>5. QED
    BY <2>1, <2>3, <2>4
<1>5. broken' \in BOOLEAN
  BY DEF Next, Watch
<1>6. QED
  BY <1>1, <1>2, <1>4, <1>5

LEMMA SortLemma ==
    ASSUME IInv, Next
    PROVE  SortInv'
  BY MasterLemma, SightLemma, ListLemma, RestLemma DEF SortInv

-----------------------------------------------------------------------------
LEMMA InitLemma == Init => IInv
<1> SUFFICES ASSUME Init PROVE IInv
  OBVIOUS
<1>1. StackInv
  BY EmptyGood, EmptyUnique DEF Init, StackInv
<1>2. PlaceInv
  BY StartAssumption DEF Init, PlaceInv, Places, Lives
<1>3. Together
  BY StartAssumption, PlacesAssumption DEF Init, Together, MapId, Exists
<1>4. SortInv
  <2>1. on \in [Maps -> SUBSET Critters] /\ sees \subseteq Others
    BY DEF Init, Others
  <2>2. master \in [Critters -> Critters \cup {Nowhere}] /\ \A c \in Critters : master[c] # c
    <3>1. \A c \in Critters : c # Nowhere
      BY PlacesAssumption
    <3>2. QED
      BY <3>1, StartAssumption DEF Init
  <2>3. carries \in [Critters -> BOOLEAN]
    <3>1. carries = [c \in Critters |-> c \in Npcs]
      BY DEF Init
    <3>2. [c \in Critters |-> c \in Npcs] \in [Critters -> BOOLEAN]
      OBVIOUS
    <3>3. QED
      BY <3>1, <3>2
  <2>4. world \in Lives /\ failed \in BOOLEAN /\ broken \in BOOLEAN /\ calls \in 0..MaxCalls
    <3>1. world = "live" /\ failed = FALSE /\ broken = FALSE /\ calls = 0
      BY DEF Init
    <3>2. world \in Lives /\ failed \in BOOLEAN /\ broken \in BOOLEAN
      BY <3>1 DEF Lives
    <3>3. calls \in 0..MaxCalls
      BY <3>1, MaxCallsAssumption
    <3>4. QED
      BY <3>2, <3>3
  <2>5. QED
    BY <2>1, <2>2, <2>3, <2>4 DEF SortInv
<1>5. QED
  BY <1>1, <1>2, <1>3, <1>4 DEF IInv

LEMMA StepLemma == IInv /\ [Next]_vars => IInv'
<1>1. ASSUME IInv, Next PROVE IInv'
  BY <1>1, StackLemma, PlaceLemma, SortLemma DEF IInv
<1>2. ASSUME IInv, UNCHANGED vars PROVE IInv'
  <2>1. calls' \in Nat /\ UNCHANGED <<life, place, on, sees, stack>>
    BY <1>2 DEF vars, critters, IInv, PlaceInv
  <2>2. StackInv'
    BY <1>2, <2>1 DEF IInv, StackInv, GoodStack, FrameOK, Inside, Exists, Unique
  <2>3. SortInv'
    BY <1>2 DEF vars, critters, IInv, SortInv
  <2>4. QED
    BY <1>2, <2>1, <2>2, <2>3, SamePlace DEF IInv
<1>3. QED
  BY <1>1, <1>2

(* Whatever scripts do, in callbacks of calls under way or otherwise, for  *)
(* any critters and maps: the lists of the maps agree with the places of   *)
(* the critters, nobody sees anybody on another map, and who is destroyed  *)
(* is nowhere.                                                             *)
THEOREM TogetherTheorem == Spec => []Together
<1>1. IInv => Together
  BY DEF IInv
<1>2. QED
  BY <1>1, InitLemma, StepLemma, PTL DEF Spec

(* For any critters, maps and calls: every variable keeps to its type, no  *)
(* critter is attached to itself or sees itself, and the lock of transfers *)
(* (LockMapTransfers) keeps a second transfer of a critter from starting   *)
(* while one is under way, however deep scripts call one another.          *)
THEOREM TypeTheorem == Spec => []TypeOK
<1>1. IInv => TypeOK
  <2> SUFFICES ASSUME IInv PROVE TypeOK
    OBVIOUS
  <2>1. DOMAIN stack = 1..Len(stack)
    BY DEF IInv, StackInv, GoodStack
  <2>2. QED
    BY <2>1 DEF IInv, PlaceInv, SortInv, StackInv, Unique, Others, TypeOK
<1>2. QED
  BY <1>1, InitLemma, StepLemma, PTL DEF Spec

-----------------------------------------------------------------------------
(* Calls within calls.  What a frame waits for and where it can stand:     *)
(* some are always on top, some have a callback right above them, and the  *)
(* rest of a call that makes its critter leave has that right above it.    *)
Ending == {"finish", "round", "tear", "detach", "unload", "unloaded"}
Base == {"arrive", "detach", "unloaded"}
WorldPcs == {"left", "gone", "arrived", "train", "finish", "round", "unload"}
TopOnly == {"transit", "leave", "tear", "destroy"}
Waits == {"left", "gone", "arrived", "looking", "finish", "round", "unload"}
Moves == Transfer \cup {"transit"}

(* The call a is right above the call b.                                   *)
Near(a, b) ==
    /\ b.pc \notin TopOnly
    /\ b.pc \in Waits => a.pc = "script"
    /\ b.pc \in Base <=> a.pc \in Leaving
    /\ a.pc \in Leaving => a.c = b.c
    /\ a.pc = "clear" => b.pc = "script"
    /\ a.pc \in Ending \cup {"destroy"} =>
         b.pc \in {"script", "clear"} /\ (b.pc = "clear" => a.c \notin b.all)

(* The call a is somewhere above the call b: no transfer of a critter that *)
(* is being moved, no two ends of one critter and none while it is on its  *)
(* way, and no end of the location inside a call that relies on it.        *)
Order(a, b) ==
    /\ a.pc \in Transfer /\ b.pc \in Moving => a.c # b.c
    /\ a.pc \in Ending /\ b.pc \in Ending \cup {"arrive"} => a.c # b.c
    /\ a.pc = "clear" => b.pc \notin WorldPcs \cup {"clear"}

(* There is no callback between them either: a transfer is one of a convoy *)
(* or takes a player out of a map that is cleared.                         *)
Run(a, b) ==
    /\ a.pc \in Moves => b.pc \in {"train", "clear"}
    /\ a.pc \in Moves /\ b.pc = "clear" => a.to = Global /\ (a.pc \in Transfer => a.from \in Maps)

Chain(s) ==
    /\ s # <<>> => s[Len(s)].pc \notin Leaving
    /\ \A k \in 1..(Len(s) - 1) : Near(s[k], s[k + 1])
    /\ \A j, k \in 1..Len(s) : j < k => Order(s[j], s[k])
    /\ \A j, k \in 1..Len(s) : j < k /\ (\A i \in j..k : s[i].pc # "script") => Run(s[j], s[k])

(* The calls under way, and those above the topmost callback.              *)
All(s) == {s[k] : k \in 1..Len(s)}
Loose(s) == {s[k] : k \in {j \in 1..Len(s) : \A i \in 1..j : s[i].pc # "script"}}


(* A call on top of others.                                                *)
Push(a, t) == <<a>> \o t

LEMMA PushLemma ==
    ASSUME NEW a \in Frames, NEW t \in Seq(Frames)
    PROVE  /\ Push(a, t) \in Seq(Frames) /\ Push(a, t) # <<>>
           /\ Len(t) \in Nat /\ Len(Push(a, t)) = Len(t) + 1
           /\ Push(a, t)[1] = a /\ \A k \in 1..Len(t) : Push(a, t)[k + 1] = t[k]
<1>1. <<a>> \in Seq(Frames) /\ Len(<<a>>) = 1 /\ <<a>>[1] = a /\ Len(t) \in Nat
  BY LenProperties
<1>2. PICK u \in Seq(Frames) : u = <<a>> /\ Len(u) = 1 /\ u[1] = a
  BY <1>1
<1> DEFINE r == u \o t
<1>3. /\ r \in Seq(Frames) /\ Len(r) = 1 + Len(t)
      /\ \A i \in 1..(1 + Len(t)) : r[i] = IF i <= 1 THEN u[i] ELSE t[i - 1]
  BY <1>1, <1>2, ConcatProperties
<1> HIDE DEF r
<1>4. r[1] = a /\ \A k \in 1..Len(t) : r[k + 1] = t[k]
  BY <1>1, <1>2, <1>3
<1>5. r # <<>>
  BY <1>1, <1>3
<1>6. Push(a, t) = r
  BY <1>2 DEF Push, r
<1>7. QED
  BY <1>1, <1>3, <1>4, <1>5, <1>6

LEMMA PushTwo ==
    ASSUME NEW a \in Frames, NEW b \in Frames, NEW t \in Seq(Frames)
    PROVE  <<a, b>> \o t = Push(a, Push(b, t))
<1>1. /\ <<a, b>> \in Seq(Frames) /\ Len(<<a, b>>) = 2 /\ <<a, b>>[1] = a /\ <<a, b>>[2] = b
      /\ Len(t) \in Nat
  BY LenProperties
<1>2. PICK u \in Seq(Frames) : u = <<a, b>> /\ Len(u) = 2 /\ u[1] = a /\ u[2] = b
  BY <1>1
<1> DEFINE r == u \o t
           q == Push(b, t)
           p == Push(a, q)
<1>3. /\ r \in Seq(Frames) /\ Len(r) = 2 + Len(t)
      /\ \A i \in 1..(2 + Len(t)) : r[i] = IF i <= 2 THEN u[i] ELSE t[i - 2]
  BY <1>1, <1>2, ConcatProperties
<1>4. q \in Seq(Frames) /\ Len(q) = Len(t) + 1 /\ q[1] = b /\ \A k \in 1..Len(t) : q[k + 1] = t[k]
  BY PushLemma
<1> HIDE DEF q
<1>5. p \in Seq(Frames) /\ Len(p) = Len(q) + 1 /\ p[1] = a /\ \A k \in 1..Len(q) : p[k + 1] = q[k]
  BY <1>4, PushLemma
<1> HIDE DEF p, r
<1>6. ASSUME NEW k \in 1..Len(r) PROVE r[k] = p[k]
  <2>1. CASE k = 1
    BY <1>1, <1>2, <1>3, <1>5, <2>1
  <2>2. CASE k = 2
    <3>1. p[1 + 1] = q[1] /\ r[2] = b
      BY <1>1, <1>2, <1>3, <1>4, <1>5
    <3>2. QED
      BY <1>4, <2>2, <3>1
  <2>3. CASE k > 2
    <3>1. PICK j \in 1..Len(t) : j = k - 2 /\ k = (j + 1) + 1
      BY <1>1, <1>3, <2>3
    <3>2. p[(j + 1) + 1] = q[j + 1] /\ q[j + 1] = t[j] /\ r[k] = t[j]
      BY <1>1, <1>3, <1>4, <1>5, <2>3, <3>1
    <3>3. QED
      BY <3>1, <3>2
  <2>4. QED
    BY <1>1, <1>3, <2>1, <2>2, <2>3
<1>7. Len(r) = Len(p)
  BY <1>1, <1>3, <1>4, <1>5
<1>8. r = p
  BY <1>3, <1>5, <1>6, <1>7, SeqEqual
<1>9. QED
  BY <1>2, <1>8 DEF r, p, q


LEMMA SplitLemma ==
    ASSUME NEW s \in Seq(Frames), s # <<>>
    PROVE  s[1] \in Frames /\ Tail(s) \in Seq(Frames) /\ s = Push(s[1], Tail(s))
<1> DEFINE t == Tail(s)
<1>1. /\ Len(s) \in Nat /\ Len(s) # 0 /\ t \in Seq(Frames) /\ Len(t) = Len(s) - 1
      /\ \A k \in 1..Len(t) : t[k] = s[k + 1]
  BY LenProperties, EmptySeq, HeadTailProperties
<1>2. s[1] \in Frames
  BY <1>1
<1> DEFINE r == Push(s[1], t)
<1>3. r \in Seq(Frames) /\ Len(r) = Len(t) + 1 /\ r[1] = s[1] /\ \A k \in 1..Len(t) : r[k + 1] = t[k]
  BY <1>1, <1>2, PushLemma
<1> HIDE DEF r, t
<1>4. ASSUME NEW k \in 1..Len(s) PROVE s[k] = r[k]
  <2>1. CASE k = 1
    BY <1>3, <2>1
  <2>2. CASE k # 1
    <3>1. k - 1 \in 1..Len(t) /\ k = (k - 1) + 1
      BY <1>1, <2>2
    <3>2. QED
      BY <1>1, <1>3, <3>1
  <2>3. QED
    BY <2>1, <2>2
<1>5. s = r
  BY <1>1, <1>3, <1>4, SeqEqual
<1>6. QED
  BY <1>1, <1>2, <1>5 DEF r, t

LEMMA AllPush ==
    ASSUME NEW a \in Frames, NEW t \in Seq(Frames)
    PROVE  All(Push(a, t)) = {a} \cup All(t)
<1> DEFINE r == Push(a, t)
<1>1. /\ Len(t) \in Nat /\ Len(r) = Len(t) + 1 /\ r[1] = a /\ \A k \in 1..Len(t) : r[k + 1] = t[k]
  BY PushLemma
<1> HIDE DEF r
<1>2. 1 \in 1..Len(r) /\ \A k \in 1..Len(t) : k + 1 \in 1..Len(r)
  BY <1>1
<1>3. \A k \in 1..Len(r) : r[k] = a \/ \E j \in 1..Len(t) : r[k] = t[j]
  <2>1. \A k \in 1..Len(r) : k = 1 \/ (k - 1 \in 1..Len(t) /\ k = (k - 1) + 1)
    BY <1>1
  <2>2. QED
    BY <1>1, <2>1
<1>4. All(r) = {a} \cup All(t)
  BY <1>1, <1>2, <1>3 DEF All
<1>5. QED
  BY <1>4 DEF r

LEMMA LooseAll ==
    ASSUME NEW t
    PROVE  Loose(t) \subseteq All(t)
  BY DEF Loose, All

LEMMA LoosePush ==
    ASSUME NEW a \in Frames, NEW t \in Seq(Frames)
    PROVE  Loose(Push(a, t)) = IF a.pc = "script" THEN {} ELSE {a} \cup Loose(t)
<1> DEFINE r == Push(a, t)
<1>1. /\ Len(t) \in Nat /\ Len(r) = Len(t) + 1 /\ r[1] = a /\ \A k \in 1..Len(t) : r[k + 1] = t[k]
  BY PushLemma
<1> HIDE DEF r
<1>2. CASE a.pc = "script"
  <2>1. \A j \in 1..Len(r) : 1 \in 1..j
    BY <1>1
  <2>2. Loose(r) = {}
    BY <1>1, <1>2, <2>1 DEF Loose
  <2>3. QED
    BY <1>2, <2>2 DEF r
<1>3. CASE a.pc # "script"
  <2>1. ASSUME NEW f \in Loose(r) PROVE f = a \/ f \in Loose(t)
    <3>1. PICK k \in 1..Len(r) : f = r[k] /\ \A i \in 1..k : r[i].pc # "script"
      BY DEF Loose
    <3>2. CASE k = 1
      BY <1>1, <3>1, <3>2
    <3>3. CASE k # 1
      <4>1. k - 1 \in 1..Len(t) /\ k = (k - 1) + 1
        BY <1>1, <3>3
      <4>2. PICK j \in 1..Len(t) : k = j + 1
        BY <4>1
      <4>3. \A i \in 1..j : t[i].pc # "script"
        <5> SUFFICES ASSUME NEW i \in 1..j PROVE t[i].pc # "script"
          OBVIOUS
        <5>1. i + 1 \in 1..k /\ i \in 1..Len(t)
          BY <1>1, <4>2
        <5>2. QED
          BY <1>1, <3>1, <5>1
      <4>4. f = t[j]
        BY <1>1, <3>1, <4>2
      <4>5. QED
        BY <4>3, <4>4 DEF Loose
    <3>4. QED
      BY <3>2, <3>3
  <2>2. a \in Loose(r)
    <3>1. 1 \in 1..Len(r) /\ \A i \in 1..1 : i = 1
      BY <1>1
    <3>2. QED
      BY <1>1, <1>3, <3>1 DEF Loose
  <2>3. ASSUME NEW f \in Loose(t) PROVE f \in Loose(r)
    <3>1. PICK j \in 1..Len(t) : f = t[j] /\ \A i \in 1..j : t[i].pc # "script"
      BY DEF Loose
    <3>2. j + 1 \in 1..Len(r) /\ r[j + 1] = f
      BY <1>1, <3>1
    <3>3. ASSUME NEW i \in 1..(j + 1) PROVE r[i].pc # "script"
      <4>1. CASE i = 1
        BY <1>1, <1>3, <4>1
      <4>2. CASE i # 1
        <5>1. i - 1 \in 1..j /\ i - 1 \in 1..Len(t) /\ i = (i - 1) + 1
          BY <1>1, <4>2
        <5>2. QED
          BY <1>1, <3>1, <5>1
      <4>3. QED
        BY <4>1, <4>2
    <3>4. QED
      BY <3>2, <3>3 DEF Loose
  <2>4. Loose(r) = {a} \cup Loose(t)
    BY <2>1, <2>2, <2>3
  <2>5. QED
    BY <1>3, <2>4 DEF r
<1>4. QED
  BY <1>2, <1>3

LEMMA PushChain ==
    ASSUME NEW a \in Frames, NEW t \in Seq(Frames), Chain(t),
           t # <<>> => Near(a, t[1]), t = <<>> => a.pc \notin Leaving,
           \A b \in All(t) : Order(a, b), a.pc # "script" => \A b \in Loose(t) : Run(a, b)
    PROVE  Chain(Push(a, t))
<1> DEFINE r == Push(a, t)
<1>1. /\ Len(t) \in Nat /\ Len(r) = Len(t) + 1 /\ r[1] = a /\ \A k \in 1..Len(t) : r[k + 1] = t[k]
      /\ r # <<>>
  BY PushLemma
<1> HIDE DEF r
<1>2. r[Len(r)].pc \notin Leaving
  <2>1. CASE t = <<>>
    BY <1>1, <2>1
  <2>2. CASE t # <<>>
    <3>1. Len(t) # 0
      BY <1>1, <2>2, EmptySeq
    <3>2. r[Len(r)] = t[Len(t)]
      BY <1>1, <3>1
    <3>3. QED
      BY <2>2, <3>2 DEF Chain
  <2>3. QED
    BY <2>1, <2>2
<1>3. ASSUME NEW k \in 1..(Len(r) - 1) PROVE Near(r[k], r[k + 1])
  <2>1. CASE k = 1
    <3>1. r[k] = a /\ r[k + 1] = t[1] /\ t # <<>>
      BY <1>1, <2>1
    <3>2. QED
      BY <3>1
  <2>2. CASE k # 1
    <3>1. PICK j \in 1..(Len(t) - 1) : k = j + 1
      <4>1. k - 1 \in 1..(Len(t) - 1) /\ k = (k - 1) + 1
        BY <1>1, <2>2
      <4>2. QED
        BY <4>1
    <3>2. r[k] = t[j] /\ r[k + 1] = t[j + 1]
      BY <1>1, <3>1
    <3>3. QED
      BY <3>2 DEF Chain
  <2>3. QED
    BY <2>1, <2>2
<1>4. ASSUME NEW j \in 1..Len(r), NEW k \in 1..Len(r), j < k
      PROVE  /\ Order(r[j], r[k])
             /\ (\A i \in j..k : r[i].pc # "script") => Run(r[j], r[k])
  <2>1. PICK n \in 1..Len(t) : k = n + 1
    <3>1. k - 1 \in 1..Len(t) /\ k = (k - 1) + 1
      BY <1>1, <1>4
    <3>2. QED
      BY <3>1
  <2>2. r[k] = t[n] /\ t[n] \in All(t)
    BY <1>1, <2>1 DEF All
  <2>3. CASE j = 1
    <3>1. ASSUME \A i \in j..k : r[i].pc # "script" PROVE Run(r[j], r[k])
      <4>1. ASSUME NEW i \in 1..n PROVE t[i].pc # "script"
        <5>1. i + 1 \in j..k /\ i \in 1..Len(t)
          BY <1>1, <2>1, <2>3
        <5>2. QED
          BY <1>1, <3>1, <5>1
      <4>2. t[n] \in Loose(t)
        BY <4>1 DEF Loose
      <4>3. r[j] = a /\ j \in j..k
        BY <1>1, <1>4, <2>3
      <4>4. QED
        BY <2>2, <3>1, <4>2, <4>3
    <3>2. QED
      BY <1>1, <2>2, <2>3, <3>1
  <2>4. CASE j # 1
    <3>1. PICK m \in 1..Len(t) : j = m + 1
      <4>1. j - 1 \in 1..Len(t) /\ j = (j - 1) + 1
        BY <1>1, <2>4
      <4>2. QED
        BY <4>1
    <3>2. r[j] = t[m] /\ m < n
      BY <1>1, <1>4, <2>1, <3>1
    <3>3. ASSUME \A i \in j..k : r[i].pc # "script" PROVE Run(r[j], r[k])
      <4>1. ASSUME NEW i \in m..n PROVE t[i].pc # "script"
        <5>1. i + 1 \in j..k /\ i \in 1..Len(t)
          BY <1>1, <2>1, <3>1
        <5>2. QED
          BY <1>1, <3>3, <5>1
      <4>2. QED
        BY <2>2, <3>2, <4>1 DEF Chain
    <3>4. QED
      BY <2>2, <3>2, <3>3 DEF Chain
  <2>5. QED
    BY <2>3, <2>4
<1>5. Chain(r)
  BY <1>2, <1>3, <1>4 DEF Chain
<1>6. QED
  BY <1>5 DEF r

LEMMA PopChain ==
    ASSUME NEW a \in Frames, NEW t \in Seq(Frames), Chain(Push(a, t))
    PROVE  /\ Chain(t)
           /\ t # <<>> => Near(a, t[1])
           /\ t = <<>> => a.pc \notin Leaving
           /\ \A b \in All(t) : Order(a, b)
           /\ a.pc # "script" => \A b \in Loose(t) : Run(a, b)
<1> DEFINE r == Push(a, t)
<1>1. /\ Len(t) \in Nat /\ Len(r) = Len(t) + 1 /\ r[1] = a /\ \A k \in 1..Len(t) : r[k + 1] = t[k]
      /\ r # <<>>
  BY PushLemma
<1>2. Chain(r)
  OBVIOUS
<1> HIDE DEF r
<1>3. t # <<>> => Near(a, t[1]) /\ t[Len(t)].pc \notin Leaving
  <2> SUFFICES ASSUME t # <<>> PROVE Near(a, t[1]) /\ t[Len(t)].pc \notin Leaving
    OBVIOUS
  <2>1. Len(t) # 0
    BY <1>1, EmptySeq
  <2>2. r[1 + 1] = t[1] /\ 1 \in 1..(Len(r) - 1) /\ r[Len(r)] = t[Len(t)]
    BY <1>1, <2>1
  <2>3. QED
    BY <1>1, <1>2, <2>2 DEF Chain
<1>4. ASSUME t = <<>> PROVE a.pc \notin Leaving
  <2>1. r[Len(r)] = a
    BY <1>1, <1>4
  <2>2. QED
    BY <1>1, <1>2, <2>1 DEF Chain
<1>5. ASSUME NEW b \in All(t) PROVE Order(a, b)
  <2>1. PICK k \in 1..Len(t) : b = t[k]
    BY DEF All
  <2>2. r[k + 1] = b /\ k + 1 \in 1..Len(r) /\ 1 \in 1..Len(r) /\ 1 < k + 1
    BY <1>1, <2>1
  <2>3. QED
    BY <1>1, <1>2, <2>2 DEF Chain
<1>6. ASSUME a.pc # "script", NEW b \in Loose(t) PROVE Run(a, b)
  <2>1. PICK k \in 1..Len(t) : b = t[k] /\ \A i \in 1..k : t[i].pc # "script"
    BY DEF Loose
  <2>2. r[k + 1] = b /\ k + 1 \in 1..Len(r) /\ 1 \in 1..Len(r) /\ 1 < k + 1
    BY <1>1, <2>1
  <2>3. ASSUME NEW i \in 1..(k + 1) PROVE r[i].pc # "script"
    <3>1. CASE i = 1
      BY <1>1, <1>6, <3>1
    <3>2. CASE i # 1
      <4>1. i - 1 \in 1..k /\ i - 1 \in 1..Len(t) /\ i = (i - 1) + 1
        BY <1>1, <3>2
      <4>2. QED
        BY <1>1, <2>1, <4>1
    <3>3. QED
      BY <3>1, <3>2
  <2>4. QED
    BY <1>1, <1>2, <2>2, <2>3 DEF Chain
<1>7. ASSUME NEW k \in 1..(Len(t) - 1) PROVE Near(t[k], t[k + 1])
  <2>1. t[k] = r[k + 1] /\ t[k + 1] = r[(k + 1) + 1] /\ k + 1 \in 1..(Len(r) - 1)
    BY <1>1
  <2>2. QED
    BY <1>2, <2>1 DEF Chain
<1>8. ASSUME NEW j \in 1..Len(t), NEW k \in 1..Len(t), j < k
      PROVE  /\ Order(t[j], t[k])
             /\ (\A i \in j..k : t[i].pc # "script") => Run(t[j], t[k])
  <2>1. /\ t[j] = r[j + 1] /\ t[k] = r[k + 1] /\ j + 1 < k + 1
        /\ j + 1 \in 1..Len(r) /\ k + 1 \in 1..Len(r)
    BY <1>1, <1>8
  <2>2. ASSUME \A i \in j..k : t[i].pc # "script", NEW i \in (j + 1)..(k + 1)
        PROVE  r[i].pc # "script"
    <3>1. i - 1 \in j..k /\ i - 1 \in 1..Len(t) /\ i = (i - 1) + 1
      BY <1>1
    <3>2. QED
      BY <1>1, <2>2, <3>1
  <2>3. QED
    BY <1>2, <2>1, <2>2 DEF Chain
<1>9. QED
  BY <1>3, <1>4, <1>5, <1>6, <1>7, <1>8 DEF Chain

(* Of the calls above the topmost callback only the innermost is anything  *)
(* but a convoy, a look or the end of the location, or makes the next one  *)
(* wait for its critter to leave.                                          *)
LEMMA LooseLemma ==
    ASSUME NEW a \in Frames, NEW t \in Seq(Frames), Chain(Push(a, t)), a.pc # "script",
           NEW b \in Loose(t)
    PROVE  /\ b.pc \notin Waits \cup TopOnly \cup {"script"}
           /\ b.pc \in Base => t # <<>> /\ b = t[1] /\ a.pc \in Leaving /\ a.c = b.c
           /\ b.pc = "clear" /\ a.pc \in Ending \cup {"destroy"} => a.c \notin b.all
<1> DEFINE r == Push(a, t)
<1>1. /\ Len(t) \in Nat /\ Len(r) = Len(t) + 1 /\ r[1] = a /\ \A k \in 1..Len(t) : r[k + 1] = t[k]
      /\ r # <<>>
  BY PushLemma
<1>2. Chain(r)
  OBVIOUS
<1> HIDE DEF r
<1>3. PICK k \in 1..Len(t) : b = t[k] /\ \A i \in 1..k : t[i].pc # "script"
  BY DEF Loose
<1>4. k \in Nat /\ k \in 1..(Len(r) - 1) /\ r[k + 1] = b /\ b.pc # "script"
  BY <1>1, <1>3
<1>5. ASSUME NEW i \in 1..(k + 1) PROVE r[i].pc # "script"
  <2>1. CASE i = 1
    BY <1>1, <2>1
  <2>2. CASE i # 1
    <3>1. i - 1 \in 1..k /\ i - 1 \in 1..Len(t) /\ i = (i - 1) + 1
      BY <1>1, <2>2
    <3>2. QED
      BY <1>1, <1>3, <3>1
  <2>3. QED
    BY <2>1, <2>2
<1>6. r[k].pc # "script" /\ Near(r[k], b)
  <2>1. k \in 1..(k + 1)
    BY <1>4
  <2>2. QED
    BY <1>2, <1>4, <1>5, <2>1 DEF Chain
<1>7. CASE k = 1
  <2>1. t # <<>> /\ r[k] = a
    BY <1>1, <1>3, <1>7
  <2>2. QED
    BY <1>3, <1>4, <1>6, <1>7, <2>1 DEF Near
<1>8. CASE k # 1
  <2>1. k - 1 \in 1..(Len(r) - 1) /\ (k - 1) + 1 = k /\ k - 1 \in 1..(k + 1)
    BY <1>1, <1>4, <1>8
  <2>2. r[k - 1].pc # "script" /\ Near(r[k - 1], r[k])
    BY <1>2, <1>5, <2>1 DEF Chain
  <2>3. r[k].pc \notin Waits \cup TopOnly
    BY <2>2 DEF Near
  <2>4. r[k].pc \notin Leaving
    BY <2>3 DEF Waits, TopOnly, Leaving
  <2>5. b.pc \notin Base
    BY <1>6, <2>4 DEF Near
  <2>6. ASSUME b.pc = "clear", a.pc \in Ending \cup {"destroy"} PROVE FALSE
    <3>1. Near(a, r[2]) /\ r[2].pc # "script" /\ 2 \in 1..(Len(r) - 1) /\ 2 + 1 \in 1..(k + 1)
      <4>1. 1 \in 1..(Len(r) - 1) /\ 1 + 1 = 2 /\ 2 \in 1..(k + 1)
        BY <1>1, <1>4, <1>8
      <4>2. 2 \in 1..(Len(r) - 1) /\ 2 + 1 \in 1..(k + 1)
        BY <1>1, <1>4, <1>8
      <4>3. Near(r[1], r[1 + 1])
        BY <1>2, <4>1 DEF Chain
      <4>4. QED
        BY <1>1, <1>5, <4>1, <4>2, <4>3
    <3>2. r[2].pc = "clear"
      BY <2>6, <3>1 DEF Near
    <3>3. Near(r[2], r[2 + 1]) /\ r[2 + 1].pc # "script"
      BY <1>2, <1>5, <3>1 DEF Chain
    <3>4. QED
      BY <3>2, <3>3 DEF Near
  <2>7. QED
    BY <1>4, <1>6, <2>5, <2>6 DEF Near
<1>9. QED
  BY <1>7, <1>8

-----------------------------------------------------------------------------
(* What must be the case for a call under way to go on.                    *)
Promise(f) ==
    /\ f.pc \in {"left", "gone"} => place[f.c] = f.from
    /\ f.pc = "leave" => place[f.c] # Nowhere
    /\ f.pc = "transit" => Exists(f.c) /\ place[f.c] # Nowhere
    /\ f.pc = "arrive" => Exists(f.c) /\ Bonds(master, f.c) = {}
    /\ f.pc \in {"arrived", "train"} => place[f.c] \in {f.to, Nowhere}
    /\ f.pc \in Moves => (f.to \in Maps => world # "destroyed")
    /\ f.pc \in Ending => life[f.c] = "destroying"
    /\ f.pc = "detach" => ~carries[f.c]
    /\ f.pc = "tear" => IsTorn(f.c)
    /\ f.pc = "clear" => /\ world = "destroying"
                         /\ \A m \in Maps \ f.left : on[m] = {}
                         /\ \A n \in f.all : Exists(n)

(* Somebody takes care of what is half destroyed.                          *)
Covers(s) ==
    /\ \A c \in Critters : life[c] = "destroying" => \E f \in All(s) : f.pc \in Ending /\ f.c = c
    /\ world = "destroying" => \E f \in All(s) : f.pc = "clear"

Cleared == world = "destroyed" => \A c \in Critters : place[c] \notin Maps

(* Who is alive is somewhere and who is attached is attached properly, but *)
(* for the critter that the innermost call is moving or taking apart.      *)
Calm == (\A c \in Critters : Exists(c) => place[c] # Nowhere) /\ Attached

Fine(c) == /\ Exists(c) /\ Exists(master[c]) /\ MapId(c) = MapId(master[c])
           /\ master[master[c]] = Nowhere

Halfway(f) ==
    /\ place[f.c] = Nowhere
    /\ \A c \in Critters : Exists(c) /\ place[c] = Nowhere => c = f.c
    /\ \A c \in Critters : master[c] # Nowhere =>
         Fine(c) \/ (f.pc \in {"detach", "unloaded"} /\ f.c \in {c, master[c]})

AtTop(s) ==
    /\ s = <<>> \/ s[1].pc \notin Base \cup {"tear"} => Calm
    /\ s # <<>> /\ s[1].pc \in Base \cup {"tear"} => Halfway(s[1])
    /\ s # <<>> /\ s[1].pc = "transit" /\ (\E b \in Loose(s) : b.pc = "clear") => place[s[1].c] \in Maps

Sound ==
    /\ failed = FALSE
    /\ Cleared
    /\ Chain(stack)
    /\ \A f \in All(stack) : Promise(f)
    /\ Covers(stack)
    /\ AtTop(stack)

OrderInv == IInv /\ (~broken => Sound)

LEMMA StackIs ==
    ASSUME IInv
    PROVE  /\ stack \in Seq(Frames)
           /\ stack = <<>> \/ stack[1].pc = "script" <=> InScript
<1>1. stack \in Seq(Frames) /\ \A k \in 1..Len(stack) : stack[k] \in Frames
    BY DEF IInv, StackInv, GoodStack
<1>2. stack # <<>> => Top = stack[1] /\ stack[1] \in Frames
  <2> SUFFICES ASSUME stack # <<>> PROVE Top = stack[1] /\ stack[1] \in Frames
      OBVIOUS
  <2>1. Top = Head(stack) /\ Head(stack) = stack[1]
    BY <1>1 DEF Top
  <2>2. stack[1] \in Frames
    BY <1>1, SplitLemma
  <2>3. QED
    BY <2>1, <2>2
<1>3. stack = <<>> => Top.pc = "jobs"
    BY DEF Top, Frame
<1>4. \A f \in Frames : f.pc # "jobs"
    BY DEF Frames, Pcs
<1>5. QED
    BY <1>1, <1>2, <1>3, <1>4 DEF InScript

(* The innermost call and those below it.                                  *)
LEMMA Setting ==
    ASSUME IInv, Sound, Top.pc # "jobs", NEW t, t = Tail(stack)
    PROVE  /\ t \in Seq(Frames) /\ Top \in Frames /\ FrameOK(Top) /\ Top = stack[1]
           /\ stack # <<>> /\ stack = Push(Top, t)
           /\ Chain(t) /\ (t # <<>> => Near(Top, t[1]) /\ t[1] \in All(t)) /\ (t = <<>> => Top.pc \notin Leaving)
           /\ \A b \in All(t) : Order(Top, b)
           /\ Top.pc # "script" => \A b \in Loose(t) : Run(Top, b)
           /\ Promise(Top) /\ \A f \in All(t) : Promise(f) /\ f \in Frames /\ FrameOK(f)
<1>1. stack \in Seq(Frames) /\ stack # <<>> /\ Top = stack[1] /\ Top \in Frames /\ FrameOK(Top)
  BY TopLemma, StackIs DEF IInv
<1>2. t \in Seq(Frames) /\ stack = Push(Top, t)
  BY <1>1, SplitLemma
<1>3. PICK a \in Frames : a = Top
  BY <1>1
<1>4. Chain(Push(a, t))
  BY <1>2, <1>3 DEF Sound
<1>5. /\ Chain(t) /\ (t # <<>> => Near(a, t[1])) /\ (t = <<>> => a.pc \notin Leaving)
      /\ \A b \in All(t) : Order(a, b)
      /\ a.pc # "script" => \A b \in Loose(t) : Run(a, b)
  BY <1>2, <1>4, PopChain
<1>6. All(Push(a, t)) = {a} \cup All(t)
  BY <1>2, AllPush
<1>7. All(stack) = {a} \cup All(t)
  BY <1>2, <1>3, <1>6
<1>8. \A f \in All(stack) : f \in Frames /\ FrameOK(f)
  BY <1>1 DEF All, IInv, StackInv, GoodStack
<1>9. t # <<>> => t[1] \in All(t)
  <2> SUFFICES ASSUME t # <<>> PROVE t[1] \in All(t)
    OBVIOUS
  <2>1. Len(t) \in Nat /\ Len(t) # 0
    BY <1>2, <1>1, LenProperties, EmptySeq
  <2>2. QED
    BY <2>1 DEF All
<1>10. QED
  BY <1>1, <1>2, <1>3, <1>5, <1>7, <1>8, <1>9 DEF Sound

(* Another frame takes the place of the innermost one.                     *)
Fits(f, a) ==
    /\ f.pc # "script"
    /\ f.pc \in Leaving <=> a.pc \in Leaving
    /\ f.pc \in Leaving => f.c = a.c
    /\ f.pc = "clear" => a.pc = "clear"
    /\ f.pc \in Ending \cup {"destroy"} => a.pc \in Ending \cup {"destroy"} /\ f.c = a.c
    /\ f.pc \in Moves => a.pc \in Moves /\ f.to = a.to /\ f.c = a.c

LEMMA FitLemma ==
    ASSUME NEW a \in Frames, NEW t \in Seq(Frames), Chain(Push(a, t)), a.pc # "script",
           NEW f \in Frames, Fits(f, a),
           f.pc \in Ending =>
             a.pc \in Ending \/ \A b \in All(t) : b.pc \in Ending \cup {"arrive"} => b.c # f.c,
           f.pc \in Transfer =>
             \/ a.pc \in Transfer /\ f.from = a.from
             \/ /\ \A b \in All(t) : b.pc \in Moving => b.c # f.c
                /\ \A b \in Loose(t) : b.pc = "clear" => f.from \in Maps
    PROVE  Chain(Push(f, t))
<1>1. /\ Chain(t)
      /\ t # <<>> => Near(a, t[1])
      /\ t = <<>> => a.pc \notin Leaving
      /\ \A b \in All(t) : Order(a, b)
      /\ \A b \in Loose(t) : Run(a, b)
  BY PopChain
<1>2. t # <<>> => Near(f, t[1])
  BY <1>1 DEF Near, Fits
<1>3. t = <<>> => f.pc \notin Leaving
  BY <1>1 DEF Fits
<1>4. ASSUME NEW b \in All(t) PROVE Order(f, b)
  BY <1>1, <1>4 DEF Order, Fits, Moves
<1>5. ASSUME NEW b \in Loose(t) PROVE Run(f, b)
  BY <1>1, <1>5 DEF Run, Fits, Moves
<1>6. QED
  BY <1>1, <1>2, <1>3, <1>4, <1>5, PushChain

(* What a call puts on top of itself.                                      *)
Plain == {"script", "look", "move", "leave", "destroy"}

LEMMA PlainLemma ==
    ASSUME NEW g \in Frames, g.pc \in Plain, NEW t \in Seq(Frames), Chain(t),
           t # <<>> => Near(g, t[1]), t = <<>> => g.pc # "leave"
    PROVE  Chain(Push(g, t))
<1>1. \A b : Order(g, b)
  BY DEF Order, Plain, Transfer, Ending
<1>2. \A b : Run(g, b)
  BY DEF Run, Plain, Moves, Transfer
<1>3. t = <<>> => g.pc \notin Leaving
  BY DEF Plain, Leaving
<1>4. QED
  BY <1>1, <1>2, <1>3, PushChain

LEMMA CoverLemma ==
    ASSUME NEW a \in Frames, NEW f \in Frames, NEW t \in Seq(Frames), Covers(Push(a, t)),
           a.pc \in Ending => f.pc \in Ending /\ f.c = a.c, a.pc = "clear" => f.pc = "clear"
    PROVE  Covers(Push(f, t))
  BY AllPush DEF Covers

LEMMA CoverPop ==
    ASSUME NEW a \in Frames, NEW t \in Seq(Frames), Covers(Push(a, t)),
           a.pc \notin Ending \cup {"clear"}
    PROVE  Covers(t)
  BY AllPush DEF Covers

LEMMA CoverPush ==
    ASSUME NEW a \in Frames, NEW t \in Seq(Frames), Covers(t)
    PROVE  Covers(Push(a, t))
  BY AllPush DEF Covers

-----------------------------------------------------------------------------
(* What scripts leave alone: what the calls under the topmost callback     *)
(* rely on.                                                                *)
Untouched(f) ==
    /\ f.pc = "arrive" => life'[f.c] = life[f.c] /\ Bonds(master', f.c) = Bonds(master, f.c)
    /\ f.pc = "detach" => carries'[f.c] = carries[f.c]
    /\ f.pc \in WorldPcs => world' = world
    /\ f.pc = "clear" => /\ \A m \in Maps \ f.left : on'[m] = on[m]
                         /\ \A n \in f.all : life'[n] # "destroyed"

LEMMA CallbackLemma ==
    ASSUME stack \in Seq(Frames)
    PROVE  \/ Callback = 0 /\ \A k \in 1..Len(stack) : stack[k].pc # "script"
           \/ /\ Callback \in 1..Len(stack) /\ stack[Callback].pc = "script"
              /\ \A k \in 1..Len(stack) : stack[k].pc = "script" => Callback <= k
<1> DEFINE P == {k \in 1..Len(stack) : stack[k].pc = "script"}
<1>1. Len(stack) \in Nat
  BY LenProperties
<1>2. Callback = IF P # {} THEN Min(P) ELSE 0
  BY DEF Callback, SelectInSeq
<1>3. CASE P = {}
  BY <1>2, <1>3
<1>4. CASE P # {}
  <2>1. \E k \in P : \A i \in P : k <= i
    <3>1. P \subseteq Nat
      OBVIOUS
    <3>2. PICK k \in P : \A i \in P : ~(<<i, k>> \in OpToRel(<, Nat))
      BY <1>4, <3>1, NatLessThanWellFounded, WFMin
    <3>3. \A i \in P : ~(i < k)
      BY <3>1, <3>2 DEF OpToRel
    <3>4. QED
      BY <3>1, <3>3
  <2>2. Callback \in P /\ \A i \in P : Callback <= i
    BY <1>2, <1>4, <2>1 DEF Min
  <2>3. QED
    BY <2>2
<1>5. QED
  BY <1>3, <1>4

LEMMA HeldLemma ==
    ASSUME IInv, ~Touches, NEW f \in All(stack), f \notin Loose(stack)
    PROVE  Untouched(f)
<1>1. stack \in Seq(Frames) /\ Len(stack) \in Nat
  BY StackIs, LenProperties
<1>2. PICK k \in 1..Len(stack) : f = stack[k]
  BY DEF All
<1>3. PICK i \in 1..k : stack[i].pc = "script"
  BY <1>2 DEF Loose
<1>4. Callback \in 1..Len(stack) /\ Callback <= i
  BY <1>1, <1>2, <1>3, CallbackLemma
<1>5. CASE f.pc = "script"
  BY <1>5 DEF Untouched, WorldPcs
<1>6. CASE f.pc # "script"
  <2>1. i # k
    BY <1>2, <1>3, <1>6
  <2>2. Callback # 0 /\ k \in (Callback + 1)..Len(stack)
    BY <1>1, <1>2, <1>3, <1>4, <2>1
  <2>3. ASSUME NEW h \in Held(f)
        PROVE  /\ h[1] = "life" => life'[h[2]] = life[h[2]]
               /\ h[1] = "destroyed" => life'[h[2]] # "destroyed"
               /\ h[1] = "bonds" => Bonds(master', h[2]) = Bonds(master, h[2])
               /\ h[1] = "carries" => carries'[h[2]] = carries[h[2]]
               /\ h[1] = "world" => world' = world
               /\ h[1] = "on" => on'[h[2]] = on[h[2]]
    <3>1. h \in Held(stack[k])
      BY <1>2
    <3>2. QED
      BY <2>2, <3>1 DEF Touches
  <2>4. ASSUME f.pc = "arrive"
        PROVE  life'[f.c] = life[f.c] /\ Bonds(master', f.c) = Bonds(master, f.c)
    <3>1. <<"life", f.c>> \in Held(f) /\ <<"bonds", f.c>> \in Held(f)
      BY <2>4 DEF Held
    <3>2. PICK h \in Held(f) : h = <<"life", f.c>>
      BY <3>1
    <3>3. h[1] = "life" /\ h[2] = f.c
      BY <3>2
    <3>4. PICK g \in Held(f) : g = <<"bonds", f.c>>
      BY <3>1
    <3>5. g[1] = "bonds" /\ g[2] = f.c
      BY <3>4
    <3>6. life'[f.c] = life[f.c]
      BY <2>3, <3>3
    <3>7. Bonds(master', f.c) = Bonds(master, f.c)
      BY <2>3, <3>5
    <3>8. QED
      BY <3>6, <3>7
  <2>5. ASSUME f.pc = "detach" PROVE carries'[f.c] = carries[f.c]
    <3>1. <<"carries", f.c>> \in Held(f)
      BY <2>5 DEF Held
    <3>2. PICK h \in Held(f) : h = <<"carries", f.c>>
      BY <3>1
    <3>3. h[1] = "carries" /\ h[2] = f.c
      BY <3>2
    <3>4. QED
      BY <2>3, <3>3
  <2>6. ASSUME f.pc \in WorldPcs PROVE world' = world
    <3>1. <<"world", Nowhere>> \in Held(f)
      BY <2>6 DEF Held, WorldPcs
    <3>2. PICK h \in Held(f) : h = <<"world", Nowhere>>
      BY <3>1
    <3>3. h[1] = "world"
      BY <3>2
    <3>4. QED
      BY <2>3, <3>3
  <2>7. ASSUME f.pc = "clear", NEW m \in Maps \ f.left PROVE on'[m] = on[m]
    <3>1. <<"on", m>> \in Held(f)
      BY <2>7 DEF Held
    <3>2. PICK h \in Held(f) : h = <<"on", m>>
      BY <3>1
    <3>3. h[1] = "on" /\ h[2] = m
      BY <3>2
    <3>4. QED
      BY <2>3, <3>3
  <2>8. ASSUME f.pc = "clear", NEW n \in f.all PROVE life'[n] # "destroyed"
    <3>1. <<"destroyed", n>> \in Held(f)
      BY <2>8 DEF Held
    <3>2. PICK h \in Held(f) : h = <<"destroyed", n>>
      BY <3>1
    <3>3. h[1] = "destroyed" /\ h[2] = n
      BY <3>2
    <3>4. QED
      BY <2>3, <3>3
  <2>9. QED
    BY <2>4, <2>5, <2>6, <2>7, <2>8 DEF Untouched
<1>7. QED
  BY <1>5, <1>6

-----------------------------------------------------------------------------
(* Steps that leave the critters and the location as they are.             *)
Still == UNCHANGED <<life, place, on, master, carries, world, failed>>

LEMMA StillLemma ==
    ASSUME Still
    PROVE  /\ \A f : Promise(f)' <=> Promise(f)
           /\ \A s : Covers(s)' <=> Covers(s)
           /\ Cleared' <=> Cleared
           /\ Calm' <=> Calm
<1>1. ASSUME NEW f PROVE Promise(f)' <=> Promise(f)
  BY DEF Still, Promise, Exists, IsTorn, AttachedCritters
<1>2. ASSUME NEW s PROVE Covers(s)' <=> Covers(s)
  BY DEF Still, Covers
<1>3. Cleared' <=> Cleared
  BY DEF Still, Cleared
<1>4. Calm' <=> Calm
  BY DEF Still, Calm, Attached, Exists, MapId
<1>5. QED
  BY <1>1, <1>2, <1>3, <1>4

LEMMA StillStep ==
    ASSUME Sound, Calm, Still, NEW s, stack' = s, Chain(s), Covers(s),
           \A f \in All(s) : Promise(f),
           s = <<>> \/ s[1].pc \notin Base \cup {"tear"},
           s # <<>> /\ s[1].pc = "transit" /\ (\E b \in Loose(s) : b.pc = "clear") =>
             place[s[1].c] \in Maps
    PROVE  Sound'
<1>1. Chain(stack') /\ (\A f \in All(stack') : Promise(f)') /\ Covers(s)'
  BY StillLemma
<1>2. Covers(stack)'
  BY <1>1 DEF Covers
<1>3. Cleared' /\ Calm'
  BY StillLemma DEF Sound
<1>4. AtTop(stack)'
  BY <1>3 DEF AtTop, Still
<1>5. QED
  BY <1>1, <1>2, <1>3, <1>4 DEF Sound, Still

LEMMA CalmLemma ==
    ASSUME Sound, stack = <<>> \/ Top.pc \notin Base \cup {"tear"}, stack # <<>> => Top = stack[1]
    PROVE  Calm
  BY DEF Sound, AtTop

(* The innermost call is over.                                             *)
LEMMA StillPop ==
    ASSUME IInv, Sound, Still, Top.pc \notin Base \cup Leaving \cup Ending \cup {"clear", "jobs"},
           GoTo(<<>>)
    PROVE  Sound'
<1>1. PICK t : t = Tail(stack)
  OBVIOUS
<1>2. /\ t \in Seq(Frames) /\ Top \in Frames /\ Top = stack[1] /\ stack # <<>>
      /\ stack = Push(Top, t) /\ Chain(t) /\ (t # <<>> => Near(Top, t[1]))
      /\ \A f \in All(t) : Promise(f)
  BY <1>1, Setting
<1>3. stack' = t
  BY <1>1, <1>2, ConcatEmptySeq DEF GoTo
<1>4. Covers(t)
  BY <1>2, CoverPop DEF Sound
<1>5. Calm
  BY <1>2, CalmLemma DEF Ending
<1>6. t = <<>> \/ t[1].pc \notin Base \cup {"tear", "transit"}
  BY <1>2 DEF Near, TopOnly
<1>7. QED
  BY <1>2, <1>3, <1>4, <1>5, <1>6, StillStep

(* It goes on at another place.                                            *)
LEMMA StillOne ==
    ASSUME IInv, Sound, Still, Top.pc \notin Base \cup {"tear", "script", "jobs"},
           NEW f \in Frames, stack' = Push(f, Tail(stack)), Promise(f), Fits(f, Top),
           f.pc \notin Base \cup {"tear", "transit"},
           Top.pc \in Ending => f.pc \in Ending /\ f.c = Top.c, Top.pc = "clear" => f.pc = "clear",
           Chain(Push(f, Tail(stack)))
    PROVE  Sound'
<1>1. PICK t : t = Tail(stack)
  OBVIOUS
<1>2. /\ t \in Seq(Frames) /\ Top \in Frames /\ Top = stack[1] /\ stack # <<>>
      /\ stack = Push(Top, t) /\ \A g \in All(t) : Promise(g)
  BY <1>1, Setting
<1>3. Covers(Push(f, t))
  BY <1>2, CoverLemma DEF Sound
<1>4. Calm
  BY <1>2, CalmLemma
<1>5. Push(f, t)[1] = f /\ All(Push(f, t)) = {f} \cup All(t)
  BY <1>2, PushLemma, AllPush
<1>6. QED
  BY <1>1, <1>2, <1>3, <1>4, <1>5, StillStep

(* And it calls somebody first.                                            *)
LEMMA StillTwo ==
    ASSUME IInv, Sound, Still, Top.pc \notin Base \cup {"tear", "script", "jobs"},
           NEW f \in Frames, NEW g \in Frames, stack' = Push(g, Push(f, Tail(stack))),
           Promise(f), Promise(g), Near(g, f), g.pc \in Plain,
           Top.pc \in Ending => f.pc \in Ending /\ f.c = Top.c, Top.pc = "clear" => f.pc = "clear",
           Chain(Push(f, Tail(stack)))
    PROVE  Sound'
<1>1. PICK t : t = Tail(stack)
  OBVIOUS
<1>2. /\ t \in Seq(Frames) /\ Top \in Frames /\ Top = stack[1] /\ stack # <<>>
      /\ stack = Push(Top, t) /\ \A h \in All(t) : Promise(h)
  BY <1>1, Setting
<1>3. Covers(Push(f, t))
  BY <1>2, CoverLemma DEF Sound
<1>4. Calm
  BY <1>2, CalmLemma
<1>5. /\ Push(f, t) \in Seq(Frames) /\ Push(f, t) # <<>> /\ Push(f, t)[1] = f
      /\ All(Push(f, t)) = {f} \cup All(t)
  BY <1>2, PushLemma, AllPush
<1>6. PICK u : u = Push(f, t)
  OBVIOUS
<1>7. Chain(u)
  BY <1>1, <1>6
<1>8. u \in Seq(Frames) /\ u # <<>> /\ u[1] = f
  BY <1>5, <1>6
<1>9. Chain(Push(g, u)) /\ Covers(Push(g, u))
  BY <1>3, <1>6, <1>7, <1>8, PlainLemma, CoverPush
<1>10. Push(g, u)[1] = g /\ All(Push(g, u)) = {g} \cup All(u)
  BY <1>8, PushLemma, AllPush
<1>11. \A h \in All(Push(g, u)) : Promise(h)
  BY <1>2, <1>5, <1>6, <1>10
<1>12. g.pc \notin Base \cup {"tear", "transit"}
  BY DEF Plain, Base
<1>13. stack' = Push(g, u)
  BY <1>1, <1>6
<1>14. QED
  BY <1>4, <1>9, <1>10, <1>11, <1>12, <1>13, StillStep

LEMMA GoToForms ==
    ASSUME IInv, Sound, Top.pc # "jobs", NEW f \in Frames, NEW g \in Frames
    PROVE  /\ GoTo(<<f>>) => stack' = Push(f, Tail(stack)) /\ UNCHANGED failed
           /\ GoTo(<<g, f>>) => stack' = Push(g, Push(f, Tail(stack))) /\ UNCHANGED failed
<1>1. PICK t : t = Tail(stack)
  OBVIOUS
<1>2. t \in Seq(Frames)
  BY <1>1, Setting
<1>3. <<f>> \o t = Push(f, t)
  BY DEF Push
<1>4. <<g, f>> \o t = Push(g, Push(f, t))
  BY <1>2, PushTwo
<1>5. QED
  BY <1>1, <1>3, <1>4 DEF GoTo

LEMMA CalmTop ==
    ASSUME IInv, Sound, Top.pc \notin Base \cup {"tear", "jobs"}
    PROVE  Calm
<1>1. PICK t : t = Tail(stack)
  OBVIOUS
<1>2. Top = stack[1]
  BY <1>1, Setting
<1>3. QED
  BY <1>2, CalmLemma

(* A frame that stands where the innermost one stands.                     *)
LEMMA FitTop ==
    ASSUME IInv, Sound, Top.pc \notin {"script", "jobs"}, NEW f \in Frames, Fits(f, Top),
           f.pc \in Ending => Top.pc \in Ending,
           f.pc \in Transfer => Top.pc \in Transfer /\ f.from = Top.from
    PROVE  Chain(Push(f, Tail(stack)))
<1>1. PICK t, a : t = Tail(stack) /\ a = Top
  OBVIOUS
<1>2. t \in Seq(Frames) /\ a \in Frames /\ stack = Push(a, t) /\ Chain(Push(a, t))
  BY <1>1, Setting DEF Sound
<1>3. Chain(Push(f, t))
  BY <1>1, <1>2, FitLemma
<1>4. QED
  BY <1>1, <1>3

(* Mere changes of the place in the code, with or without a call.          *)
LEMMA SoundGoOn ==
    ASSUME IInv, Sound, Still, Top.pc \notin Base \cup {"tear", "script", "jobs"},
           NEW f \in Frames, GoTo(<<f>>), Promise(f), Fits(f, Top),
           f.pc \notin Base \cup {"tear", "transit"},
           f.pc \in Ending => Top.pc \in Ending,
           f.pc \in Transfer => Top.pc \in Transfer /\ f.from = Top.from,
           Top.pc \in Ending => f.pc \in Ending /\ f.c = Top.c, Top.pc = "clear" => f.pc = "clear"
    PROVE  Sound'
<1>1. stack' = Push(f, Tail(stack))
  BY GoToForms
<1>2. Chain(Push(f, Tail(stack)))
  BY FitTop
<1>3. QED
  BY <1>1, <1>2, StillOne

LEMMA SoundCalls ==
    ASSUME IInv, Sound, Still, Top.pc \notin Base \cup {"tear", "script", "jobs"},
           NEW f \in Frames, NEW g \in Frames, GoTo(<<g, f>>),
           Promise(f), Promise(g), Near(g, f), g.pc \in Plain, Fits(f, Top),
           f.pc \in Ending => Top.pc \in Ending,
           f.pc \in Transfer => Top.pc \in Transfer /\ f.from = Top.from,
           Top.pc \in Ending => f.pc \in Ending /\ f.c = Top.c, Top.pc = "clear" => f.pc = "clear"
    PROVE  Sound'
<1>1. stack' = Push(g, Push(f, Tail(stack)))
  BY GoToForms
<1>2. Chain(Push(f, Tail(stack)))
  BY FitTop
<1>3. QED
  BY <1>1, <1>2, StillTwo

LEMMA ThenFrame ==
    ASSUME Top \in Frames, NEW pc \in Pcs
    PROVE  \E f \in Frames : /\ f = Then(pc) /\ f.pc = pc /\ f.c = Top.c /\ f.from = Top.from
                             /\ f.to = Top.to /\ f.left = Top.left /\ f.all = Top.all
<1> DEFINE f == Then(pc)
<1>1. /\ f \in Frames /\ f.pc = pc /\ f.c = Top.c /\ f.from = Top.from
      /\ f.to = Top.to /\ f.left = Top.left /\ f.all = Top.all
  BY ThenLemma DEF Then
<1>2. QED
  BY <1>1

LEMMA ScriptPromise == Script \in Frames /\ Script.pc = "script" /\ Promise(Script)
<1>1. Script \in Frames /\ Script.pc = "script"
  BY ScriptLemma
<1>2. QED
  BY <1>1 DEF Promise, Moves, Transfer, Ending

LEMMA LookPromise ==
    ASSUME NEW c \in Critters, NEW pc \in {"look", "move", "destroy"}
    PROVE  Frame(pc, c) \in Frames /\ Frame(pc, c).pc = pc /\ Frame(pc, c).c = c /\ Promise(Frame(pc, c))
<1>1. Frame(pc, c) \in Frames /\ Frame(pc, c).pc = pc /\ Frame(pc, c).c = c
  BY FrameLemma
<1>2. QED
  BY <1>1 DEF Promise, Moves, Transfer, Ending

LEMMA ArrivedSound ==
    ASSUME IInv, Sound, Arrived
    PROVE  Sound'
<1>1. /\ Top.pc = "arrived" /\ Top \in Frames /\ FrameOK(Top) /\ Top.c \in Critters
      /\ Top.pc \notin Base \cup Leaving \cup Ending \cup {"tear", "clear", "script", "jobs"}
  BY TopLemma DEF Arrived, At, FrameOK, IInv, Base, Leaving, Ending
<1>2. Still
  BY DEF Arrived, Still, critters, GoTo
<1>3. CASE GoTo(<<>>)
  BY <1>1, <1>2, <1>3, StillPop
<1>4. CASE ~GoTo(<<>>)
  <2>1. PICK f \in Frames : /\ f = Then("train") /\ f.pc = "train" /\ f.c = Top.c /\ f.to = Top.to
                            /\ f.from = Top.from
    BY <1>1, ThenFrame DEF Pcs
  <2>2. PICK g \in Frames : g = Frame("look", Top.c) /\ g.pc = "look" /\ Promise(g)
    BY <1>1, LookPromise
  <2>3. GoTo(<<g, f>>)
    BY <1>4, <2>1, <2>2 DEF Arrived
  <2>4. Promise(Top)
    BY <1>1, Setting
  <2>5. Promise(f)
    BY <1>1, <2>1, <2>4 DEF Promise, Moves, Transfer, Ending
  <2>6. Near(g, f) /\ g.pc \in Plain
    BY <2>1, <2>2 DEF Near, Plain, TopOnly, Waits, Base, Leaving, Ending
  <2>7. Fits(f, Top) /\ f.pc \notin Ending /\ Top.pc \in Transfer
    BY <1>1, <2>1 DEF Fits, Leaving, Ending, Moves, Transfer
  <2>8. QED
    BY <1>1, <1>2, <2>1, <2>2, <2>3, <2>5, <2>6, <2>7, SoundCalls
<1>5. QED
  BY <1>3, <1>4

LEMMA LeaveSound ==
    ASSUME IInv, Sound, Leave
    PROVE  Sound'
<1>1. /\ Top.pc = "leave" /\ Top \in Frames /\ FrameOK(Top) /\ Top.c \in Critters
      /\ Top.pc \notin Base \cup Ending \cup {"tear", "clear", "script", "jobs"}
  BY TopLemma DEF Leave, At, FrameOK, IInv, Base, Ending
<1>2. Promise(Top)
  BY <1>1, Setting
<1> DEFINE h == [Then("left") EXCEPT !.from = place[Top.c]]
<1>3. GoTo(<<Script, h>>)
  BY <1>1, <1>2 DEF Leave, Promise
<1>4. Still
  BY <1>3 DEF Leave, Still, critters, GoTo
<1>5. h \in Frames /\ h.pc = "left" /\ h.c = Top.c /\ h.from = place[Top.c]
  <2>1. place[Top.c] \in Places /\ "left" \in Pcs
    BY <1>1 DEF IInv, PlaceInv, Pcs
  <2>2. QED
    BY <1>1, <2>1 DEF Then, Frames
<1>6. PICK f \in Frames : f = h /\ f.pc = "left" /\ f.c = Top.c /\ f.from = place[Top.c]
  BY <1>5
<1>7. GoTo(<<Script, f>>)
  BY <1>3, <1>6
<1>8. Promise(f)
  BY <1>6 DEF Promise, Moves, Transfer, Ending
<1>9. Near(Script, f) /\ Script.pc \in Plain
  BY <1>6, ScriptPromise DEF Near, Plain, TopOnly, Waits, Base, Leaving, Ending
<1>10. Fits(f, Top) /\ f.pc \notin Ending \cup Transfer
  BY <1>1, <1>6 DEF Fits, Leaving, Ending, Moves, Transfer
<1>11. QED
  BY <1>1, <1>4, <1>7, <1>8, <1>9, <1>10, ScriptPromise, SoundCalls

LEMMA LeftSound ==
    ASSUME IInv, Sound, Left
    PROVE  Sound'
<1>1. /\ Top.pc = "left" /\ Top \in Frames /\ FrameOK(Top) /\ Top.c \in Critters
      /\ Top.pc \notin Base \cup Ending \cup {"tear", "clear", "script", "jobs"}
  BY TopLemma DEF Left, At, FrameOK, IInv, Base, Ending
<1>2. Promise(Top)
  BY <1>1, Setting
<1>3. PICK f \in Frames : f = Then("gone") /\ f.pc = "gone" /\ f.c = Top.c /\ f.from = Top.from
  BY <1>1, ThenFrame DEF Pcs
<1>4. GoTo(<<Script>> \o <<f>>) \/ GoTo(<<>> \o <<f>>)
  BY <1>3 DEF Left
<1>5. GoTo(<<Script, f>>) \/ GoTo(<<f>>)
  BY <1>4, MaybeLemma
<1>6. Still
  BY <1>5 DEF Left, Still, critters, GoTo
<1>7. Promise(f)
  BY <1>1, <1>2, <1>3 DEF Promise, Moves, Transfer, Ending
<1>8. Near(Script, f) /\ Script.pc \in Plain
  BY <1>3, ScriptPromise DEF Near, Plain, TopOnly, Waits, Base, Leaving, Ending
<1>9. Fits(f, Top) /\ f.pc \notin Ending \cup Transfer \cup Base \cup {"tear", "transit"}
  BY <1>1, <1>3 DEF Fits, Leaving, Ending, Moves, Transfer, Base
<1>10. QED
  BY <1>1, <1>5, <1>6, <1>7, <1>8, <1>9, ScriptPromise, SoundCalls, SoundGoOn

LEMMA ReturnSound ==
    ASSUME IInv, Sound, ScriptReturns \/ EndLook
    PROVE  Sound'
<1>1. Top.pc \notin Base \cup Leaving \cup Ending \cup {"clear", "jobs"} /\ GoTo(<<>>)
  BY DEF ScriptReturns, EndLook, At, Base, Leaving, Ending
<1>2. Still
  BY <1>1 DEF ScriptReturns, EndLook, Still, critters, GoTo
<1>3. QED
  BY <1>1, <1>2, StillPop

LEMMA StartLookSound ==
    ASSUME IInv, Sound, StartLook
    PROVE  Sound'
<1>1. /\ Top.pc = "look" /\ Top \in Frames /\ FrameOK(Top) /\ Top.c \in Critters
      /\ Top.pc \notin Base \cup Leaving \cup Ending \cup {"tear", "clear", "script", "jobs"}
  BY TopLemma DEF StartLook, At, FrameOK, IInv, Base, Leaving, Ending
<1>2. Calm
  BY <1>1, CalmTop
<1>3. Exists(Top.c) => place[Top.c] # Nowhere /\ Registered(Top.c)
  BY <1>1, <1>2 DEF Calm, Sound, Cleared, Registered
<1>4. CASE GoTo(<<>>)
  <2>1. Still
    BY <1>4 DEF StartLook, Still, critters, GoTo
  <2>2. QED
    BY <1>1, <1>4, <2>1, StillPop
<1>5. CASE ~GoTo(<<>>)
  <2> DEFINE c == Top.c
             h == [Then("looking") EXCEPT !.to = place[c], !.left = Pairs(c, on[place[c]])]
  <2>1. place[c] \in Maps /\ GoTo(<<h>>)
    BY <1>3, <1>5 DEF StartLook
  <2>2. Pairs(c, on[place[c]]) \subseteq Others
    BY <1>1, <2>1 DEF Pairs, IInv, PlaceInv, Others
  <2>3. h \in Frames /\ h.pc = "looking"
    <3>1. /\ Pairs(c, on[place[c]]) \in SUBSET Things /\ place[c] \in Places /\ "looking" \in Pcs
      BY <2>1, <2>2 DEF Things, Places, Pcs, Others
    <3>2. PICK q \in SUBSET Things, m \in Places : q = Pairs(c, on[place[c]]) /\ m = place[c]
      BY <3>1
    <3>3. PICK k \in Frames : k = Then("looking") /\ k.pc = "looking" /\ k.c = c
      BY <1>1, <3>1, ThenFrame
    <3>4. h = [k EXCEPT !.to = m, !.left = q]
      BY <3>2, <3>3
    <3>5. QED
      BY <3>2, <3>3, <3>4 DEF Frames
  <2>4. PICK f \in Frames : f = h /\ f.pc = "looking"
    BY <2>3
  <2> HIDE DEF h
  <2>5. GoTo(<<f>>)
    BY <2>1, <2>4
  <2>6. Still
    BY <2>5 DEF StartLook, Still, critters, GoTo
  <2>7. Promise(f) /\ f.pc \notin Ending \cup Transfer \cup Base \cup {"tear", "transit"}
    BY <2>4 DEF Promise, Moves, Transfer, Ending, Base
  <2>8. Fits(f, Top)
    BY <1>1, <2>4 DEF Fits, Leaving, Ending, Moves, Transfer
  <2>9. QED
    BY <1>1, <2>5, <2>6, <2>7, <2>8, SoundGoOn
<1>6. QED
  BY <1>4, <1>5

LEMMA LookSound ==
    ASSUME IInv, Sound, Look
    PROVE  Sound'
<1>1. /\ Top.pc = "looking" /\ Top \in Frames /\ FrameOK(Top) /\ Top.c \in Critters
      /\ Top.to \in Maps /\ Top.left \subseteq Others
      /\ Top.pc \notin Base \cup Leaving \cup Ending \cup {"tear", "clear", "script", "jobs"}
  BY TopLemma DEF Look, At, FrameOK, IInv, Base, Leaving, Ending
<1>2. Calm
  BY <1>1, CalmTop
<1>3. PICK p \in Top.left :
        /\ MaySee(p)
        /\ \/ GoTo(<<Script, [Top EXCEPT !.left = @ \ {p}]>>)
           \/ \E a \in AttachedCritters(p[2]) : MapId(a) # Top.to
  BY DEF Look
<1>4. p[2] \in Critters /\ p[2] # Nowhere /\ MapId(p[2]) = Top.to
  BY <1>1, <1>3, PlacesAssumption DEF Others, MaySee, MapId
<1>5. ASSUME NEW a \in AttachedCritters(p[2]) PROVE MapId(a) = Top.to
  BY <1>2, <1>4, <1>5 DEF AttachedCritters, Calm, Attached
<1> DEFINE h == [Top EXCEPT !.left = @ \ {p}]
<1>6. GoTo(<<Script, h>>)
  BY <1>3, <1>5
<1>7. Still
  BY <1>6 DEF Look, Still, GoTo
<1>8. h \in Frames /\ h.pc = "looking"
  BY <1>1 DEF Frames
<1>9. PICK f \in Frames : f = h /\ f.pc = "looking"
  BY <1>8
<1>10. GoTo(<<Script, f>>)
  BY <1>6, <1>9
<1>11. Promise(f) /\ f.pc \notin Ending \cup Transfer
  BY <1>9 DEF Promise, Moves, Transfer, Ending
<1>12. Near(Script, f) /\ Script.pc \in Plain
  BY <1>9, ScriptPromise DEF Near, Plain, TopOnly, Waits, Base, Leaving, Ending
<1>13. Fits(f, Top)
  BY <1>1, <1>9 DEF Fits, Leaving, Ending, Moves, Transfer
<1>14. QED
  BY <1>1, <1>7, <1>10, <1>11, <1>12, <1>13, ScriptPromise, SoundCalls

(* A critter that is not torn off everything is somewhere, so that it can  *)
(* be removed from there.                                                  *)
LEMMA RoundSound ==
    ASSUME IInv, Sound, Round
    PROVE  Sound'
<1>1. Top.pc \in {"finish", "tear"} /\ Top.pc \notin {"script", "jobs"} /\ ~IsTorn(Top.c)
  BY DEF Round, At
<1>2. /\ Top \in Frames /\ FrameOK(Top) /\ Top.c \in Critters /\ Promise(Top)
  BY <1>1, Setting DEF FrameOK
<1>3. Top.pc = "finish" /\ Top.pc \notin Base \cup {"tear", "script", "jobs"} /\ Top.pc \in Ending
  BY <1>1, <1>2 DEF Promise, Base, Ending
<1>4. PICK f \in Frames : f = Then("round") /\ f.pc = "round" /\ f.c = Top.c
  BY <1>2, ThenFrame DEF Pcs
<1>5. GoTo(<<f>>)
  BY <1>4 DEF Round
<1>6. Still
  BY <1>5 DEF Round, Still, critters, GoTo
<1>7. Promise(f) /\ f.pc \notin Transfer \cup Base \cup {"tear", "transit"} /\ f.pc \in Ending
  BY <1>2, <1>3, <1>4 DEF Promise, Moves, Transfer, Ending, Base
<1>8. Fits(f, Top)
  BY <1>3, <1>4 DEF Fits, Leaving, Ending, Moves, Transfer
<1>9. QED
  BY <1>3, <1>4, <1>5, <1>6, <1>7, <1>8, SoundGoOn

LEMMA TearOffSound ==
    ASSUME IInv, Sound, TearOff \/ Unload
    PROVE  Sound'
<1>1. /\ Top.pc \in {"round", "unload"} /\ Top.pc \notin Base \cup {"tear", "clear", "script", "jobs"}
      /\ Top.pc \in Ending
  BY DEF TearOff, Unload, At, Base, Ending
<1>2. Top \in Frames /\ FrameOK(Top) /\ Top.c \in Critters /\ Promise(Top)
  BY <1>1, Setting DEF FrameOK
<1>3. Calm
  BY <1>1, CalmTop
<1>4. life[Top.c] = "destroying" /\ Exists(Top.c)
  BY <1>1, <1>2 DEF Promise, Exists
<1>5. place[Top.c] # Nowhere /\ Registered(Top.c)
  BY <1>2, <1>3, <1>4 DEF Calm, Sound, Cleared, Registered
<1>6. \/ ~carries[Top.c] /\ GoTo(<<Frame("leave", Top.c), Then("detach")>>)
      \/ GoTo(<<Frame("leave", Top.c), Then("unloaded")>>)
  BY <1>4, <1>5 DEF TearOff, Unload
<1>7. Still
  BY <1>6 DEF TearOff, Unload, Still, critters, GoTo
<1>8. PICK pc \in {"detach", "unloaded"} :
         /\ pc = "detach" => ~carries[Top.c]
         /\ GoTo(<<Frame("leave", Top.c), Then(pc)>>)
  BY <1>6
<1>9. PICK f \in Frames : f = Then(pc) /\ f.pc = pc /\ f.c = Top.c
  BY <1>2, ThenFrame DEF Pcs
<1>10. PICK g \in Frames : g = Frame("leave", Top.c) /\ g.pc = "leave" /\ g.c = Top.c
  BY <1>2, FrameLemma
<1>11. GoTo(<<g, f>>)
  BY <1>8, <1>9, <1>10
<1>12. Promise(f) /\ Promise(g) /\ f.pc \notin Transfer /\ f.pc \in Ending
  BY <1>4, <1>5, <1>8, <1>9, <1>10 DEF Promise, Moves, Transfer, Ending, Exists
<1>13. Near(g, f) /\ g.pc \in Plain
  BY <1>9, <1>10 DEF Near, Plain, TopOnly, Waits, Base, Leaving, Ending
<1>14. Fits(f, Top)
  BY <1>1, <1>9 DEF Fits, Leaving, Ending, Moves, Transfer
<1>15. QED
  BY <1>1, <1>7, <1>9, <1>10, <1>11, <1>12, <1>13, <1>14, SoundCalls

LEMMA ClearNpcSound ==
    ASSUME IInv, Sound, ClearNpc
    PROVE  Sound'
<1>1. /\ Top.pc = "clear" /\ Top.pc \notin Base \cup {"tear", "script", "jobs"} \cup Ending
  BY DEF ClearNpc, At, Base, Ending
<1>2. Top \in Frames /\ FrameOK(Top) /\ Top.all \subseteq Critters /\ Promise(Top)
  BY <1>1, Setting DEF FrameOK
<1>3. PICK n \in Top.all :
         IF Exists(n) THEN GoTo(<<Frame("destroy", n), [Top EXCEPT !.all = @ \ {n}]>>) ELSE Fail
  BY DEF ClearNpc
<1>4. Exists(n) /\ n \in Critters
  BY <1>1, <1>2 DEF Promise
<1> DEFINE h == [Top EXCEPT !.all = @ \ {n}]
<1>5. h \in Frames /\ h.pc = "clear" /\ h.left = Top.left /\ h.all = Top.all \ {n}
  BY <1>1, <1>2 DEF Frames
<1>6. PICK f \in Frames : f = h /\ f.pc = "clear" /\ f.left = Top.left /\ f.all = Top.all \ {n}
  BY <1>5
<1>7. PICK g \in Frames : g = Frame("destroy", n) /\ g.pc = "destroy" /\ g.c = n /\ Promise(g)
  BY <1>4, LookPromise
<1>8. GoTo(<<g, f>>)
  BY <1>3, <1>4, <1>6, <1>7
<1>9. Still
  BY <1>8 DEF ClearNpc, Still, critters, GoTo
<1>10. Promise(f) /\ f.pc \notin Transfer \cup Ending
  BY <1>1, <1>2, <1>6 DEF Promise, Moves, Transfer, Ending
<1>11. Near(g, f) /\ g.pc \in Plain
  BY <1>6, <1>7 DEF Near, Plain, TopOnly, Waits, Base, Leaving, Ending
<1>12. Fits(f, Top)
  BY <1>1, <1>6 DEF Fits, Leaving, Ending, Moves, Transfer
<1>13. QED
  BY <1>1, <1>6, <1>7, <1>8, <1>9, <1>10, <1>11, <1>12, SoundCalls

(* A transfer is begun on top of the innermost call.                       *)
LEMMA SoundTransits ==
    ASSUME IInv, Sound, Still, Top.pc \in {"train", "clear"},
           NEW f \in Frames, NEW g \in Frames, GoTo(<<g, f>>),
           Promise(f), Promise(g), Fits(f, Top), f.pc = Top.pc, f.from = Top.from,
           g.pc = "transit", f.pc = "clear" => g.to = Global /\ place[g.c] \in Maps,
           \A b \in Loose(Tail(stack)) : Run(g, b) /\ (b.pc = "clear" => place[g.c] \in Maps)
    PROVE  Sound'
<1>1. PICK t : t = Tail(stack)
  OBVIOUS
<1>2. Top.pc \notin Base \cup Ending \cup {"tear", "script", "jobs"}
  BY DEF Base, Ending
<1>3. /\ t \in Seq(Frames) /\ Top \in Frames /\ Top = stack[1] /\ stack # <<>>
      /\ stack = Push(Top, t) /\ \A h \in All(t) : Promise(h)
  BY <1>1, <1>2, Setting
<1>4. Chain(Push(f, t))
  BY <1>1, <1>2, FitTop DEF Transfer, Ending
<1>5. Covers(Push(f, t))
  BY <1>2, <1>3, CoverLemma DEF Sound
<1>6. Calm
  BY <1>2, CalmTop
<1>7. /\ Push(f, t) \in Seq(Frames) /\ Push(f, t) # <<>> /\ Push(f, t)[1] = f
      /\ All(Push(f, t)) = {f} \cup All(t) /\ Loose(Push(f, t)) = {f} \cup Loose(t)
  BY <1>3, PushLemma, AllPush, LoosePush
<1>8. PICK u : u = Push(f, t)
  OBVIOUS
<1>9. u \in Seq(Frames) /\ u # <<>> /\ u[1] = f /\ Chain(u) /\ Covers(u)
  BY <1>4, <1>5, <1>7, <1>8
<1>10. ASSUME NEW b \in Loose(u) PROVE Run(g, b) /\ (b.pc = "clear" => place[g.c] \in Maps)
  <2>1. CASE b \in Loose(t)
    BY <1>1, <2>1
  <2>2. CASE b = f
    BY <2>2 DEF Run, Moves, Transfer
  <2>3. QED
    BY <1>7, <1>8, <2>1, <2>2
<1>11. Near(g, f)
  BY DEF Near, TopOnly, Waits, Base, Leaving, Ending
<1>12. \A b \in All(u) : Order(g, b)
  BY DEF Order, Transfer, Ending
<1>13. Chain(Push(g, u))
  BY <1>9, <1>10, <1>11, <1>12, PushChain
<1>14. Covers(Push(g, u))
  BY <1>9, CoverPush
<1>15. /\ Push(g, u)[1] = g /\ All(Push(g, u)) = {g} \cup All(u)
       /\ Loose(Push(g, u)) = {g} \cup Loose(u)
  BY <1>9, PushLemma, AllPush, LoosePush
<1>16. \A h \in All(Push(g, u)) : Promise(h)
  BY <1>3, <1>7, <1>8, <1>15
<1>17. (\E b \in Loose(Push(g, u)) : b.pc = "clear") => place[g.c] \in Maps
  BY <1>10, <1>15
<1>18. stack' = Push(g, u)
  BY <1>1, <1>2, <1>8, GoToForms
<1>19. g.pc \notin Base \cup {"tear"}
  BY DEF Base
<1>20. QED
  BY <1>6, <1>13, <1>14, <1>15, <1>16, <1>17, <1>18, <1>19, StillStep

LEMMA FollowSound ==
    ASSUME IInv, Sound, Follow
    PROVE  Sound'
<1>1. /\ Top.pc = "train" /\ Top.pc \notin Base \cup Ending \cup {"tear", "clear", "script", "jobs"}
  BY DEF Follow, At, Base, Ending
<1>2. PICK t : t = Tail(stack)
  OBVIOUS
<1>3. /\ Top \in Frames /\ FrameOK(Top) /\ Top.c \in Critters /\ Promise(Top)
      /\ Top.to \in Maps \cup {Global} /\ Top.left \subseteq Critters
      /\ \A b \in Loose(t) : Run(Top, b)
  BY <1>1, <1>2, Setting DEF FrameOK
<1>4. Calm
  BY <1>1, CalmTop
<1>5. PICK a \in Top.left :
         GoTo((IF Follows(a) THEN <<[Frame("transit", a) EXCEPT !.to = Top.to, !.since = Top.since]>> ELSE <<>>)
              \o <<[Top EXCEPT !.left = @ \ {a}]>>)
  BY DEF Follow
<1>6. a \in Critters
  BY <1>3
<1> DEFINE g == [Frame("transit", a) EXCEPT !.to = Top.to, !.since = Top.since]
           h == [Top EXCEPT !.left = @ \ {a}]
<1>7. g \in Frames /\ g.pc = "transit" /\ g.c = a /\ g.to = Top.to
  <2>1. /\ Frame("transit", a) \in Frames /\ Frame("transit", a).pc = "transit"
        /\ Frame("transit", a).c = a
    BY <1>6, FrameLemma
  <2>2. Top.to \in Places /\ Top.since \in Nat
    BY <1>3 DEF Frames
  <2>3. QED
    BY <2>1, <2>2 DEF Frames
<1>8. h \in Frames /\ h.pc = "train" /\ h.c = Top.c /\ h.to = Top.to /\ h.from = Top.from
  BY <1>1, <1>3 DEF Frames
<1>9. PICK u \in Frames, f \in Frames :
         /\ u = g /\ u.pc = "transit" /\ u.c = a /\ u.to = Top.to
         /\ f = h /\ f.pc = "train" /\ f.c = Top.c /\ f.to = Top.to /\ f.from = Top.from
  BY <1>7, <1>8
<1> HIDE DEF g, h
<1>10. (GoTo(<<u>> \o <<f>>) /\ Follows(a)) \/ GoTo(<<>> \o <<f>>)
  BY <1>5, <1>9 DEF g, h
<1>11. (GoTo(<<u, f>>) /\ Follows(a)) \/ GoTo(<<f>>)
  BY <1>10, MaybeLemma
<1>12. Still
  BY <1>11 DEF Follow, Still, critters, GoTo
<1>13. Promise(f)
  BY <1>1, <1>3, <1>9 DEF Promise, Moves, Transfer, Ending
<1>14. Fits(f, Top)
  BY <1>1, <1>9 DEF Fits, Leaving, Ending, Moves, Transfer
<1>15. CASE GoTo(<<f>>)
  <2>1. f.pc \notin Base \cup Ending \cup {"tear", "transit"} /\ Top.pc \in Transfer
    BY <1>1, <1>9 DEF Base, Ending, Transfer
  <2>2. QED
    BY <1>1, <1>9, <1>12, <1>13, <1>14, <1>15, <2>1, SoundGoOn
<1>16. CASE GoTo(<<u, f>>) /\ Follows(a)
  <2>1. Exists(a) /\ MapId(a) = Top.from /\ place[a] # Nowhere
    BY <1>4, <1>6, <1>16 DEF Follows, Calm
  <2>2. Promise(u)
    BY <1>1, <1>3, <1>9, <2>1 DEF Promise, Moves, Transfer, Ending
  <2>3. ASSUME NEW b \in Loose(t) PROVE Run(u, b) /\ (b.pc = "clear" => place[u.c] \in Maps)
    <3>1. Run(Top, b)
      BY <1>3
    <3>2. Run(u, b)
      BY <1>1, <1>9, <3>1 DEF Run, Moves, Transfer
    <3>3. b.pc = "clear" => Top.from \in Maps
      BY <1>1, <3>1 DEF Run, Moves, Transfer
    <3>4. MapId(a) \in Maps => place[a] \in Maps
      BY PlacesAssumption DEF MapId
    <3>5. QED
      BY <1>9, <2>1, <3>2, <3>3, <3>4
  <2>4. QED
    BY <1>1, <1>2, <1>9, <1>12, <1>13, <1>14, <1>16, <2>2, <2>3, SoundTransits
<1>17. QED
  BY <1>11, <1>15, <1>16

(* What is below another call: the rest of a call that has made its        *)
(* critter leave has the removal of the critter above it.                  *)
LEMMA BelowLemma ==
    ASSUME NEW s \in Seq(Frames), Chain(s), NEW k \in 2..Len(s)
    PROVE  /\ s[k].pc \notin TopOnly
           /\ s[k].pc \in Waits => s[k - 1].pc = "script"
           /\ s[k].pc \in Base => s[k - 1].pc \in Leaving /\ s[k - 1].c = s[k].c
           /\ s[k].pc \in Base /\ k # 2 => s[k - 1].pc \in {"left", "gone"}
<1>1. Len(s) \in Nat
  BY LenProperties
<1>2. k - 1 \in 1..(Len(s) - 1) /\ (k - 1) + 1 = k
  BY <1>1
<1>3. Near(s[k - 1], s[k])
  BY <1>2 DEF Chain
<1>4. k # 2 => k - 2 \in 1..(Len(s) - 1) /\ (k - 2) + 1 = k - 1
  BY <1>1
<1>5. k # 2 => s[k - 1].pc \notin TopOnly
  BY <1>4 DEF Chain, Near
<1>6. QED
  BY <1>3, <1>5 DEF Near, Leaving, TopOnly

(* Nothing below the call that clears the location moves or ends a critter. *)
LEMMA UnderClear ==
    ASSUME NEW s \in Seq(Frames), Chain(s), NEW j \in 1..Len(s), NEW k \in 1..Len(s), j < k,
           s[j].pc = "clear"
    PROVE  s[k].pc \notin Moving \cup Ending \cup Moves
<1>1. Order(s[j], s[k]) /\ k \in 2..Len(s)
  BY LenProperties DEF Chain
<1>2. s[k].pc \notin WorldPcs
  BY <1>1 DEF Order
<1>3. s[k].pc \notin TopOnly
  BY <1>1, BelowLemma
<1>4. s[k].pc \notin Base
  <2> SUFFICES ASSUME s[k].pc \in Base PROVE FALSE
    OBVIOUS
  <2>1. s[k - 1].pc \in Leaving /\ (k # 2 => s[k - 1].pc \in {"left", "gone"})
    BY <1>1, BelowLemma
  <2>2. k - 1 # j
    BY <2>1 DEF Leaving
  <2>3. j < k - 1 /\ k - 1 \in 1..Len(s) /\ k # 2
    BY <1>1, <2>2
  <2>4. Order(s[j], s[k - 1])
    BY <2>3 DEF Chain
  <2>5. QED
    BY <2>1, <2>3, <2>4 DEF Order, WorldPcs
<1>5. QED
  BY <1>2, <1>3, <1>4 DEF WorldPcs, TopOnly, Base, Moving, Ending, Moves, Transfer

LEMMA LooseNone ==
    ASSUME NEW t \in Seq(Frames), t = <<>> \/ t[1].pc = "script"
    PROVE  Loose(t) = {}
<1>1. Len(t) \in Nat /\ (t = <<>> => Len(t) = 0)
  BY LenProperties
<1>2. ASSUME NEW k \in 1..Len(t), \A i \in 1..k : t[i].pc # "script" PROVE FALSE
  <2>1. 1 \in 1..k /\ t # <<>>
    BY <1>1
  <2>2. QED
    BY <1>2, <2>1
<1>3. QED
  BY <1>2 DEF Loose

(* The innermost call that clears the location has no other one of its     *)
(* kind below it, and nobody on the map that it clears is half destroyed.  *)
LEMMA ClearMapSound ==
    ASSUME IInv, Sound, ClearMap
    PROVE  Sound'
<1>1. /\ Top.pc = "clear" /\ Top.pc \notin Base \cup {"tear", "script", "jobs"} \cup Ending \cup Leaving
  BY DEF ClearMap, At, Base, Ending, Leaving
<1>2. PICK t : t = Tail(stack)
  OBVIOUS
<1>3. /\ t \in Seq(Frames) /\ stack \in Seq(Frames) /\ Chain(stack) /\ Len(stack) \in Nat
      /\ Top \in Frames /\ FrameOK(Top) /\ Top.left \subseteq Maps /\ Promise(Top)
      /\ stack # <<>> /\ Top = stack[1] /\ (t # <<>> => Near(Top, t[1]))
  BY <1>1, <1>2, Setting, StackIs, LenProperties DEF FrameOK, Sound
<1>4. Loose(t) = {}
  BY <1>1, <1>3, LooseNone DEF Near
<1>5. PICK m \in Top.left :
         /\ Top.to \in {Nowhere, m}
         /\ \/ \E p \in on[m] \cap Players :
                 GoTo(<<[Frame("transit", p) EXCEPT !.to = Global], [Top EXCEPT !.to = m]>>)
            \/ on[m] # {} /\ GoTo(<<[[Top EXCEPT !.to = m] EXCEPT !.all = on[m]]>>)
            \/ on[m] # {} /\ \A n \in on[m] : life[n] # "live"
            \/ on[m] = {} /\ GoTo(<<[Top EXCEPT !.to = Nowhere, !.left = @ \ {m}]>>)
  BY DEF ClearMap
<1>6. m \in Maps /\ Top.all = {} /\ on[m] \subseteq Critters
  BY <1>3 DEF ClearMap, IInv, PlaceInv
<1>7. ASSUME NEW n \in on[m] PROVE n \in Critters /\ place[n] = m /\ Exists(n) /\ life[n] \in Lives
  BY <1>6, PlacesAssumption DEF IInv, Together, PlaceInv
<1>8. ASSUME NEW n \in on[m], life[n] # "live" PROVE FALSE
  <2>1. life[n] = "destroying" /\ n \in Critters
    BY <1>7, <1>8 DEF Lives, Exists
  <2>2. PICK k \in 1..Len(stack) : stack[k].pc \in Ending
    BY <2>1 DEF Sound, Covers, All
  <2>3. k # 1
    BY <1>1, <1>3, <2>2
  <2>4. 1 \in 1..Len(stack) /\ 1 < k
    BY <1>3, <2>3
  <2>5. QED
    BY <1>1, <1>3, <2>2, <2>4, UnderClear
<1>9. ASSUME NEW p \in on[m] \cap Players,
             GoTo(<<[Frame("transit", p) EXCEPT !.to = Global], [Top EXCEPT !.to = m]>>)
      PROVE  Sound'
  <2> DEFINE g0 == [Frame("transit", p) EXCEPT !.to = Global]
             f0 == [Top EXCEPT !.to = m]
  <2>1. p \in Critters /\ place[p] = m /\ Exists(p)
    BY <1>7
  <2>2. g0 \in Frames /\ g0.pc = "transit" /\ g0.c = p /\ g0.to = Global
    <3>1. /\ Frame("transit", p) \in Frames /\ Frame("transit", p).pc = "transit"
          /\ Frame("transit", p).c = p
      BY <2>1, FrameLemma
    <3>2. Global \in Places
      BY DEF Places
    <3>3. QED
      BY <3>1, <3>2 DEF Frames
  <2>3. /\ f0 \in Frames /\ f0.pc = Top.pc /\ f0.c = Top.c /\ f0.from = Top.from
        /\ f0.left = Top.left /\ f0.all = Top.all
    BY <1>3, <1>6 DEF Frames, Places
  <2>4. PICK g \in Frames, f \in Frames :
           /\ g = g0 /\ g.pc = "transit" /\ g.c = p /\ g.to = Global
           /\ f = f0 /\ f.pc = Top.pc /\ f.c = Top.c /\ f.from = Top.from
           /\ f.left = Top.left /\ f.all = Top.all
    BY <2>2, <2>3
  <2>5. GoTo(<<g, f>>)
    BY <1>9, <2>4
  <2> HIDE DEF g0, f0
  <2>6. Still
    BY <2>5 DEF ClearMap, Still, critters, GoTo
  <2>7. Promise(f)
    BY <1>1, <1>3, <2>4 DEF Promise, Moves, Transfer, Ending
  <2>8. Promise(g)
    BY <1>6, <2>1, <2>4, PlacesAssumption DEF Promise, Moves, Transfer, Ending
  <2>9. Fits(f, Top)
    BY <1>1, <2>4 DEF Fits, Leaving, Ending, Moves, Transfer
  <2>10. QED
    BY <1>1, <1>2, <1>4, <1>6, <2>1, <2>4, <2>5, <2>6, <2>7, <2>8, <2>9, SoundTransits
<1>10. ASSUME NEW f0, GoTo(<<f0>>), f0 \in Frames, f0.pc = "clear", Promise(f0) PROVE Sound'
  <2>1. PICK f \in Frames : f = f0
    BY <1>10
  <2>2. GoTo(<<f>>) /\ Promise(f) /\ f.pc = "clear"
    BY <1>10, <2>1
  <2>3. Still
    BY <2>2 DEF ClearMap, Still, critters, GoTo
  <2>4. Fits(f, Top) /\ f.pc \notin Base \cup {"tear", "transit"} \cup Ending \cup Transfer
    BY <1>1, <2>2 DEF Fits, Leaving, Ending, Moves, Transfer, Base
  <2>5. QED
    BY <1>1, <2>2, <2>3, <2>4, SoundGoOn
<1>11. ASSUME GoTo(<<[[Top EXCEPT !.to = m] EXCEPT !.all = on[m]]>>) PROVE Sound'
  <2> DEFINE f == [[Top EXCEPT !.to = m] EXCEPT !.all = on[m]]
  <2>1. f \in Frames /\ f.pc = "clear" /\ f.left = Top.left /\ f.all = on[m]
    BY <1>1, <1>3, <1>6 DEF Frames, Places, Things
  <2>2. Promise(f)
    <3> HIDE DEF f
    <3>1. QED
      BY <1>1, <1>3, <1>7, <2>1 DEF Promise, Moves, Transfer, Ending
  <2>3. QED
    BY <1>10, <1>11, <2>1, <2>2
<1>12. ASSUME on[m] = {}, GoTo(<<[Top EXCEPT !.to = Nowhere, !.left = @ \ {m}]>>) PROVE Sound'
  <2> DEFINE f == [Top EXCEPT !.to = Nowhere, !.left = @ \ {m}]
  <2>1. f \in Frames /\ f.pc = "clear" /\ f.left = Top.left \ {m} /\ f.all = Top.all
    BY <1>1, <1>3, <1>6 DEF Frames, Places, Things
  <2>2. Promise(f)
    <3> HIDE DEF f
    <3>1. QED
      BY <1>1, <1>3, <1>12, <2>1 DEF Promise, Moves, Transfer, Ending
  <2>3. QED
    BY <1>10, <1>12, <2>1, <2>2
<1>13. QED
  BY <1>5, <1>8, <1>9, <1>11, <1>12

-----------------------------------------------------------------------------
(* An exception ends the calls above the topmost callback.                 *)
LEMMA SuffixChain ==
    ASSUME NEW s \in Seq(Frames), Chain(s), NEW n \in 1..Len(s), NEW r \in Seq(Frames),
           Len(r) = Len(s) - n + 1, \A k \in 1..(Len(s) - n + 1) : r[k] = s[n + k - 1]
    PROVE  Chain(r)
<1>1. Len(s) \in Nat
  BY LenProperties
<1>2. r[Len(r)] = s[Len(s)] /\ s # <<>>
  BY <1>1
<1>3. ASSUME NEW k \in 1..(Len(r) - 1) PROVE Near(r[k], r[k + 1])
  <2>1. /\ r[k] = s[n + k - 1] /\ r[k + 1] = s[(n + k - 1) + 1]
        /\ n + k - 1 \in 1..(Len(s) - 1)
    BY <1>1
  <2>2. QED
    BY <2>1 DEF Chain
<1>4. ASSUME NEW j \in 1..Len(r), NEW k \in 1..Len(r), j < k
      PROVE  /\ Order(r[j], r[k])
             /\ (\A i \in j..k : r[i].pc # "script") => Run(r[j], r[k])
  <2>1. /\ r[j] = s[n + j - 1] /\ r[k] = s[n + k - 1] /\ n + j - 1 < n + k - 1
        /\ n + j - 1 \in 1..Len(s) /\ n + k - 1 \in 1..Len(s)
    BY <1>1, <1>4
  <2>2. ASSUME \A i \in j..k : r[i].pc # "script", NEW i \in (n + j - 1)..(n + k - 1)
        PROVE  s[i].pc # "script"
    <3>1. i - n + 1 \in j..k /\ i - n + 1 \in 1..(Len(s) - n + 1) /\ n + (i - n + 1) - 1 = i
      BY <1>1
    <3>2. r[i - n + 1] = s[n + (i - n + 1) - 1]
      BY <3>1
    <3>3. QED
      BY <2>2, <3>1, <3>2
  <2>3. QED
    BY <2>1, <2>2 DEF Chain
<1>5. QED
  BY <1>2, <1>3, <1>4 DEF Chain

LEMMA AbortSound ==
    ASSUME IInv, Sound, Still, Abort, Calm,
           \A b \in Loose(stack) : b.pc \notin Ending \cup {"clear"}
    PROVE  Sound'
<1>1. stack \in Seq(Frames) /\ Len(stack) \in Nat
  BY StackIs, LenProperties
<1>2. CASE Callback = 0
  <2>1. stack' = <<>>
    BY <1>2 DEF Abort
  <2>2. \A k \in 1..Len(stack) : stack[k].pc # "script"
    BY <1>1, <1>2, CallbackLemma
  <2>3. All(stack) \subseteq Loose(stack)
    BY <1>1, <2>2 DEF All, Loose
  <2>4. PICK s : s = <<>>
    OBVIOUS
  <2>5. Len(s) = 0 /\ s \in Seq(Frames)
    BY <2>4
  <2>6. All(s) = {} /\ Chain(s)
    BY <2>4, <2>5 DEF All, Chain
  <2>7. Covers(s)
    BY <2>3, <2>6 DEF Sound, Covers
  <2>8. QED
    BY <2>1, <2>4, <2>6, <2>7, StillStep
<1>3. CASE Callback # 0
  <2>1. PICK n \in 1..Len(stack) : /\ n = Callback /\ stack[n].pc = "script"
                                   /\ \A k \in 1..Len(stack) : stack[k].pc = "script" => n <= k
    BY <1>1, <1>3, CallbackLemma
  <2>2. PICK s : s = SubSeq(stack, n, Len(stack))
    OBVIOUS
  <2>3. /\ s \in Seq(Frames) /\ Len(s) = Len(stack) - n + 1
        /\ \A k \in 1..(Len(stack) - n + 1) : s[k] = stack[n + k - 1]
    BY <1>1, <2>2, SubSeqProperties
  <2>4. Chain(s)
    BY <1>1, <2>3, SuffixChain DEF Sound
  <2>5. s # <<>> /\ s[1] = stack[n]
    BY <1>1, <2>3
  <2>6. ASSUME NEW f \in All(s) PROVE f \in All(stack)
    <3>1. PICK k \in 1..Len(s) : f = s[k]
      BY DEF All
    <3>2. f = stack[n + k - 1] /\ n + k - 1 \in 1..Len(stack)
      BY <1>1, <2>3, <3>1
    <3>3. QED
      BY <3>2 DEF All
  <2>7. ASSUME NEW f \in All(stack) PROVE f \in All(s) \/ f \in Loose(stack)
    <3>1. PICK k \in 1..Len(stack) : f = stack[k]
      BY DEF All
    <3>2. CASE k < n
      <4>1. \A i \in 1..k : i \in 1..Len(stack) /\ i < n
        BY <1>1, <3>2
      <4>2. \A i \in 1..k : stack[i].pc # "script"
        BY <2>1, <4>1
      <4>3. QED
        BY <3>1, <4>2 DEF Loose
    <3>3. CASE k >= n
      <4>1. k - n + 1 \in 1..Len(s) /\ n + (k - n + 1) - 1 = k
        BY <1>1, <2>3, <3>3
      <4>2. s[k - n + 1] = stack[n + (k - n + 1) - 1]
        BY <2>3, <4>1
      <4>3. QED
        BY <3>1, <4>1, <4>2 DEF All
    <3>4. QED
      BY <1>1, <3>2, <3>3
  <2>8. Covers(s)
    BY <2>6, <2>7 DEF Sound, Covers
  <2>9. stack' = s
    BY <1>3, <2>1, <2>2 DEF Abort
  <2>10. s[1].pc = "script"
    BY <2>1, <2>5
  <2>11. QED
    BY <2>4, <2>6, <2>8, <2>9, <2>10, StillStep DEF Sound, Base
<1>4. QED
  BY <1>2, <1>3

(* A transfer is refused only inside one of the same critter, and no such  *)
(* one takes a player out of a map that is cleared.                        *)
LEMMA TransitLockedSound ==
    ASSUME IInv, Sound, TransitLocked
    PROVE  Sound'
<1>1. Top.pc = "transit" /\ Top.pc \notin Base \cup Ending \cup {"tear", "clear", "script", "jobs"}
  BY DEF TransitLocked, At, Base, Ending
<1>2. PICK t, a : t = Tail(stack) /\ a = Top
  OBVIOUS
<1>3. /\ t \in Seq(Frames) /\ a \in Frames /\ FrameOK(a) /\ a.c \in Critters
      /\ stack = Push(a, t) /\ stack # <<>> /\ stack[1] = a
      /\ Chain(t) /\ (\A b \in Loose(t) : Run(a, b))
      /\ \A f \in All(t) : Promise(f)
  BY <1>1, <1>2, Setting DEF FrameOK
<1>4. Loose(stack) = {a} \cup Loose(t) /\ Len(t) \in Nat
  BY <1>1, <1>2, <1>3, LoosePush, LenProperties
<1>5. PICK k \in 1..Len(t) : t[k].pc \in Moving /\ t[k].c = a.c
  BY <1>2, <1>3 DEF TransitLocked, Locks
<1>6. ASSUME NEW b \in Loose(t) PROVE b.pc \notin Ending \cup {"clear"}
  <2>1. b.pc \in {"train", "clear"}
    BY <1>1, <1>2, <1>3 DEF Run, Moves
  <2>2. ASSUME b.pc = "clear" PROVE FALSE
    <3>1. place[a.c] \in Maps
      BY <1>1, <1>2, <1>3, <1>4, <2>2 DEF Sound, AtTop
    <3>2. PICK j \in 1..Len(t) : b = t[j] /\ \A i \in 1..j : t[i].pc # "script"
      BY DEF Loose
    <3>3. ~(j < k)
      BY <1>3, <1>5, <2>2, <3>2, UnderClear
    <3>4. j # k
      BY <1>5, <2>2, <3>2 DEF Moving, Transfer
    <3>5. k < j
      BY <3>3, <3>4
    <3>6. \A i \in 1..k : i \in 1..j
      BY <3>5
    <3>7. t[k] \in Loose(t) /\ t[k] \in All(t)
      BY <3>2, <3>6 DEF Loose, All
    <3>8. t[k].pc = "train"
      <4>1. t[k].pc \in {"train", "clear"}
        BY <1>1, <1>2, <1>3, <3>7 DEF Run, Moves
      <4>2. QED
        BY <1>5, <4>1 DEF Moving, Transfer
    <3>9. \A i \in k..j : i \in 1..j
      BY <3>5
    <3>10. Run(t[k], b)
      BY <1>3, <3>2, <3>5, <3>9 DEF Chain
    <3>11. t[k].to = Global
      BY <2>2, <3>8, <3>10 DEF Run, Moves, Transfer
    <3>12. place[a.c] \in {Global, Nowhere}
      BY <1>3, <1>5, <3>7, <3>8, <3>11 DEF Promise
    <3>13. QED
      BY <3>1, <3>12, PlacesAssumption
  <2>3. QED
    BY <2>1, <2>2 DEF Ending
<1>7. Still /\ Abort
  BY DEF TransitLocked, Refuse, Still, critters
<1>8. Calm
  BY <1>1, CalmTop
<1>9. QED
  BY <1>1, <1>2, <1>4, <1>6, <1>7, <1>8, AbortSound

-----------------------------------------------------------------------------
(* Any number of looks on top of a call that does not wait for a callback. *)
LEMMA LooksChain ==
    ASSUME NEW s \in Seq(Frames), \A k \in 1..Len(s) : s[k].pc = "look",
           NEW t \in Seq(Frames), Chain(t), t # <<>> => t[1].pc \notin TopOnly \cup Waits \cup Base
    PROVE  /\ Chain(s \o t) /\ All(s \o t) = All(s) \cup All(t)
           /\ s \o t = <<>> \/ (s \o t)[1].pc = "look" \/ (t # <<>> /\ (s \o t)[1] = t[1])
<1> DEFINE r == s \o t
<1>1. Len(s) \in Nat /\ Len(t) \in Nat /\ (t # <<>> => Len(t) # 0)
  BY LenProperties, EmptySeq
<1>2. /\ r \in Seq(Frames) /\ Len(r) = Len(s) + Len(t)
      /\ \A k \in 1..(Len(s) + Len(t)) : r[k] = IF k <= Len(s) THEN s[k] ELSE t[k - Len(s)]
  BY ConcatProperties
<1> HIDE DEF r
<1>3. ASSUME NEW k \in 1..Len(r)
      PROVE  \/ k <= Len(s) /\ k \in 1..Len(s) /\ r[k] = s[k] /\ r[k].pc = "look"
             \/ k > Len(s) /\ k - Len(s) \in 1..Len(t) /\ r[k] = t[k - Len(s)]
  BY <1>1, <1>2
<1>4. ASSUME NEW k \in 1..Len(s) PROVE k \in 1..Len(r) /\ r[k] = s[k]
  BY <1>1, <1>2
<1>5. ASSUME NEW k \in 1..Len(t) PROVE k + Len(s) \in 1..Len(r) /\ r[k + Len(s)] = t[k]
  <2>1. PICK i \in 1..(Len(s) + Len(t)) : i = k + Len(s) /\ ~(i <= Len(s)) /\ i - Len(s) = k
    BY <1>1
  <2>2. QED
    BY <1>2, <2>1
<1>6. All(r) = All(s) \cup All(t)
  <2>1. \A k \in 1..Len(r) : r[k] \in All(s) \cup All(t)
    BY <1>3 DEF All
  <2>2. \A k \in 1..Len(s) : s[k] \in All(r)
    BY <1>4 DEF All
  <2>3. \A k \in 1..Len(t) : t[k] \in All(r)
    BY <1>5 DEF All
  <2>4. QED
    BY <2>1, <2>2, <2>3 DEF All
<1>7. r # <<>> => r[Len(r)].pc \notin Leaving
  <2> SUFFICES ASSUME r # <<>> PROVE r[Len(r)].pc \notin Leaving
    OBVIOUS
  <2>1. Len(r) \in 1..Len(r)
    BY <1>1, <1>2, EmptySeq
  <2>2. CASE r[Len(r)].pc = "look"
    BY <2>2 DEF Leaving
  <2>3. CASE r[Len(r)].pc # "look"
    <3>1. Len(t) # 0 /\ Len(r) - Len(s) = Len(t) /\ r[Len(r)] = t[Len(r) - Len(s)]
      BY <1>1, <1>2, <1>3, <2>1, <2>3
    <3>2. t # <<>>
      BY <3>1
    <3>3. QED
      BY <3>1, <3>2 DEF Chain
  <2>4. QED
    BY <2>2, <2>3
<1>8. \A b : b.pc \notin TopOnly \cup Waits \cup Base => \A a : a.pc = "look" => Near(a, b)
  BY DEF Near, Leaving, Ending
<1>9. ASSUME NEW k \in 1..(Len(r) - 1) PROVE Near(r[k], r[k + 1])
  <2>1. k \in 1..Len(r) /\ k + 1 \in 1..Len(r)
    BY <1>1, <1>2
  <2>2. CASE k + 1 <= Len(s)
    <3>1. r[k].pc = "look" /\ r[k + 1].pc = "look"
      BY <1>1, <1>3, <2>1, <2>2
    <3>2. QED
      BY <1>8, <3>1 DEF TopOnly, Waits, Base
  <2>3. CASE k = Len(s)
    <3>1. r[k].pc = "look"
      BY <1>1, <1>3, <2>1, <2>3
    <3>2. r[k + 1] = t[(k + 1) - Len(s)] /\ (k + 1) - Len(s) = 1 /\ Len(t) # 0
      BY <1>1, <1>2, <1>3, <2>1, <2>3
    <3>3. t # <<>>
      BY <3>2
    <3>4. QED
      BY <1>8, <3>1, <3>2, <3>3
  <2>4. CASE k > Len(s)
    <3>1. /\ r[k] = t[k - Len(s)] /\ r[k + 1] = t[(k + 1) - Len(s)]
          /\ (k + 1) - Len(s) = (k - Len(s)) + 1 /\ k - Len(s) \in 1..(Len(t) - 1)
      BY <1>1, <1>2, <2>1, <2>4
    <3>2. QED
      BY <3>1 DEF Chain
  <2>5. QED
    BY <1>1, <2>1, <2>2, <2>3, <2>4
<1>10. \A a, b : a.pc = "look" => Order(a, b) /\ Run(a, b)
  BY DEF Order, Run, Moves, Transfer, Ending
<1>11. ASSUME NEW j \in 1..Len(r), NEW k \in 1..Len(r), j < k
       PROVE  /\ Order(r[j], r[k])
              /\ (\A i \in j..k : r[i].pc # "script") => Run(r[j], r[k])
  <2>1. CASE r[j].pc = "look"
    BY <1>10, <2>1
  <2>2. CASE r[j].pc # "look"
    <3>1. j > Len(s) /\ j - Len(s) \in 1..Len(t) /\ r[j] = t[j - Len(s)]
      BY <1>3, <2>2
    <3>2. k > Len(s)
      BY <1>1, <1>11, <3>1
    <3>3. k - Len(s) \in 1..Len(t) /\ r[k] = t[k - Len(s)] /\ j - Len(s) < k - Len(s)
      BY <1>1, <1>3, <1>11, <3>1, <3>2
    <3>4. ASSUME \A i \in j..k : r[i].pc # "script", NEW i \in (j - Len(s))..(k - Len(s))
          PROVE  t[i].pc # "script"
      <4>1. i + Len(s) \in j..k /\ i \in 1..Len(t)
        BY <1>1, <3>1, <3>3
      <4>2. QED
        BY <1>5, <3>4, <4>1
    <3>5. QED
      BY <3>1, <3>3, <3>4 DEF Chain
  <2>3. QED
    BY <2>1, <2>2
<1>12. Chain(r)
  BY <1>7, <1>9, <1>11 DEF Chain
<1>13. r = <<>> \/ r[1].pc = "look" \/ (t # <<>> /\ r[1] = t[1])
  <2>1. CASE Len(r) = 0
    BY <1>2, <2>1, EmptySeq
  <2>2. CASE Len(r) # 0
    <3>1. 1 \in 1..Len(r)
      BY <1>1, <1>2, <2>2
    <3>2. CASE Len(s) # 0
      BY <1>1, <1>3, <3>1, <3>2
    <3>3. CASE Len(s) = 0
      <4>1. r[1] = t[1 - Len(s)] /\ 1 - Len(s) = 1 /\ Len(t) # 0
        BY <1>1, <1>2, <1>3, <3>1, <3>3
      <4>2. t # <<>>
        BY <4>1
      <4>3. QED
        BY <4>1, <4>2
    <3>4. QED
      BY <3>2, <3>3
  <2>3. QED
    BY <2>1, <2>2
<1>14. QED
  BY <1>6, <1>12, <1>13 DEF r

LEMMA MoveSound ==
    ASSUME IInv, Sound, MoveAttachedCritters
    PROVE  Sound'
<1>1. /\ Top.pc = "move"
      /\ Top.pc \notin Base \cup Leaving \cup Ending \cup {"tear", "clear", "script", "jobs"}
  BY DEF MoveAttachedCritters, At, Base, Leaving, Ending
<1>2. PICK t : t = Tail(stack)
  OBVIOUS
<1>3. /\ t \in Seq(Frames) /\ Top \in Frames /\ FrameOK(Top) /\ Top.c \in Critters
      /\ stack = Push(Top, t) /\ stack # <<>> /\ Chain(t) /\ (t # <<>> => Near(Top, t[1]))
      /\ \A f \in All(t) : Promise(f)
  BY <1>1, <1>2, Setting DEF FrameOK
<1>4. Calm
  BY <1>1, CalmTop
<1> DEFINE m == place[Top.c]
           looks == {[Frame("look", a) EXCEPT !.from = m] : a \in AttachedCritters(Top.c)}
<1>5. ASSUME m \in Maps, NEW a \in AttachedCritters(Top.c) PROVE Exists(a) /\ MapId(a) = m
  <2>1. a \in Critters /\ master[a] = Top.c /\ Top.c # Nowhere
    BY <1>3, PlacesAssumption DEF AttachedCritters
  <2>2. QED
    BY <1>4, <1>5, <2>1 DEF Calm, Attached, MapId
<1>6. GoTo(<<>>) \/ (m \in Maps /\ GoTo(SetToSeq(looks)))
  BY <1>5 DEF MoveAttachedCritters
<1>7. Still
  BY <1>6 DEF MoveAttachedCritters, Still, critters, GoTo
<1>8. CASE GoTo(<<>>)
  BY <1>1, <1>7, <1>8, StillPop
<1>9. CASE m \in Maps /\ GoTo(SetToSeq(looks))
  <2>1. AttachedCritters(Top.c) \in SUBSET Critters
    BY DEF AttachedCritters
  <2>2. IsFiniteSet(AttachedCritters(Top.c))
    BY <2>1, CrittersAssumption, FS_Subset
  <2>3. IsFiniteSet(looks)
    <3> DEFINE A == AttachedCritters(Top.c)
               f == [a \in A |-> [Frame("look", a) EXCEPT !.from = m]]
    <3>1. f \in Surjection(A, looks)
      BY DEF Surjection
    <3> HIDE DEF f, A, looks
    <3>2. IsFiniteSet(A)
      BY <2>2 DEF A
    <3>3. QED
      BY <3>1, <3>2, FS_Surjection
  <2>4. ASSUME NEW f \in looks PROVE f \in Frames /\ f.pc = "look"
    <3>1. PICK a \in Critters : f = [Frame("look", a) EXCEPT !.from = m]
      BY <2>1
    <3>2. Frame("look", a) \in Frames /\ Frame("look", a).pc = "look"
      BY FrameLemma
    <3>3. m \in Places
      BY <1>9 DEF Places
    <3>4. QED
      BY <3>1, <3>2, <3>3 DEF Frames
  <2> HIDE DEF looks, m
  <2>5. PICK s : s = SetToSeq(looks)
    OBVIOUS
  <2>6. s \in Seq(looks)
    BY <2>3, <2>5, SetToSeqLemma
  <2>7. s \in Seq(Frames) /\ Len(s) \in Nat /\ \A k \in 1..Len(s) : s[k] \in looks
    BY <2>4, <2>6, SeqMonotonic, LenProperties
  <2>8. \A f \in All(s) : f.pc = "look"
    BY <2>4, <2>7 DEF All
  <2>9. \A f \in All(s) : Promise(f)
    BY <2>8 DEF Promise, Moves, Transfer, Ending
  <2>10. t # <<>> => t[1].pc \notin TopOnly \cup Waits \cup Base
    BY <1>1, <1>3 DEF Near
  <2>11. \A k \in 1..Len(s) : s[k].pc = "look"
    BY <2>4, <2>7
  <2>12. PICK r : r = s \o t
    OBVIOUS
  <2>13. /\ Chain(r) /\ All(r) = All(s) \cup All(t)
         /\ r = <<>> \/ r[1].pc = "look" \/ (t # <<>> /\ r[1] = t[1])
    BY <1>3, <2>7, <2>10, <2>11, <2>12, LooksChain
  <2>14. Covers(t)
    BY <1>1, <1>3, CoverPop DEF Sound
  <2>15. Covers(r)
    BY <2>13, <2>14 DEF Covers
  <2>16. r = <<>> \/ r[1].pc \notin Base \cup {"tear", "transit"}
    BY <2>10, <2>13 DEF Base, TopOnly
  <2>17. stack' = r
    BY <1>2, <1>9, <2>5, <2>12 DEF GoTo
  <2>18. \A f \in All(r) : Promise(f)
    BY <1>3, <2>9, <2>13
  <2>19. QED
    BY <1>4, <1>7, <2>13, <2>15, <2>16, <2>17, <2>18, StillStep
<1>10. QED
  BY <1>6, <1>8, <1>9

-----------------------------------------------------------------------------
(* The end of a critter.                                                   *)
LEMMA SoundStep ==
    ASSUME Sound, UNCHANGED failed, Cleared', NEW s, stack' = s, Chain(s),
           \A f \in All(s) : Promise(f)', Covers(s)', AtTop(s)'
    PROVE  Sound'
<1>1. Chain(stack') /\ (\A f \in All(stack') : Promise(f)')
  OBVIOUS
<1>2. Covers(stack)'
  BY DEF Covers
<1>3. AtTop(stack)'
  BY DEF AtTop
<1>4. QED
  BY <1>1, <1>2, <1>3 DEF Sound

(* What is right below the innermost call, or below a callback.            *)
LEMMA BelowTop ==
    ASSUME IInv, Sound, ~Touches, Top.pc \notin {"script", "jobs"}, NEW b \in All(Tail(stack))
    PROVE  \/ Untouched(b)
           \/ /\ b \in Loose(Tail(stack)) /\ b.pc \notin Waits \cup TopOnly \cup {"script"}
              /\ b.pc \in Base => Tail(stack) # <<>> /\ b = Tail(stack)[1]
                                  /\ Top.pc \in Leaving /\ Top.c = b.c
              /\ b.pc = "clear" /\ Top.pc \in Ending \cup {"destroy"} => Top.c \notin b.all
              /\ Run(Top, b)
           \/ b = Top
<1>1. PICK t, a : t = Tail(stack) /\ a = Top
  OBVIOUS
<1>2. /\ t \in Seq(Frames) /\ a \in Frames /\ a.pc # "script" /\ stack = Push(a, t)
      /\ Chain(Push(a, t)) /\ \A f \in Loose(t) : Run(a, f)
  BY <1>1, Setting DEF Sound
<1>3. All(Push(a, t)) = {a} \cup All(t) /\ Loose(Push(a, t)) = {a} \cup Loose(t)
  BY <1>2, AllPush, LoosePush
<1>4. All(stack) = {a} \cup All(t) /\ Loose(stack) = {a} \cup Loose(t)
  BY <1>2, <1>3
<1>5. CASE b \in Loose(t)
  BY <1>1, <1>2, <1>5, LooseLemma
<1>6. CASE b \notin Loose(t) /\ b # a
  BY <1>1, <1>4, <1>6, HeldLemma
<1>7. QED
  BY <1>1, <1>5, <1>6

LEMMA BeginDestroySound ==
    ASSUME IInv, Sound, ~Touches, BeginDestroy
    PROVE  Sound'
<1>1. /\ Top.pc = "destroy"
      /\ Top.pc \notin Base \cup Leaving \cup Ending \cup {"tear", "clear", "script", "jobs"}
  BY DEF BeginDestroy, At, Base, Leaving, Ending
<1>2. PICK t, a : t = Tail(stack) /\ a = Top
  OBVIOUS
<1>3. /\ t \in Seq(Frames) /\ a \in Frames /\ FrameOK(a) /\ a.c \in Critters
      /\ stack = Push(a, t) /\ Chain(Push(a, t))
      /\ \A f \in All(t) : Promise(f)
  BY <1>1, <1>2, Setting DEF FrameOK, Sound
<1>4. Calm
  BY <1>1, CalmTop
<1>5. CASE life[a.c] # "live"
  <2>1. GoTo(<<>>) /\ Still
    BY <1>2, <1>5 DEF BeginDestroy, Still, GoTo
  <2>2. QED
    BY <1>1, <2>1, StillPop
<1>6. CASE life[a.c] = "live"
  <2>1. PICK f \in Frames : f = Then("finish") /\ f.pc = "finish" /\ f.c = a.c
    BY <1>2, <1>3, ThenFrame DEF Pcs
  <2>2. GoTo(<<Script, f>>) /\ life' = [life EXCEPT ![a.c] = "destroying"]
    BY <1>2, <1>6, <2>1 DEF BeginDestroy
  <2>3. stack' = Push(Script, Push(f, t)) /\ UNCHANGED <<failed, place, on, master, carries, world>>
    BY <1>1, <1>2, <2>1, <2>2, GoToForms, ScriptPromise DEF BeginDestroy
  <2>4. \A c \in Critters : Exists(c)' <=> Exists(c)
    BY <1>6, <2>2 DEF Exists, IInv, PlaceInv
  <2>5. /\ life'[a.c] = "destroying"
        /\ \A c \in Critters : c # a.c => life'[c] = life[c]
    BY <1>3, <2>2 DEF IInv, PlaceInv
  <2>6. ASSUME NEW b \in All(t), b.pc \in Ending \cup {"arrive"} PROVE b.c # a.c
    <3>1. CASE b.pc \in Ending
      BY <1>3, <1>6, <2>6, <3>1 DEF Promise
    <3>2. CASE b.pc = "arrive"
      <4>1. b \notin Loose(t) \/ b.pc \notin Base
        BY <1>1, <1>2, <1>3, LooseLemma
      <4>2. Untouched(b)
        BY <1>1, <1>2, <3>2, <4>1, BelowTop DEF Base
      <4>3. life'[b.c] = life[b.c]
        BY <3>2, <4>2 DEF Untouched
      <4>4. QED
        BY <1>6, <2>5, <4>3
    <3>3. QED
      BY <2>6, <3>1, <3>2
  <2>7. Fits(f, a) /\ f.pc \notin Transfer
    BY <1>1, <1>2, <2>1 DEF Fits, Leaving, Ending, Moves, Transfer
  <2>8. Chain(Push(f, t))
    BY <1>1, <1>2, <1>3, <2>1, <2>6, <2>7, FitLemma
  <2>9. PICK u : u = Push(f, t)
    OBVIOUS
  <2>10. /\ u \in Seq(Frames) /\ u # <<>> /\ u[1] = f /\ Chain(u) /\ All(u) = {f} \cup All(t)
    BY <1>3, <2>1, <2>8, <2>9, PushLemma, AllPush
  <2>11. PICK s : s = Push(Script, u)
    OBVIOUS
  <2>12. Near(Script, f) /\ Script.pc \in Plain /\ Script \in Frames
    BY <2>1, ScriptPromise DEF Near, Plain, TopOnly, Waits, Base, Leaving, Ending
  <2>13. /\ Chain(s) /\ All(s) = {Script} \cup All(u) /\ s # <<>> /\ s[1] = Script
    BY <2>10, <2>11, <2>12, PlainLemma, PushLemma, AllPush
  <2>14. ASSUME NEW b \in All(s) PROVE Promise(b)'
    <3>1. CASE b \in {Script, f}
      BY <2>1, <2>5, <3>1, ScriptPromise DEF Promise, Moves, Transfer, Ending
    <3>2. CASE b \in All(t)
      <4>1. Promise(b) /\ FrameOK(b)
        BY <1>1, <1>2, <3>2, Setting
      <4>2. b.pc \in Ending => b.c \in Critters
        BY <4>1 DEF FrameOK, Ending
      <4>3. QED
        BY <2>3, <2>4, <2>5, <4>1, <4>2
           DEF Promise, FrameOK, Moves, Transfer, Ending, IsTorn, AttachedCritters, Bonds
    <3>3. QED
      BY <2>10, <2>13, <3>1, <3>2
  <2>15. Covers(s)'
    <3>1. All(stack) = {a} \cup All(t)
      BY <1>3, AllPush
    <3>2. \A c \in Critters : c # a.c /\ life[c] = "destroying" => \E b \in All(s) : b.pc \in Ending /\ b.c = c
      BY <1>1, <1>2, <2>10, <2>13, <3>1 DEF Sound, Covers
    <3>3. world = "destroying" => \E b \in All(s) : b.pc = "clear"
      BY <1>1, <1>2, <2>10, <2>13, <3>1 DEF Sound, Covers
    <3>4. f \in All(s) /\ f.pc \in Ending /\ f.c = a.c
      BY <2>1, <2>10, <2>13 DEF Ending
    <3>5. QED
      BY <2>3, <2>5, <3>2, <3>3, <3>4 DEF Covers
  <2>16. Calm'
    BY <1>4, <2>3, <2>4, PlacesAssumption DEF Calm, Attached, MapId, IInv, SortInv
  <2>17. AtTop(s)'
    BY <2>13, <2>16, ScriptPromise DEF AtTop, Base
  <2>18. Cleared'
    BY <2>3 DEF Cleared, Sound
  <2>19. stack' = s
    BY <2>3, <2>9, <2>11
  <2>20. QED
    BY <2>3, <2>13, <2>14, <2>15, <2>17, <2>18, <2>19, SoundStep
<1>7. QED
  BY <1>5, <1>6

-----------------------------------------------------------------------------
(* DetachFromCritter for a critter and those attached to it.               *)
LEMMA AloneFacts ==
    ASSUME IInv, NEW c \in Critters, master' = Alone(c)
    PROVE  /\ Bonds(master', c) = {} /\ master'[c] = Nowhere /\ AttachedCritters(c)' = {}
           /\ \A d : Bonds(master, d) = {} => Bonds(master', d) = {}
           /\ \A d \in Critters : master[d] = Nowhere => master'[d] = Nowhere
           /\ \A d \in Critters : AttachedCritters(d) = {} => AttachedCritters(d)' = {}
           /\ \A d \in Critters : master'[d] # Nowhere =>
                master'[d] = master[d] /\ d # c /\ master[d] # c
<1>1. \A d \in Critters : master'[d] = IF d = c \/ master[d] = c THEN Nowhere ELSE master[d]
  BY DEF Alone
<1>2. \A d \in Critters : d # Nowhere
  BY PlacesAssumption
<1>3. Bonds(master', c) = {}
  BY <1>1 DEF Bonds
<1>4. ASSUME NEW d, Bonds(master, d) = {} PROVE Bonds(master', d) = {}
  BY <1>1, <1>4 DEF Bonds
<1>5. ASSUME NEW d \in Critters PROVE AttachedCritters(d)' \subseteq AttachedCritters(d)
  BY <1>1, <1>2 DEF AttachedCritters
<1>6. AttachedCritters(c)' = {}
  BY <1>1, <1>2 DEF AttachedCritters
<1>7. QED
  BY <1>1, <1>3, <1>4, <1>5, <1>6

LEMMA AlonePromise ==
    ASSUME IInv, NEW c \in Critters, master' = Alone(c), UNCHANGED <<life, place, on, carries, world>>,
           NEW f, FrameOK(f), Promise(f)
    PROVE  Promise(f)'
<1>1. f.pc = "arrive" => Bonds(master', f.c) = {}
  BY AloneFacts DEF Promise
<1>2. f.pc = "tear" => IsTorn(f.c)'
  <2> SUFFICES ASSUME f.pc = "tear" PROVE IsTorn(f.c)'
    OBVIOUS
  <2>1. PICK d \in Critters : d = f.c
    BY DEF FrameOK
  <2>2. IsTorn(d)
    BY <2>1 DEF Promise
  <2>3. IsTorn(d)'
    BY <2>2, AloneFacts DEF IsTorn
  <2>4. QED
    BY <2>1, <2>3
<1>3. QED
  BY <1>1, <1>2 DEF Promise, Exists

LEMMA AloneCalm ==
    ASSUME IInv, NEW c \in Critters, master' = Alone(c), UNCHANGED <<life, place>>, Calm
    PROVE  Calm'
<1>1. ASSUME NEW d \in Critters, master'[d] # Nowhere
      PROVE  Exists(d) /\ Exists(master'[d]) /\ MapId(d) = MapId(master'[d]) /\ master'[master'[d]] = Nowhere
  <2>1. master'[d] = master[d] /\ master[d] \in Critters
    BY <1>1, AloneFacts DEF IInv, SortInv
  <2>2. Exists(d) /\ Exists(master[d]) /\ MapId(d) = MapId(master[d]) /\ master[master[d]] = Nowhere
    BY <1>1, <2>1 DEF Calm, Attached
  <2>3. QED
    BY <2>1, <2>2, AloneFacts
<1>2. QED
  BY <1>1 DEF Calm, Attached, Exists, MapId

LEMMA TransitSound ==
    ASSUME IInv, Sound, Transit
    PROVE  Sound'
<1>1. /\ Top.pc = "transit"
      /\ Top.pc \notin Base \cup Leaving \cup Ending \cup {"tear", "clear", "script", "jobs"}
  BY DEF Transit, At, Base, Leaving, Ending
<1>2. PICK t, a, c : t = Tail(stack) /\ a = Top /\ c = Top.c
  OBVIOUS
<1>3. /\ t \in Seq(Frames) /\ a \in Frames /\ FrameOK(a) /\ c \in Critters /\ a.c = c
      /\ stack = Push(a, t) /\ Chain(Push(a, t)) /\ stack # <<>> /\ stack[1] = a
      /\ Promise(a) /\ \A f \in All(t) : Promise(f) /\ FrameOK(f)
  BY <1>1, <1>2, Setting DEF FrameOK, Sound
<1>4. Calm /\ Exists(c) /\ Registered(c) /\ place[c] # Nowhere
  BY <1>1, <1>2, <1>3, CalmTop DEF Sound, Cleared, Registered, Promise
<1> DEFINE moved(pc) == [Top EXCEPT !.pc = pc, !.from = MapId(c),
                                    !.left = AttachedCritters(c), !.all = AttachedCritters(c)]
<1>5. ASSUME NEW pc \in {"arrive", "train"}
      PROVE  /\ moved(pc) \in Frames /\ moved(pc).pc = pc /\ moved(pc).c = c
             /\ moved(pc).from = MapId(c) /\ moved(pc).to = a.to
  <2>1. pc \in Pcs
    BY DEF Pcs
  <2>2. /\ MapId(c) \in Places /\ AttachedCritters(c) \in SUBSET Things
    BY <1>3 DEF MapId, AttachedCritters, Places, Things, IInv, PlaceInv
  <2>3. QED
    BY <1>2, <1>3, <2>1, <2>2 DEF Frames
<1>6. PICK p \in {"arrive", "train"}, q \in {"leave", "look"}, f \in Frames, g \in Frames :
         /\ f = moved(p) /\ g = Frame(q, c)
         /\ master' = Alone(c)
         /\ \/ GoTo(<<g, f>>) /\ (p = "arrive" <=> q = "leave")
            \/ GoTo(<<f>>) /\ p = "train"
         /\ p = "train" => a.to = place[c]
  <2>1. PICK f1 \in Frames, f2 \in Frames, g1 \in Frames, g2 \in Frames :
           f1 = moved("arrive") /\ f2 = moved("train") /\ g1 = Frame("leave", c) /\ g2 = Frame("look", c)
    BY <1>3, <1>5, FrameLemma
  <2>2. /\ master' = Alone(c)
        /\ \/ GoTo(<<g1, f1>>)
           \/ Top.to = place[c] /\ (GoTo(<<g2>> \o <<f2>>) \/ GoTo(<<>> \o <<f2>>))
    BY <1>2, <1>4, <2>1 DEF Transit
  <2>3. \/ GoTo(<<g1, f1>>)
        \/ Top.to = place[c] /\ (GoTo(<<g2, f2>>) \/ GoTo(<<f2>>))
    BY <2>2, MaybeLemma
  <2>4. QED
    BY <1>2, <2>1, <2>2, <2>3
<1>7. /\ f.pc = p /\ f.c = c /\ f.from = MapId(c) /\ f.to = a.to
      /\ g.pc = q /\ g.c = c
  BY <1>3, <1>5, <1>6, FrameLemma
<1> HIDE DEF moved
<1>8. /\ UNCHANGED <<life, place, on, carries, world, failed>>
      /\ \/ stack' = Push(f, t) /\ f.pc = "train"
         \/ stack' = Push(g, Push(f, t)) /\ (f.pc = "arrive" <=> g.pc = "leave")
  BY <1>1, <1>2, <1>6, <1>7, GoToForms DEF Transit, GoTo
<1>9. \A b \in All(t) : b.pc \in Moving => b.c # c
  <2>1. c \notin Locks(t)
    BY <1>2 DEF Transit
  <2>2. QED
    BY <1>3, <2>1 DEF All, Locks
<1>10. \A b \in Loose(t) : b.pc = "clear" => f.from \in Maps
  <2>1. Loose(stack) = {a} \cup Loose(t)
    BY <1>1, <1>2, <1>3, LoosePush
  <2>2. (\E b \in Loose(t) : b.pc = "clear") => place[c] \in Maps
    BY <1>1, <1>2, <1>3, <2>1 DEF Sound, AtTop
  <2>3. QED
    BY <1>7, <2>2 DEF MapId
<1>11. Fits(f, a) /\ f.pc \notin Ending
  BY <1>1, <1>2, <1>3, <1>7 DEF Fits, Leaving, Ending, Moves, Transfer
<1>12. Chain(Push(f, t))
  BY <1>1, <1>2, <1>3, <1>7, <1>9, <1>10, <1>11, FitLemma
<1>13. Covers(Push(f, t))
  BY <1>1, <1>2, <1>3, CoverLemma DEF Sound
<1>14. PICK u : u = Push(f, t)
  OBVIOUS
<1>15. /\ u \in Seq(Frames) /\ u # <<>> /\ u[1] = f /\ All(u) = {f} \cup All(t) /\ Chain(u) /\ Covers(u)
  BY <1>3, <1>12, <1>13, <1>14, PushLemma, AllPush
<1>16. PICK s : /\ stack' = s
                /\ s = u \/ s = Push(g, u)
                /\ f.pc = "arrive" => s = Push(g, u) /\ g.pc = "leave"
                /\ s = Push(g, u) => (f.pc = "arrive" <=> g.pc = "leave")
  <2>1. CASE stack' = Push(f, t) /\ f.pc = "train" /\ u # Push(g, u)
    BY <1>14, <2>1
  <2>2. CASE stack' = Push(g, Push(f, t)) /\ (f.pc = "arrive" <=> g.pc = "leave")
    BY <1>14, <2>2
  <2>3. u # Push(g, u)
    BY <1>15, PushLemma
  <2>4. QED
    BY <1>8, <2>1, <2>2, <2>3
<1>17. s = Push(g, u) => Chain(s)
  <2>1. ASSUME s = Push(g, u) PROVE Near(g, f) /\ g.pc \in Plain
    BY <1>6, <1>7, <1>16, <2>1 DEF Near, Plain, TopOnly, Waits, Base, Leaving, Ending
  <2>2. QED
    BY <1>15, <2>1, PlainLemma
<1>18. /\ Chain(s) /\ Covers(s) /\ s # <<>> /\ s[1] \in {f, g} /\ (f.pc = "arrive" => s[1] = g)
       /\ All(s) \subseteq {f, g} \cup All(t)
  <2>1. /\ Push(g, u) # <<>> /\ Push(g, u)[1] = g /\ All(Push(g, u)) = {g} \cup All(u)
        /\ Covers(Push(g, u))
    BY <1>15, PushLemma, AllPush, CoverPush
  <2>2. CASE s = Push(g, u)
    BY <1>15, <1>17, <2>1, <2>2
  <2>3. CASE s # Push(g, u)
    BY <1>15, <1>16, <2>3
  <2>4. QED
    BY <2>2, <2>3
<1>19. Promise(f)'
  <2>1. f.pc = "arrive" => Exists(c)' /\ Bonds(master', c) = {}
    BY <1>3, <1>4, <1>6, <1>8, AloneFacts DEF Exists
  <2>2. f.pc = "train" => place[c] = f.to
    BY <1>6, <1>7
  <2>3. f.to \in Maps => world # "destroyed"
    BY <1>1, <1>2, <1>3, <1>7 DEF Promise, Moves
  <2>4. QED
    BY <1>6, <1>7, <1>8, <2>1, <2>2, <2>3 DEF Promise, Transfer, Ending
<1>20. Promise(g)'
  BY <1>4, <1>6, <1>7, <1>8 DEF Promise, Moves, Transfer, Ending
<1>21. \A b \in All(t) : Promise(b)'
  BY <1>3, <1>6, <1>8, AlonePromise
<1>22. Calm'
  BY <1>3, <1>4, <1>6, <1>8, AloneCalm
<1>23. AtTop(s)'
  <2>1. s[1].pc \notin Base \cup {"tear", "transit"}
    BY <1>6, <1>7, <1>18 DEF Base
  <2>2. QED
    BY <1>18, <1>22, <2>1 DEF AtTop
<1>24. Covers(s)' /\ Cleared'
  BY <1>8, <1>18 DEF Covers, Cleared, Sound
<1>25. \A b \in All(s) : Promise(b)'
  BY <1>18, <1>19, <1>20, <1>21
<1>26. QED
  BY <1>8, <1>16, <1>18, <1>23, <1>24, <1>25, SoundStep

LEMMA TwoChain ==
    ASSUME NEW f \in Frames, NEW g \in Frames, NEW t \in Seq(Frames), Chain(Push(f, t)),
           Near(g, f), g.pc \in Plain
    PROVE  /\ Chain(Push(g, Push(f, t))) /\ All(Push(g, Push(f, t))) = {f, g} \cup All(t)
           /\ Push(g, Push(f, t)) # <<>> /\ Push(g, Push(f, t))[1] = g
           /\ Covers(Push(f, t)) => Covers(Push(g, Push(f, t)))
<1>1. PICK u : u = Push(f, t)
  OBVIOUS
<1>2. u \in Seq(Frames) /\ u # <<>> /\ u[1] = f /\ All(u) = {f} \cup All(t) /\ Chain(u)
  BY <1>1, PushLemma, AllPush
<1>3. /\ Chain(Push(g, u)) /\ All(Push(g, u)) = {g} \cup All(u)
      /\ Push(g, u) # <<>> /\ Push(g, u)[1] = g
      /\ Covers(u) => Covers(Push(g, u))
  BY <1>2, PlainLemma, PushLemma, AllPush, CoverPush
<1>4. QED
  BY <1>1, <1>2, <1>3

(* The critter is where it goes to: what is below relies on other critters *)
(* only, and a map that is cleared is entered by nobody.                   *)
LEMMA ArriveSound ==
    ASSUME IInv, Sound, ~Touches, Arrive
    PROVE  Sound'
<1>1. /\ Top.pc = "arrive" /\ Top.pc \in Base \cap Transfer
      /\ Top.pc \notin Leaving \cup Ending \cup {"tear", "clear", "script", "jobs"}
  BY DEF Arrive, At, Base, Leaving, Ending, Transfer
<1>2. PICK t, a, c : t = Tail(stack) /\ a = Top /\ c = Top.c
  OBVIOUS
<1>3. /\ t \in Seq(Frames) /\ a \in Frames /\ c \in Critters /\ a.c = c
      /\ a.to \in Maps \cup {Global}
      /\ stack = Push(a, t) /\ Chain(Push(a, t)) /\ stack # <<>> /\ stack[1] = a
      /\ Promise(a) /\ \A f \in All(t) : Promise(f) /\ FrameOK(f) /\ Order(a, f)
  BY <1>1, <1>2, Setting DEF FrameOK, Sound
<1>4. Halfway(a)
  BY <1>1, <1>2, <1>3 DEF Sound, AtTop
<1>5. PICK f \in Frames : /\ f = Then("arrived") /\ f.pc = "arrived" /\ f.c = c /\ f.to = a.to
                          /\ f.from = Top.from
  BY <1>2, <1>3, ThenFrame DEF Pcs
<1>6. /\ stack' = Push(Script, Push(f, t)) /\ UNCHANGED <<life, master, carries, world, failed>>
      /\ place' = [place EXCEPT ![c] = a.to]
      /\ on' = [m \in Maps |-> IF m = a.to THEN on[m] \cup {c} ELSE on[m]]
  BY <1>1, <1>2, <1>5, GoToForms, ScriptPromise DEF Arrive, GoTo
<1>7. /\ place'[c] = a.to /\ \A d \in Critters : d # c => place'[d] = place[d]
      /\ \A m \in Maps : m # a.to => on'[m] = on[m]
      /\ a.to # Nowhere
  BY <1>3, <1>6, PlacesAssumption DEF IInv, PlaceInv
<1>8. Exists(c) /\ Bonds(master, c) = {} /\ (a.to \in Maps => world # "destroyed")
  BY <1>1, <1>2, <1>3 DEF Promise, Moves
<1>9. Fits(f, Top)
  BY <1>1, <1>2, <1>3, <1>5 DEF Fits, Leaving, Ending, Moves, Transfer
<1>10. Chain(Push(f, t))
  BY <1>1, <1>2, <1>5, <1>9, FitTop DEF Ending
<1>11. Covers(Push(f, t))
  BY <1>1, <1>2, <1>3, CoverLemma DEF Sound
<1>12. Near(Script, f) /\ Script.pc \in Plain /\ Script \in Frames
  BY <1>5, ScriptPromise DEF Near, Plain, TopOnly, Waits, Base, Leaving, Ending
<1>13. PICK s : s = Push(Script, Push(f, t))
  OBVIOUS
<1>14. Chain(s) /\ Covers(s) /\ s # <<>> /\ s[1] = Script /\ All(s) = {f, Script} \cup All(t)
  BY <1>3, <1>10, <1>11, <1>12, <1>13, TwoChain
<1>15. ASSUME NEW b \in All(t) PROVE Promise(b)'
  <2>1. Promise(b) /\ FrameOK(b) /\ (b.pc \in Moving => b.c # c)
    BY <1>1, <1>2, <1>3 DEF Order
  <2>2. b.pc \in {"left", "gone", "arrived", "train", "tear"} => place'[b.c] = place[b.c]
    BY <1>7, <2>1 DEF Moving, Transfer, FrameOK
  <2>3. b.pc \in {"leave", "transit"} => b.c \in Critters
    BY <2>1 DEF FrameOK
  <2>4. ASSUME b.pc \in {"leave", "transit"} PROVE place'[b.c] # Nowhere
    BY <1>7, <2>1, <2>3, <2>4 DEF Promise
  <2>5. ASSUME b.pc = "clear", NEW m \in Maps \ b.left PROVE on'[m] = {}
    <3>1. on[m] = {}
      BY <2>1, <2>5 DEF Promise
    <3>2. CASE m # a.to
      BY <1>7, <3>1, <3>2
    <3>3. CASE m = a.to
      <4>1. ~Run(a, b)
        BY <1>1, <1>2, <2>5, <3>3, PlacesAssumption DEF Run, Moves
      <4>2. Untouched(b)
        BY <1>1, <1>2, <2>5, <4>1, BelowTop
      <4>3. QED
        BY <2>5, <3>1, <4>2 DEF Untouched
    <3>4. QED
      BY <3>2, <3>3
  <2>6. QED
    BY <1>6, <2>1, <2>2, <2>4, <2>5 DEF Promise, Exists, IsTorn, AttachedCritters
<1>16. Promise(f)' /\ Promise(Script)'
  BY <1>5, <1>6, <1>7, <1>8, ScriptPromise DEF Promise, Moves, Transfer, Ending
<1>17. \A b \in All(s) : Promise(b)'
  BY <1>14, <1>15, <1>16
<1>18. Calm'
  <2>1. ASSUME NEW d \in Critters, Exists(d)' PROVE place'[d] # Nowhere
    BY <1>2, <1>3, <1>4, <1>6, <1>7, <2>1 DEF Halfway, Exists
  <2>2. ASSUME NEW d \in Critters, master[d] # Nowhere
        PROVE  /\ Exists(d) /\ Exists(master[d]) /\ master[master[d]] = Nowhere
               /\ MapId(d)' = MapId(master[d])'
    <3>1. d # c /\ master[d] # c /\ master[d] \in Critters
      BY <1>8, <2>2 DEF Bonds, IInv, SortInv
    <3>2. Fine(d)
      BY <1>1, <1>2, <1>4, <2>2 DEF Halfway
    <3>3. MapId(d) = MapId(master[d]) /\ place'[d] = place[d] /\ place'[master[d]] = place[master[d]]
      BY <1>7, <3>1, <3>2 DEF Fine
    <3>4. QED
      BY <1>6, <3>2, <3>3 DEF Fine, MapId
  <2>3. QED
    BY <1>6, <2>1, <2>2 DEF Calm, Attached, Exists
<1>19. AtTop(s)'
  BY <1>14, <1>18, ScriptPromise DEF AtTop, Base
<1>20. Covers(s)'
  BY <1>6, <1>14 DEF Covers
<1>21. Cleared'
  BY <1>3, <1>6, <1>7, <1>8 DEF Cleared, Sound
<1>22. QED
  BY <1>6, <1>13, <1>14, <1>17, <1>19, <1>20, <1>21, SoundStep

LEMMA BelowNotTop ==
    ASSUME NEW a \in Frames, NEW t \in Seq(Frames), Chain(Push(a, t)), NEW b \in All(t)
    PROVE  b.pc \notin TopOnly
<1> DEFINE r == Push(a, t)
<1>1. /\ Len(t) \in Nat /\ Len(r) = Len(t) + 1 /\ \A k \in 1..Len(t) : r[k + 1] = t[k]
      /\ r \in Seq(Frames)
  BY PushLemma
<1>2. Chain(r)
  OBVIOUS
<1> HIDE DEF r
<1>3. PICK k \in 1..Len(t) : b = t[k]
  BY DEF All
<1>4. r[k + 1] = b /\ k + 1 \in 2..Len(r)
  BY <1>1, <1>3
<1>5. QED
  BY <1>1, <1>2, <1>4, BelowLemma

(* Those who have followed are attached again: who is attached already or  *)
(* has somebody attached is left as it is.                                 *)
LEMMA RejoinSound ==
    ASSUME IInv, Sound, ~Touches, Rejoin
    PROVE  Sound'
<1>1. /\ Top.pc = "train"
      /\ Top.pc \notin Base \cup Leaving \cup Ending \cup {"tear", "clear", "script", "jobs"}
  BY DEF Rejoin, At, Base, Leaving, Ending
<1>2. PICK t, a, c : t = Tail(stack) /\ a = Top /\ c = Top.c
  OBVIOUS
<1>3. /\ t \in Seq(Frames) /\ a \in Frames /\ c \in Critters /\ a.c = c /\ c \notin a.all
      /\ stack = Push(a, t) /\ Chain(Push(a, t)) /\ stack # <<>> /\ stack[1] = a
      /\ \A f \in All(t) : Promise(f) /\ FrameOK(f)
  BY <1>1, <1>2, Setting DEF FrameOK, Sound
<1>4. Calm
  BY <1>1, CalmTop
<1>5. CASE GoTo(<<>>) /\ UNCHANGED master
  <2>1. Still
    BY <1>5 DEF Rejoin, Still, GoTo
  <2>2. QED
    BY <1>1, <1>5, <2>1, StillPop
<1>6. CASE ~(GoTo(<<>>) /\ UNCHANGED master)
  <2>1. PICK g \in Frames, f \in Frames : /\ g = Frame("move", c) /\ g.pc = "move" /\ Promise(g)
                                          /\ f = Frame("look", c) /\ f.pc = "look" /\ Promise(f)
    BY <1>3, LookPromise
  <2>2. /\ Exists(c) /\ master[c] = Nowhere /\ GoTo(<<g, f>>)
        /\ \A d \in Critters :
             \/ /\ master'[d] = c /\ d \in a.all /\ Exists(d) /\ master[d] = Nowhere
                /\ AttachedCritters(d) = {} /\ MapId(d) = MapId(c)
             \/ master'[d] = master[d]
    BY <1>2, <1>6, <2>1 DEF Rejoin
  <2>3. /\ stack' = Push(g, Push(f, t)) /\ UNCHANGED <<life, place, on, carries, world, failed>>
    BY <1>1, <1>2, <2>2, GoToForms DEF Rejoin, GoTo
  <2>4. Fits(f, a) /\ f.pc \notin Ending \cup Transfer
    BY <1>1, <1>2, <2>1 DEF Fits, Leaving, Ending, Moves, Transfer
  <2>5. Chain(Push(f, t))
    BY <1>1, <1>2, <1>3, <2>4, FitLemma
  <2>6. Covers(Push(f, t))
    BY <1>1, <1>2, <1>3, CoverLemma DEF Sound
  <2>7. Near(g, f) /\ g.pc \in Plain
    BY <2>1 DEF Near, Plain, TopOnly, Waits, Base, Leaving, Ending
  <2>8. PICK s : s = Push(g, Push(f, t))
    OBVIOUS
  <2>9. Chain(s) /\ Covers(s) /\ s # <<>> /\ s[1] = g /\ All(s) = {f, g} \cup All(t)
    BY <1>3, <2>5, <2>6, <2>7, <2>8, TwoChain
  <2>10. ASSUME NEW b \in All(t) PROVE Promise(b)'
    <3>1. Promise(b) /\ b.pc # "tear"
      BY <1>3, BelowNotTop DEF TopOnly
    <3>2. b.pc = "arrive" => Bonds(master', b.c) = Bonds(master, b.c)
      <4> SUFFICES ASSUME b.pc = "arrive" PROVE Bonds(master', b.c) = Bonds(master, b.c)
        OBVIOUS
      <4>1. Untouched(b)
        BY <1>1, <1>2, BelowTop DEF Base
      <4>2. QED
        BY <4>1 DEF Untouched
    <3>3. QED
      BY <2>3, <3>1, <3>2 DEF Promise, Exists
  <2>11. Promise(f)' /\ Promise(g)'
    BY <2>1 DEF Promise, Moves, Transfer, Ending
  <2>12. \A b \in All(s) : Promise(b)'
    BY <2>9, <2>10, <2>11
  <2>13. ASSUME NEW d \in Critters, master'[d] # Nowhere
         PROVE  /\ Exists(d) /\ Exists(master'[d]) /\ MapId(d) = MapId(master'[d])
                /\ master'[master'[d]] = Nowhere
    <3>1. master'[c] = Nowhere
      BY <1>3, <2>2
    <3>2. CASE master'[d] = c /\ Exists(d) /\ MapId(d) = MapId(c)
      BY <2>2, <3>1, <3>2
    <3>3. CASE master'[d] = master[d]
      <4>1. /\ Exists(d) /\ Exists(master[d]) /\ MapId(d) = MapId(master[d])
            /\ master[master[d]] = Nowhere /\ master[d] \in Critters
        BY <1>4, <2>13, <3>3 DEF Calm, Attached, IInv, SortInv
      <4>2. d \in AttachedCritters(master[d])
        BY DEF AttachedCritters
      <4>3. master'[master[d]] = Nowhere
        BY <2>2, <4>1, <4>2
      <4>4. QED
        BY <3>3, <4>1, <4>3
    <3>4. QED
      BY <2>2, <3>2, <3>3
  <2>14. Calm'
    BY <1>4, <2>3, <2>13 DEF Calm, Attached, Exists, MapId
  <2>15. AtTop(s)'
    BY <2>1, <2>9, <2>14 DEF AtTop, Base
  <2>16. Covers(s)' /\ Cleared'
    BY <2>3, <2>9 DEF Covers, Cleared, Sound
  <2>17. QED
    BY <2>3, <2>8, <2>9, <2>12, <2>15, <2>16, SoundStep
<1>7. QED
  BY <1>5, <1>6

(* A critter is removed from its place by one call at a time.              *)
LEMMA OneLeaves ==
    ASSUME NEW a \in Frames, NEW t \in Seq(Frames), Chain(Push(a, t)), a.pc \in Leaving
    PROVE  /\ t # <<>> /\ t[1] \in All(t) /\ t[1].pc \in Base /\ t[1].c = a.c
           /\ \A b \in All(t) : b.pc \in {"left", "gone"} => b.c # a.c
<1>1. Chain(t) /\ (t # <<>> => Near(a, t[1])) /\ t # <<>> /\ Len(t) \in Nat /\ Len(t) # 0
  BY PopChain, LenProperties, EmptySeq
<1>2. t[1].pc \in Base /\ t[1].c = a.c /\ t[1] \in All(t)
  BY <1>1 DEF Near, All
<1>3. ASSUME NEW b \in All(t), b.pc \in {"left", "gone"}, b.c = a.c PROVE FALSE
  <2>1. PICK k \in 1..Len(t) : b = t[k]
    BY DEF All
  <2>2. k # 1 /\ 1 \in 1..Len(t) /\ 1 < k
    BY <1>1, <1>2, <1>3, <2>1 DEF Base
  <2>3. k # Len(t)
    BY <1>1, <1>3, <2>1 DEF Chain, Leaving
  <2>4. k \in 1..(Len(t) - 1) /\ k + 1 \in 1..Len(t) /\ 1 < k + 1
    BY <1>1, <2>3
  <2>5. Near(t[k], t[k + 1]) /\ Order(t[1], t[k]) /\ Order(t[1], t[k + 1])
    BY <1>1, <2>2, <2>4 DEF Chain
  <2>6. t[k + 1].pc \in Base /\ t[k + 1].c = a.c
    BY <1>3, <2>1, <2>5 DEF Near, Leaving
  <2>7. CASE t[1].pc = "arrive"
    BY <1>2, <1>3, <2>1, <2>5, <2>7 DEF Order, Transfer, Moving
  <2>8. CASE t[1].pc \in {"detach", "unloaded"}
    BY <1>2, <2>5, <2>6, <2>8 DEF Order, Base, Ending
  <2>9. QED
    BY <1>2, <2>7, <2>8 DEF Base
<1>4. QED
  BY <1>1, <1>2, <1>3

(* The critter is nowhere: its call goes on with nobody else in between.   *)
LEMMA GoneSound ==
    ASSUME IInv, Sound, Gone
    PROVE  Sound'
<1>1. /\ Top.pc = "gone" /\ Top.pc \in Leaving
      /\ Top.pc \notin Base \cup Ending \cup {"tear", "clear", "script", "jobs"}
  BY DEF Gone, At, Base, Leaving, Ending
<1>2. PICK t, a, c : t = Tail(stack) /\ a = Top /\ c = Top.c
  OBVIOUS
<1>3. /\ t \in Seq(Frames) /\ a \in Frames /\ c \in Critters /\ a.c = c
      /\ stack = Push(a, t) /\ Chain(Push(a, t)) /\ stack # <<>> /\ stack[1] = a
      /\ Promise(a) /\ \A f \in All(t) : Promise(f) /\ FrameOK(f) /\ f \in Frames
  BY <1>1, <1>2, Setting DEF FrameOK, Sound
<1>4. Calm
  BY <1>1, CalmTop
<1>5. place[c] = a.from
  BY <1>1, <1>2, <1>3 DEF Promise
<1>6. /\ place' = [place EXCEPT ![c] = Nowhere] /\ GoTo(<<>>)
      /\ UNCHANGED <<life, master, carries, world>>
      /\ \A m \in Maps : on'[m] \subseteq on[m]
  BY <1>2, <1>5 DEF Gone
<1>7. stack' = t /\ UNCHANGED failed
  BY <1>2, <1>3, <1>6, ConcatEmptySeq DEF GoTo
<1>8. /\ place'[c] = Nowhere /\ \A d \in Critters : d # c => place'[d] = place[d]
  BY <1>3, <1>6 DEF IInv, PlaceInv
<1>9. PICK b1 \in Frames : /\ t # <<>> /\ b1 = t[1] /\ b1 \in All(t) /\ b1.pc \in Base /\ b1.c = c
                           /\ \A b \in All(t) : b.pc \in {"left", "gone"} => b.c # c
  <2>1. /\ t # <<>> /\ t[1] \in All(t) /\ t[1].pc \in Base /\ t[1].c = a.c
        /\ \A b \in All(t) : b.pc \in {"left", "gone"} => b.c # a.c
    BY <1>1, <1>2, <1>3, OneLeaves
  <2>2. QED
    BY <1>3, <2>1
<1>10. Chain(t) /\ Covers(t)
  BY <1>1, <1>2, <1>3, PopChain, CoverPop DEF Sound
<1>11. ASSUME NEW b \in All(t) PROVE Promise(b)'
  <2>1. Promise(b) /\ FrameOK(b) /\ b.pc \notin TopOnly
    BY <1>3, BelowNotTop
  <2>2. b.pc \in {"left", "gone"} => place'[b.c] = place[b.c]
    BY <1>8, <1>9, <2>1 DEF FrameOK
  <2>3. b.pc \in {"arrived", "train"} => place'[b.c] \in {b.to, Nowhere}
    BY <1>8, <2>1 DEF FrameOK, Promise
  <2>4. b.pc = "clear" => \A m \in Maps \ b.left : on'[m] = {}
    BY <1>6, <2>1 DEF Promise
  <2>5. QED
    BY <1>6, <2>1, <2>2, <2>3, <2>4 DEF Promise, Exists, TopOnly
<1>12. Halfway(b1)'
  <2>1. ASSUME NEW d \in Critters, Exists(d), place'[d] = Nowhere PROVE d = c
    BY <1>4, <1>8, <2>1 DEF Calm
  <2>2. ASSUME NEW d \in Critters, master[d] # Nowhere, c \notin {d, master[d]} PROVE Fine(d)'
    <3>1. /\ Exists(d) /\ Exists(master[d]) /\ MapId(d) = MapId(master[d])
          /\ master[master[d]] = Nowhere /\ master[d] \in Critters
      BY <1>4, <2>2 DEF Calm, Attached, IInv, SortInv
    <3>2. place'[d] = place[d] /\ place'[master[d]] = place[master[d]]
      BY <1>8, <2>2, <3>1
    <3>3. QED
      BY <1>6, <3>1, <3>2 DEF Fine, MapId, Exists
  <2>3. ASSUME NEW d \in Critters, master[d] # Nowhere, c \in {d, master[d]}
        PROVE  b1.pc \in {"detach", "unloaded"}
    <3>1. Bonds(master, c) # {}
      BY <2>3 DEF Bonds
    <3>2. b1.pc # "arrive"
      BY <1>3, <1>9, <3>1 DEF Promise
    <3>3. QED
      BY <1>9, <3>2 DEF Base
  <2>4. QED
    BY <1>6, <1>8, <1>9, <2>1, <2>2, <2>3 DEF Halfway, Exists
<1>13. AtTop(t)'
  BY <1>9, <1>12 DEF AtTop, Base
<1>14. Covers(t)'
  BY <1>6, <1>10 DEF Covers
<1>15. Cleared'
  BY <1>6, <1>8, PlacesAssumption DEF Cleared, Sound
<1>16. QED
  BY <1>7, <1>10, <1>11, <1>13, <1>14, <1>15, SoundStep

LEMMA InventorySound ==
    ASSUME IInv, Sound, DestroyInventory
    PROVE  Sound'
<1>1. /\ Top.pc = "round" /\ Top.pc \in Ending
      /\ Top.pc \notin Base \cup Leaving \cup {"tear", "clear", "script", "jobs"}
  BY DEF DestroyInventory, At, Base, Leaving, Ending
<1>2. PICK t, a : t = Tail(stack) /\ a = Top
  OBVIOUS
<1>3. /\ t \in Seq(Frames) /\ a \in Frames /\ a.c \in Critters
      /\ stack = Push(a, t) /\ Chain(Push(a, t)) /\ stack # <<>> /\ stack[1] = a
      /\ Promise(a) /\ \A f \in All(t) : Promise(f) /\ FrameOK(f)
  BY <1>1, <1>2, Setting DEF FrameOK, Sound
<1>4. Calm
  BY <1>1, CalmTop
<1>5. /\ stack' = Push(Script, Push(a, t))
      /\ UNCHANGED <<life, place, on, master, world, failed>>
      /\ carries' = [carries EXCEPT ![a.c] = FALSE]
  BY <1>1, <1>2, <1>3, GoToForms, ScriptPromise DEF DestroyInventory, GoTo
<1>6. \A d \in Critters : ~carries[d] => ~carries'[d]
  BY <1>5 DEF IInv, SortInv
<1>7. Near(Script, a) /\ Script.pc \in Plain /\ Script \in Frames
  BY <1>1, <1>2, ScriptPromise DEF Near, Plain, TopOnly, Waits, Base, Leaving, Ending
<1>8. PICK s : s = Push(Script, Push(a, t))
  OBVIOUS
<1>9. Chain(s) /\ Covers(s) /\ s # <<>> /\ s[1] = Script /\ All(s) = {a, Script} \cup All(t)
  BY <1>3, <1>7, <1>8, TwoChain DEF Sound
<1>10. ASSUME NEW b \in All(t) PROVE Promise(b)'
  <2>1. Promise(b) /\ FrameOK(b) /\ b.pc \notin TopOnly
    BY <1>3, BelowNotTop
  <2>2. b.pc = "detach" => ~carries'[b.c]
    BY <1>6, <2>1 DEF Promise, FrameOK
  <2>3. QED
    BY <1>5, <2>1, <2>2 DEF Promise, Exists, TopOnly
<1>11. Promise(a)' /\ Promise(Script)'
  BY <1>1, <1>2, <1>3, <1>5, ScriptPromise DEF Promise, Moves, Transfer, Ending
<1>12. \A b \in All(s) : Promise(b)'
  BY <1>9, <1>10, <1>11
<1>13. Calm' /\ Covers(s)' /\ Cleared'
  BY <1>4, <1>5, <1>9 DEF Calm, Attached, Exists, MapId, Covers, Cleared, Sound
<1>14. AtTop(s)'
  BY <1>9, <1>13, ScriptPromise DEF AtTop, Base
<1>15. QED
  BY <1>5, <1>8, <1>9, <1>12, <1>13, <1>14, SoundStep

LEMMA DetachSound ==
    ASSUME IInv, Sound, Detach
    PROVE  Sound'
<1>1. /\ Top.pc = "detach" /\ Top.pc \in Ending \cap Base
      /\ Top.pc \notin Leaving \cup {"tear", "clear", "script", "jobs"}
  BY DEF Detach, At, Base, Leaving, Ending
<1>2. PICK t, a, c : t = Tail(stack) /\ a = Top /\ c = Top.c
  OBVIOUS
<1>3. /\ t \in Seq(Frames) /\ a \in Frames /\ c \in Critters /\ a.c = c
      /\ stack = Push(a, t) /\ Chain(Push(a, t)) /\ stack # <<>> /\ stack[1] = a
      /\ Promise(a) /\ \A f \in All(t) : Promise(f) /\ FrameOK(f)
  BY <1>1, <1>2, Setting DEF FrameOK, Sound
<1>4. Halfway(a)
  BY <1>1, <1>2, <1>3 DEF Sound, AtTop
<1>5. PICK f \in Frames : f = Then("tear") /\ f.pc = "tear" /\ f.c = c
  BY <1>2, <1>3, ThenFrame DEF Pcs
<1>6. PICK s : s = Push(f, t)
  OBVIOUS
<1>7. /\ stack' = s /\ UNCHANGED <<life, place, on, carries, world, failed>>
      /\ master' = Alone(c)
  BY <1>1, <1>2, <1>5, <1>6, GoToForms DEF Detach, GoTo
<1>8. Fits(f, Top)
  BY <1>1, <1>2, <1>3, <1>5 DEF Fits, Leaving, Ending, Moves, Transfer
<1>9. Chain(s)
  BY <1>1, <1>2, <1>5, <1>6, <1>8, FitTop DEF Transfer
<1>10. Covers(s)
  BY <1>1, <1>2, <1>3, <1>5, <1>6, CoverLemma DEF Sound, Ending
<1>11. All(s) = {f} \cup All(t) /\ s # <<>> /\ s[1] = f
  BY <1>3, <1>6, PushLemma, AllPush
<1>12. Promise(f)'
  <2>1. place[c] = Nowhere /\ ~carries[c] /\ life[c] = "destroying"
    BY <1>1, <1>2, <1>3, <1>4 DEF Promise, Halfway
  <2>2. IsTorn(c)'
    BY <1>3, <1>7, <2>1, AloneFacts DEF IsTorn
  <2>3. QED
    BY <1>5, <1>7, <2>1, <2>2 DEF Promise, Moves, Transfer
<1>13. \A b \in All(s) : Promise(b)'
  BY <1>3, <1>7, <1>11, <1>12, AlonePromise
<1>14. Halfway(f)'
  <2>1. ASSUME NEW d \in Critters, master'[d] # Nowhere PROVE Fine(d)'
    <3>1. master'[d] = master[d] /\ c \notin {d, master[d]} /\ master[d] \in Critters
      BY <1>3, <1>7, <2>1, AloneFacts DEF IInv, SortInv
    <3>2. Fine(d)
      BY <1>3, <1>4, <2>1, <3>1 DEF Halfway
    <3>3. master'[master[d]] = Nowhere
      BY <1>3, <1>7, <3>1, <3>2, AloneFacts DEF Fine
    <3>4. QED
      BY <1>7, <3>1, <3>2, <3>3 DEF Fine, MapId, Exists
  <2>2. QED
    BY <1>3, <1>4, <1>5, <1>7, <2>1 DEF Halfway, Exists
<1>15. AtTop(s)'
  BY <1>5, <1>11, <1>14 DEF AtTop
<1>16. Covers(s)' /\ Cleared'
  BY <1>7, <1>10 DEF Covers, Cleared, Sound
<1>17. QED
  BY <1>7, <1>9, <1>13, <1>15, <1>16, SoundStep

(* The critter is destroyed: it is nowhere, nobody is attached to it, and  *)
(* nothing below still counts on it.                                       *)
LEMMA EndedSound ==
    ASSUME IInv, Sound, ~Touches, Top.pc \in {"tear", "unloaded"}, GoTo(<<>>),
           life' = [life EXCEPT ![Top.c] = "destroyed"], UNCHANGED <<place, on, world>>,
           \A d \in Critters : carries'[d] => carries[d],
           \A d \in Critters : master'[d] \in {master[d], Nowhere},
           \A d \in Critters : master'[d] # Nowhere => d # Top.c /\ master[d] # Top.c
    PROVE  Sound'
<1>1. /\ Top.pc \in Ending /\ Top.pc \in Base \cup {"tear"}
      /\ Top.pc \notin Leaving \cup {"clear", "script", "jobs"}
  BY DEF Base, Leaving, Ending
<1>2. PICK t, a, c : t = Tail(stack) /\ a = Top /\ c = Top.c
  OBVIOUS
<1>3. /\ t \in Seq(Frames) /\ a \in Frames /\ c \in Critters /\ a.c = c
      /\ stack = Push(a, t) /\ Chain(Push(a, t)) /\ stack # <<>> /\ stack[1] = a
      /\ Promise(a) /\ \A f \in All(t) : Promise(f) /\ FrameOK(f) /\ Order(a, f)
      /\ Chain(t) /\ (t # <<>> => Near(a, t[1]))
  BY <1>1, <1>2, Setting DEF FrameOK, Sound
<1>4. Halfway(a)
  BY <1>1, <1>2, <1>3 DEF Sound, AtTop
<1>5. stack' = t /\ UNCHANGED failed
  BY <1>2, <1>3, ConcatEmptySeq DEF GoTo
<1>6. life'[c] = "destroyed" /\ \A d \in Critters : d # c => life'[d] = life[d]
  BY <1>2, <1>3 DEF IInv, PlaceInv
<1>7. ASSUME NEW b \in All(t) PROVE Promise(b)'
  <2>1. Promise(b) /\ FrameOK(b) /\ b.pc \notin TopOnly
    BY <1>3, BelowNotTop
  <2>2. b.pc \in Ending \cup {"arrive"} => b.c \in Critters /\ life'[b.c] = life[b.c]
    BY <1>1, <1>2, <1>3, <1>6, <2>1 DEF Order, FrameOK, Ending
  <2>3. b.pc = "arrive" => Bonds(master', b.c) = {}
    <3> SUFFICES ASSUME b.pc = "arrive" PROVE Bonds(master', b.c) = {}
      OBVIOUS
    <3>1. Bonds(master, b.c) = {}
      BY <2>1 DEF Promise
    <3>2. QED
      BY <3>1 DEF Bonds
  <2>4. ASSUME b.pc = "clear", NEW n \in b.all PROVE life'[n] # "destroyed"
    <3>1. b # a /\ n \in Critters
      BY <1>1, <1>2, <2>1, <2>4 DEF FrameOK
    <3>2. CASE Untouched(b)
      BY <2>4, <3>2 DEF Untouched
    <3>3. CASE c \notin b.all
      BY <1>6, <2>1, <2>4, <3>1, <3>3 DEF Promise, Exists
    <3>4. QED
      BY <1>1, <1>2, <2>4, <3>1, <3>2, <3>3, BelowTop
  <2>5. b.pc = "detach" => ~carries'[b.c]
    BY <2>1 DEF Promise, FrameOK
  <2>6. QED
    BY <2>1, <2>2, <2>3, <2>4, <2>5 DEF Promise, Exists, TopOnly
<1>8. Calm'
  <2>1. ASSUME NEW d \in Critters, Exists(d)' PROVE place'[d] # Nowhere
    BY <1>3, <1>4, <1>6, <2>1 DEF Halfway, Exists
  <2>2. ASSUME NEW d \in Critters, master'[d] # Nowhere
        PROVE  /\ Exists(d)' /\ Exists(master[d])' /\ master'[d] = master[d]
               /\ MapId(d) = MapId(master[d]) /\ master'[master[d]] = Nowhere
    <3>1. master'[d] = master[d] /\ c \notin {d, master[d]} /\ master[d] \in Critters
      BY <1>2, <2>2 DEF IInv, SortInv
    <3>2. Fine(d)
      BY <1>3, <1>4, <2>2, <3>1 DEF Halfway
    <3>3. master'[master[d]] = Nowhere
      BY <3>1, <3>2 DEF Fine
    <3>4. QED
      BY <1>6, <3>1, <3>2, <3>3 DEF Fine, Exists
  <2>3. ASSUME NEW d PROVE MapId(d)' = MapId(d)
    BY DEF MapId
  <2>4. Attached'
    BY <2>2 DEF Attached, MapId, Exists
  <2>5. QED
    BY <2>1, <2>4 DEF Calm
<1>9. AtTop(t)'
  BY <1>1, <1>2, <1>3, <1>8 DEF AtTop, Near, Base
<1>10. Covers(t)'
  <2>1. All(stack) = {a} \cup All(t)
    BY <1>3, AllPush
  <2>2. ASSUME NEW d \in Critters, life'[d] = "destroying" PROVE \E b \in All(t) : b.pc \in Ending /\ b.c = d
    <3>1. d # c /\ life[d] = "destroying"
      BY <1>6, <2>2
    <3>2. QED
      BY <1>3, <2>1, <3>1 DEF Sound, Covers
  <2>3. world = "destroying" => \E b \in All(t) : b.pc = "clear"
    BY <1>1, <1>2, <2>1 DEF Sound, Covers
  <2>4. QED
    BY <2>2, <2>3 DEF Covers
<1>11. Cleared'
  BY DEF Cleared, Sound
<1>12. QED
  BY <1>3, <1>5, <1>7, <1>9, <1>10, <1>11, SoundStep

LEMMA EndDestroySound ==
    ASSUME IInv, Sound, ~Touches, EndDestroy \/ Unloaded
    PROVE  Sound'
<1>1. /\ Top.pc \in {"finish", "tear", "unloaded"} /\ Top.pc \in Ending
      /\ Top.pc \notin Leaving \cup {"clear", "script", "jobs"}
  BY DEF EndDestroy, Unloaded, At, Leaving, Ending
<1>2. Top \in Frames /\ Top.c \in Critters /\ Promise(Top) /\ Top.c # Nowhere
  BY <1>1, Setting, PlacesAssumption DEF FrameOK
<1>3. life[Top.c] = "destroying" /\ Exists(Top.c)
  BY <1>1, <1>2 DEF Promise, Exists
<1>4. CASE EndDestroy
  <2>1. Top.pc # "finish"
    <3> SUFFICES ASSUME Top.pc = "finish" PROVE FALSE
      OBVIOUS
    <3>1. Calm
      BY CalmTop DEF Base
    <3>2. QED
      BY <1>2, <1>3, <1>4, <3>1 DEF Calm, EndDestroy, IsTorn
  <2>2. master[Top.c] = Nowhere /\ \A d \in Critters : master[d] # Top.c
    BY <1>4 DEF EndDestroy, IsTorn, AttachedCritters
  <2>3. Top.pc = "tear"
    BY <1>4, <2>1 DEF EndDestroy, At
  <2>4. QED
    BY <1>4, <2>2, <2>3, EndedSound DEF EndDestroy
<1>5. CASE Unloaded
  <2>1. /\ master' = Alone(Top.c) /\ life' = [life EXCEPT ![Top.c] = "destroyed"]
        /\ carries' = [carries EXCEPT ![Top.c] = FALSE] /\ GoTo(<<>>)
        /\ UNCHANGED <<place, on, world>> /\ Top.pc = "unloaded"
    BY <1>3, <1>5 DEF Unloaded, At
  <2>2. \A d \in Critters : carries'[d] => carries[d]
    BY <2>1 DEF IInv, SortInv
  <2>3. \A d \in Critters : master'[d] \in {master[d], Nowhere}
    BY <2>1 DEF Alone
  <2>4. \A d \in Critters : master'[d] # Nowhere => d # Top.c /\ master[d] # Top.c
    BY <2>1 DEF Alone
  <2>5. QED
    BY <2>1, <2>2, <2>3, <2>4, EndedSound
<1>6. QED
  BY <1>4, <1>5

(* No critter is left on a map when the location is destroyed, and nothing *)
(* below is on its way to one.                                             *)
LEMMA EndLocationSound ==
    ASSUME IInv, Sound, EndLocation
    PROVE  Sound'
<1>1. /\ Top.pc = "clear"
      /\ Top.pc \notin Base \cup Ending \cup Leaving \cup {"tear", "script", "jobs"}
  BY DEF EndLocation, At, Base, Leaving, Ending
<1>2. PICK t, a : t = Tail(stack) /\ a = Top
  OBVIOUS
<1>3. /\ t \in Seq(Frames) /\ a \in Frames
      /\ stack = Push(a, t) /\ Chain(Push(a, t)) /\ stack # <<>> /\ stack[1] = a
      /\ Promise(a) /\ \A f \in All(t) : Promise(f) /\ Order(a, f)
      /\ Chain(t) /\ (t # <<>> => Near(a, t[1]))
  BY <1>1, <1>2, Setting DEF Sound
<1>4. Calm
  BY <1>1, CalmTop
<1>5. GoTo(<<>>) /\ world' = "destroyed" /\ UNCHANGED <<life, place, on, master, carries>>
  BY DEF EndLocation, critters
<1>6. stack' = t /\ UNCHANGED failed
  BY <1>2, <1>3, <1>5, ConcatEmptySeq DEF GoTo
<1>7. \A m \in Maps : on[m] = {}
  BY <1>1, <1>2, <1>3 DEF EndLocation, Promise
<1>8. \A c \in Critters : place[c] \notin Maps
  BY <1>7 DEF IInv, Together
<1>9. ASSUME NEW b \in All(t) PROVE b.pc \notin Moves \cup {"clear"}
  <2>1. b.pc # "clear"
    BY <1>1, <1>2, <1>3 DEF Order
  <2>2. PICK k \in 1..Len(t) : b = t[k]
    BY DEF All
  <2> DEFINE r == Push(a, t)
  <2>3. /\ r \in Seq(Frames) /\ Len(r) = Len(t) + 1 /\ r[1] = a /\ r[k + 1] = b
        /\ Len(t) \in Nat
    BY <1>3, <2>2, PushLemma
  <2>4. Chain(r)
    BY <1>3
  <2> HIDE DEF r
  <2>5. 1 \in 1..Len(r) /\ k + 1 \in 1..Len(r) /\ 1 < k + 1
    BY <2>2, <2>3
  <2>6. r[k + 1].pc \notin Moves
    BY <1>1, <1>2, <2>3, <2>4, <2>5, UnderClear
  <2>7. QED
    BY <2>1, <2>3, <2>6
<1>10. \A b \in All(t) : Promise(b)'
  BY <1>3, <1>5, <1>9 DEF Promise, Exists, IsTorn, AttachedCritters
<1>11. Calm' /\ Cleared'
  BY <1>4, <1>5, <1>8 DEF Calm, Attached, Exists, MapId, Cleared
<1>12. AtTop(t)'
  BY <1>1, <1>2, <1>3, <1>11 DEF AtTop, Near, TopOnly
<1>13. Covers(t)'
  <2>1. All(stack) = {a} \cup All(t)
    BY <1>3, AllPush
  <2>2. QED
    BY <1>1, <1>2, <1>5, <2>1 DEF Sound, Covers
<1>14. QED
  BY <1>3, <1>6, <1>10, <1>11, <1>12, <1>13, SoundStep

LEMMA EngineSound ==
    ASSUME IInv, Sound, ~Touches, Engine
    PROVE  Sound'
  BY ReturnSound, TransitLockedSound, TransitSound, ArriveSound, ArrivedSound, FollowSound,
     RejoinSound, LeaveSound, LeftSound, GoneSound, StartLookSound, LookSound, MoveSound,
     BeginDestroySound, RoundSound, InventorySound, TearOffSound, DetachSound, EndDestroySound,
     ClearMapSound, ClearNpcSound, EndLocationSound
     DEF Engine

-----------------------------------------------------------------------------
(* What scripts call: nothing is below but what they leave alone.          *)
LEMMA InScriptFacts ==
    ASSUME IInv, Sound, InScript
    PROVE  /\ stack \in Seq(Frames) /\ Chain(stack) /\ Covers(stack) /\ Loose(stack) = {}
           /\ stack = <<>> \/ stack[1].pc = "script"
           /\ Calm
           /\ \A b \in All(stack) : Promise(b) /\ FrameOK(b) /\ b.pc \notin TopOnly
           /\ ~Touches => \A b \in All(stack) : Untouched(b)
<1>1. /\ stack \in Seq(Frames) /\ (stack = <<>> \/ stack[1].pc = "script")
      /\ \A k \in 1..Len(stack) : FrameOK(stack[k])
  BY StackIs DEF IInv, StackInv, GoodStack
<1>2. PICK t : t = stack
  OBVIOUS
<1>3. t \in Seq(Frames) /\ (t = <<>> \/ t[1].pc = "script") /\ Chain(t) /\ Len(t) \in Nat
  BY <1>1, <1>2, LenProperties DEF Sound
<1>4. Loose(t) = {}
  BY <1>3, LooseNone
<1>5. Calm
  BY <1>2, <1>3 DEF Sound, AtTop, Base
<1>6. ASSUME NEW b \in All(t) PROVE b.pc \notin TopOnly
  <2>1. PICK k \in 1..Len(t) : b = t[k]
    BY DEF All
  <2>2. CASE k = 1
    <3>1. t # <<>>
      BY <1>3, <2>2
    <3>2. QED
      BY <1>3, <2>1, <2>2, <3>1 DEF TopOnly
  <2>3. CASE k # 1
    <3>1. k \in 2..Len(t)
      BY <1>3, <2>3
    <3>2. QED
      BY <1>3, <2>1, <3>1, BelowLemma
  <2>4. QED
    BY <2>2, <2>3
<1>7. \A b \in All(stack) : Promise(b) /\ FrameOK(b)
  BY <1>1 DEF Sound, All
<1>8. ~Touches => \A b \in All(stack) : Untouched(b)
  BY <1>2, <1>4, HeldLemma
<1>9. QED
  BY <1>1, <1>2, <1>3, <1>4, <1>5, <1>6, <1>7, <1>8 DEF Sound

LEMMA OnScript ==
    ASSUME IInv, Sound, InScript, NEW t, t = stack, NEW f \in Frames, f.pc \notin Leaving,
           \A b \in All(t) : Order(f, b)
    PROVE  /\ t \in Seq(Frames) /\ Chain(Push(f, t)) /\ Covers(Push(f, t))
           /\ All(Push(f, t)) = {f} \cup All(t) /\ Loose(Push(f, t)) \subseteq {f}
           /\ Push(f, t) # <<>> /\ Push(f, t)[1] = f
<1>1. /\ t \in Seq(Frames) /\ Chain(t) /\ Covers(t) /\ Loose(t) = {}
      /\ t = <<>> \/ t[1].pc = "script"
  BY InScriptFacts
<1>2. t # <<>> => Near(f, t[1])
  BY <1>1 DEF Near, TopOnly, Waits, Base
<1>3. Chain(Push(f, t))
  BY <1>1, <1>2, PushChain
<1>4. QED
  BY <1>1, <1>3, CoverPush, AllPush, LoosePush, PushLemma

LEMMA CallForms ==
    ASSUME IInv, NEW t, t = stack, NEW f \in Frames, NEW g \in Frames
    PROVE  /\ Call(<<f>>) => stack' = Push(f, t) /\ UNCHANGED failed /\ InScript
           /\ Call(<<g, f>>) => stack' = Push(g, Push(f, t)) /\ UNCHANGED failed /\ InScript
<1>1. t \in Seq(Frames)
  BY StackIs
<1>2. <<f>> \o t = Push(f, t)
  BY DEF Push
<1>3. <<g, f>> \o t = Push(g, Push(f, t))
  BY <1>1, PushTwo
<1>4. QED
  BY <1>2, <1>3 DEF Call

LEMMA CalledStep ==
    ASSUME Sound, UNCHANGED failed, Cleared', Calm', NEW s, stack' = s, Chain(s), s # <<>>,
           \A f \in All(s) : Promise(f)', Covers(s)', s[1].pc \notin Base \cup {"tear"},
           s[1].pc = "transit" => \A b \in Loose(s) : b.pc # "clear"
    PROVE  Sound'
<1>1. AtTop(s)'
  BY DEF AtTop
<1>2. QED
  BY <1>1, SoundStep

LEMMA TransitToSound ==
    ASSUME IInv, Sound, NEW c \in Critters, NEW to \in Maps \cup {Global}, TransitTo(c, to)
    PROVE  Sound'
<1>1. PICK t : t = stack
  OBVIOUS
<1> DEFINE f0 == [Frame("transit", c) EXCEPT !.to = to, !.since = calls + 1]
<1>2. f0 \in Frames /\ f0.pc = "transit" /\ f0.c = c /\ f0.to = to
  <2>1. /\ Frame("transit", c) \in Frames /\ Frame("transit", c).pc = "transit"
        /\ Frame("transit", c).c = c
    BY FrameLemma
  <2>2. calls + 1 \in Nat /\ to \in Places
    BY DEF IInv, PlaceInv, Places
  <2>3. QED
    BY <2>1, <2>2 DEF Frames
<1>3. PICK f \in Frames : f = f0 /\ f.pc = "transit" /\ f.c = c /\ f.to = to
  BY <1>2
<1>4. Call(<<f>>)
  BY <1>3 DEF TransitTo
<1> HIDE DEF f0
<1>5. stack' = Push(f, t) /\ UNCHANGED failed /\ InScript
  BY <1>1, <1>4, CallForms
<1>6. Still
  BY <1>5 DEF TransitTo, Still, critters
<1>7. Calm /\ \A b \in All(t) : Promise(b)
  BY <1>1, <1>5, InScriptFacts
<1>8. Promise(f)
  <2>1. place[c] # Nowhere /\ Exists(c)
    BY <1>7 DEF TransitTo, Calm
  <2>2. to \in Maps => world # "destroyed"
    BY PlacesAssumption DEF TransitTo
  <2>3. QED
    BY <1>3, <2>1, <2>2 DEF Promise, Transfer, Ending
<1>9. f.pc \notin Leaving \cup Base \cup {"tear"} /\ \A b : Order(f, b)
  BY <1>3 DEF Order, Leaving, Base, Transfer, Ending
<1>10. PICK s : s = Push(f, t)
  OBVIOUS
<1>11. /\ Chain(s) /\ Covers(s) /\ All(s) = {f} \cup All(t) /\ Loose(s) \subseteq {f}
       /\ s # <<>> /\ s[1] = f
  BY <1>1, <1>5, <1>9, <1>10, OnScript
<1>12. \A b \in All(s) : Promise(b)
  BY <1>7, <1>8, <1>11
<1>13. \A b \in Loose(s) : b.pc # "clear"
  BY <1>3, <1>11
<1>14. QED
  BY <1>5, <1>6, <1>7, <1>9, <1>10, <1>11, <1>12, <1>13, StillStep

LEMMA DestroySound ==
    ASSUME IInv, Sound, NEW c \in Critters, DestroyCritter(c)
    PROVE  Sound'
<1>1. PICK t : t = stack
  OBVIOUS
<1>2. PICK f \in Frames : f = Frame("destroy", c) /\ f.pc = "destroy" /\ Promise(f)
  BY LookPromise
<1>3. stack' = Push(f, t) /\ UNCHANGED failed /\ InScript
  BY <1>1, <1>2, CallForms DEF DestroyCritter
<1>4. Still
  BY <1>3 DEF DestroyCritter, Still, critters
<1>5. Calm /\ \A b \in All(t) : Promise(b)
  BY <1>1, <1>3, InScriptFacts
<1>6. f.pc \notin Leaving \cup Base \cup {"tear", "transit"} /\ \A b : Order(f, b)
  BY <1>2 DEF Order, Leaving, Base, Transfer, Ending
<1>7. PICK s : s = Push(f, t)
  OBVIOUS
<1>8. Chain(s) /\ Covers(s) /\ All(s) = {f} \cup All(t) /\ s # <<>> /\ s[1] = f
  BY <1>1, <1>3, <1>6, <1>7, OnScript
<1>9. \A b \in All(s) : Promise(b)
  BY <1>2, <1>5, <1>8
<1>10. QED
  BY <1>3, <1>4, <1>5, <1>6, <1>7, <1>8, <1>9, StillStep

LEMMA AddItemSound ==
    ASSUME IInv, Sound, ~Touches, NEW c \in Critters, AddItem(c)
    PROVE  Sound'
<1>1. PICK t, f : t = stack /\ f = Script
  OBVIOUS
<1>2. f \in Frames /\ f.pc = "script"
  BY <1>1, ScriptPromise
<1>3. /\ stack' = Push(f, t) /\ InScript
      /\ UNCHANGED <<life, place, on, master, world, failed>>
  BY <1>1, <1>2, CallForms DEF AddItem
<1>4. Calm /\ \A b \in All(t) : Promise(b) /\ b.pc \notin TopOnly /\ Untouched(b)
  BY <1>1, <1>3, InScriptFacts
<1>5. f.pc \notin Leaving \cup Base \cup {"tear", "transit"} /\ \A b : Order(f, b)
  BY <1>2 DEF Order, Leaving, Base, Transfer, Ending
<1>6. PICK s : s = Push(f, t)
  OBVIOUS
<1>7. Chain(s) /\ Covers(s) /\ All(s) = {f} \cup All(t) /\ s # <<>> /\ s[1] = f
  BY <1>1, <1>2, <1>3, <1>5, <1>6, OnScript
<1>8. ASSUME NEW b \in All(s) PROVE Promise(b)'
  <2>1. CASE b = f
    BY <1>2, <2>1 DEF Promise, Moves, Transfer, Ending
  <2>2. CASE b \in All(t)
    BY <1>3, <1>4, <2>2 DEF Promise, Untouched, Exists, TopOnly
  <2>3. QED
    BY <1>7, <2>1, <2>2
<1>9. Calm' /\ Covers(s)' /\ Cleared'
  BY <1>3, <1>4, <1>7 DEF Calm, Attached, Exists, MapId, Covers, Cleared, Sound
<1>10. QED
  BY <1>3, <1>5, <1>6, <1>7, <1>8, <1>9, CalledStep

LEMMA UnloadSound ==
    ASSUME IInv, Sound, ~Touches, NEW c \in Critters, UnloadCritter(c)
    PROVE  Sound'
<1>1. PICK t, g : t = stack /\ g = Script
  OBVIOUS
<1>2. PICK f \in Frames : f = Frame("unload", c) /\ f.pc = "unload" /\ f.c = c
  BY FrameLemma
<1>3. g \in Frames /\ g.pc = "script" /\ Promise(g)
  BY <1>1, ScriptPromise
<1>4. /\ stack' = Push(g, Push(f, t)) /\ InScript
      /\ life[c] = "live" /\ life' = [life EXCEPT ![c] = "destroying"]
      /\ UNCHANGED <<place, on, master, carries, world, failed>>
  BY <1>1, <1>2, <1>3, CallForms DEF UnloadCritter
<1>5. /\ Calm /\ Covers(t) /\ t \in Seq(Frames)
      /\ \A b \in All(t) : Promise(b) /\ FrameOK(b) /\ b.pc \notin TopOnly /\ Untouched(b)
  BY <1>1, <1>4, InScriptFacts
<1>6. /\ life'[c] = "destroying" /\ \A d \in Critters : d # c => life'[d] = life[d]
      /\ \A d : Exists(d)' <=> Exists(d)
  BY <1>4 DEF IInv, PlaceInv, Exists
<1>7. ASSUME NEW b \in All(t) PROVE Order(f, b)
  <2>1. b.pc \in Ending => life[b.c] = "destroying"
    BY <1>5 DEF Promise
  <2>2. b.pc = "arrive" => life'[b.c] = life[b.c]
    BY <1>5 DEF Untouched
  <2>3. b.pc \in Ending \cup {"arrive"} => b.c # c
    BY <1>4, <1>6, <2>1, <2>2
  <2>4. QED
    BY <1>2, <2>3 DEF Order, Transfer
<1>8. f.pc \notin Leaving
  BY <1>2 DEF Leaving
<1>9. /\ Chain(Push(f, t)) /\ Covers(Push(f, t))
  BY <1>1, <1>4, <1>7, <1>8, OnScript
<1>10. Near(g, f) /\ g.pc \in Plain
  BY <1>2, <1>3 DEF Near, Plain, TopOnly, Waits, Base, Leaving, Ending
<1>11. PICK s : s = Push(g, Push(f, t))
  OBVIOUS
<1>12. Chain(s) /\ Covers(s) /\ s # <<>> /\ s[1] = g /\ All(s) = {f, g} \cup All(t)
  BY <1>3, <1>5, <1>9, <1>10, <1>11, TwoChain
<1>13. Promise(f)' /\ Promise(g)'
  BY <1>2, <1>3, <1>6 DEF Promise, Moves, Transfer, Ending
<1>14. ASSUME NEW b \in All(t) PROVE Promise(b)'
  <2>1. b.pc \in Ending => life'[b.c] = "destroying"
    BY <1>5, <1>6 DEF Promise, FrameOK, Ending
  <2>2. QED
    BY <1>4, <1>5, <1>6, <2>1 DEF Promise, TopOnly
<1>15. \A b \in All(s) : Promise(b)'
  BY <1>12, <1>13, <1>14
<1>16. Covers(s)'
  <2>1. f \in All(s) /\ f.pc \in Ending /\ f.c = c
    BY <1>2, <1>12 DEF Ending
  <2>2. QED
    BY <1>4, <1>6, <1>12, <2>1 DEF Covers
<1>17. Calm' /\ Cleared'
  <2>1. \A d \in Critters : master[d] # Nowhere => master[d] \in Critters
    BY DEF IInv, SortInv
  <2>2. QED
    BY <1>4, <1>5, <1>6, <2>1 DEF Calm, Attached, MapId, Cleared, Sound
<1>18. QED
  BY <1>3, <1>4, <1>11, <1>12, <1>15, <1>16, <1>17, CalledStep DEF Base

LEMMA DestroyLocationSound ==
    ASSUME IInv, Sound, ~Touches, DestroyLocation
    PROVE  Sound'
<1>1. PICK t, g : t = stack /\ g = Script
  OBVIOUS
<1> DEFINE f0 == [Frame("clear", Nowhere) EXCEPT !.left = Maps]
<1>2. f0 \in Frames /\ f0.pc = "clear" /\ f0.left = Maps /\ f0.all = {}
  <2>1. Nowhere \in Places /\ Maps \in SUBSET Things /\ {} \in SUBSET Things /\ "clear" \in Pcs
    BY DEF Places, Things, Pcs
  <2>2. QED
    BY <2>1 DEF Frame, Frames
<1>3. PICK f \in Frames : f = f0 /\ f.pc = "clear" /\ f.left = Maps /\ f.all = {}
  BY <1>2
<1>4. g \in Frames /\ g.pc = "script" /\ Promise(g)
  BY <1>1, ScriptPromise
<1>5. Call(<<g, f>>)
  BY <1>1, <1>3 DEF DestroyLocation
<1> HIDE DEF f0
<1>6. /\ stack' = Push(g, Push(f, t)) /\ InScript
      /\ world = "live" /\ world' = "destroying"
      /\ UNCHANGED <<life, place, on, master, carries, failed>>
  <2>1. stack' = Push(g, Push(f, t)) /\ InScript /\ UNCHANGED failed
    BY <1>1, <1>4, <1>5, CallForms
  <2>2. world = "live" /\ world' = "destroying" /\ UNCHANGED critters
    BY DEF DestroyLocation
  <2>3. QED
    BY <2>1, <2>2 DEF critters
<1>7. /\ Calm /\ t \in Seq(Frames)
      /\ \A b \in All(t) : Promise(b) /\ b.pc \notin TopOnly /\ Untouched(b)
  BY <1>1, <1>6, InScriptFacts
<1>8. ASSUME NEW b \in All(t) PROVE Order(f, b) /\ b.pc # "clear"
  <2>1. b.pc \notin WorldPcs
    BY <1>6, <1>7 DEF Untouched
  <2>2. b.pc # "clear"
    BY <1>6, <1>7 DEF Promise
  <2>3. QED
    BY <1>3, <2>1, <2>2 DEF Order, Transfer, Ending
<1>9. f.pc \notin Leaving
  BY <1>3 DEF Leaving
<1>10. Chain(Push(f, t)) /\ Covers(Push(f, t))
  BY <1>1, <1>6, <1>8, <1>9, OnScript
<1>11. Near(g, f) /\ g.pc \in Plain
  BY <1>3, <1>4 DEF Near, Plain, TopOnly, Waits, Base, Leaving, Ending
<1>12. PICK s : s = Push(g, Push(f, t))
  OBVIOUS
<1>13. Chain(s) /\ Covers(s) /\ s # <<>> /\ s[1] = g /\ All(s) = {f, g} \cup All(t)
  BY <1>4, <1>7, <1>10, <1>11, <1>12, TwoChain
<1>14. Promise(f)' /\ Promise(g)'
  BY <1>3, <1>4, <1>6 DEF Promise, Moves, Transfer, Ending
<1>15. \A b \in All(t) : Promise(b)'
  BY <1>6, <1>7, <1>8 DEF Promise, Exists, TopOnly
<1>16. \A b \in All(s) : Promise(b)'
  BY <1>13, <1>14, <1>15
<1>17. Covers(s)'
  BY <1>3, <1>6, <1>13 DEF Covers
<1>18. Calm' /\ Cleared'
  BY <1>6, <1>7 DEF Calm, Attached, Exists, MapId, Cleared
<1>19. QED
  BY <1>4, <1>6, <1>12, <1>13, <1>16, <1>17, <1>18, CalledStep DEF Base

LEMMA AttachSound ==
    ASSUME IInv, Sound, ~Touches, NEW c \in Critters, NEW cr \in Critters, AttachToCritter(c, cr)
    PROVE  Sound'
<1>1. PICK t : t = stack
  OBVIOUS
<1>2. PICK g \in Frames, f \in Frames : /\ g = Frame("look", c) /\ g.pc = "look" /\ Promise(g)
                                        /\ f = Frame("move", cr) /\ f.pc = "move" /\ Promise(f)
  BY LookPromise
<1>3. /\ stack' = Push(g, Push(f, t)) /\ InScript
      /\ UNCHANGED <<life, place, on, carries, world, failed>>
      /\ Exists(c) /\ Exists(cr) /\ c # cr /\ MapId(c) = MapId(cr)
      /\ master[cr] = Nowhere /\ AttachedCritters(c) = {}
      /\ master' = [master EXCEPT ![c] = cr]
  BY <1>1, <1>2, CallForms DEF AttachToCritter
<1>4. /\ Calm /\ t \in Seq(Frames)
      /\ \A b \in All(t) : Promise(b) /\ b.pc \notin TopOnly /\ Untouched(b)
  BY <1>1, <1>3, InScriptFacts
<1>5. f.pc \notin Leaving /\ \A b : Order(f, b)
  BY <1>2 DEF Order, Leaving, Transfer, Ending
<1>6. Chain(Push(f, t)) /\ Covers(Push(f, t))
  BY <1>1, <1>3, <1>5, OnScript
<1>7. Near(g, f) /\ g.pc \in Plain
  BY <1>2 DEF Near, Plain, TopOnly, Waits, Base, Leaving, Ending
<1>8. PICK s : s = Push(g, Push(f, t))
  OBVIOUS
<1>9. Chain(s) /\ Covers(s) /\ s # <<>> /\ s[1] = g /\ All(s) = {f, g} \cup All(t)
  BY <1>4, <1>6, <1>7, <1>8, TwoChain
<1>10. Promise(f)' /\ Promise(g)'
  BY <1>2 DEF Promise, Moves, Transfer, Ending
<1>11. \A b \in All(t) : Promise(b)'
  BY <1>3, <1>4 DEF Promise, Untouched, Exists, TopOnly
<1>12. \A b \in All(s) : Promise(b)'
  BY <1>9, <1>10, <1>11
<1>13. ASSUME NEW d \in Critters, master'[d] # Nowhere
       PROVE  /\ Exists(d) /\ Exists(master'[d]) /\ MapId(d) = MapId(master'[d])
              /\ master'[master'[d]] = Nowhere
  <2>1. master'[c] = cr /\ \A e \in Critters : e # c => master'[e] = master[e]
    BY <1>3 DEF IInv, SortInv
  <2>2. CASE d = c
    BY <1>3, <2>1, <2>2
  <2>3. CASE d # c
    <3>1. /\ Exists(d) /\ Exists(master[d]) /\ MapId(d) = MapId(master[d])
          /\ master[master[d]] = Nowhere /\ master[d] \in Critters
      BY <1>4, <1>13, <2>1, <2>3 DEF Calm, Attached, IInv, SortInv
    <3>2. master[d] # c
      BY <1>3 DEF AttachedCritters
    <3>3. QED
      BY <2>1, <2>3, <3>1, <3>2
  <2>4. QED
    BY <2>2, <2>3
<1>14. Calm'
  BY <1>3, <1>4, <1>13 DEF Calm, Attached, Exists, MapId
<1>15. Covers(s)' /\ Cleared'
  BY <1>3, <1>9 DEF Covers, Cleared, Sound
<1>16. QED
  BY <1>2, <1>3, <1>8, <1>9, <1>12, <1>14, <1>15, CalledStep DEF Base

LEMMA DetachFromSound ==
    ASSUME IInv, Sound, ~Touches, NEW c \in Critters, DetachFromCritter(c)
    PROVE  Sound'
<1>1. PICK t : t = stack
  OBVIOUS
<1>2. PICK f \in Frames : f = Frame("look", c) /\ f.pc = "look" /\ Promise(f)
  BY LookPromise
<1>3. /\ stack' = Push(f, t) /\ InScript
      /\ UNCHANGED <<life, place, on, carries, world, failed>>
      /\ master' = [master EXCEPT ![c] = Nowhere]
  BY <1>1, <1>2, CallForms DEF DetachFromCritter
<1>4. /\ Calm
      /\ \A b \in All(t) : Promise(b) /\ b.pc \notin TopOnly /\ Untouched(b)
  BY <1>1, <1>3, InScriptFacts
<1>5. f.pc \notin Leaving \cup Base \cup {"tear", "transit"} /\ \A b : Order(f, b)
  BY <1>2 DEF Order, Leaving, Base, Transfer, Ending
<1>6. PICK s : s = Push(f, t)
  OBVIOUS
<1>7. Chain(s) /\ Covers(s) /\ All(s) = {f} \cup All(t) /\ s # <<>> /\ s[1] = f
  BY <1>1, <1>3, <1>5, <1>6, OnScript
<1>8. Promise(f)'
  BY <1>2 DEF Promise, Moves, Transfer, Ending
<1>9. \A b \in All(t) : Promise(b)'
  BY <1>3, <1>4 DEF Promise, Untouched, Exists, TopOnly
<1>10. \A b \in All(s) : Promise(b)'
  BY <1>7, <1>8, <1>9
<1>11. ASSUME NEW d \in Critters, master'[d] # Nowhere
       PROVE  /\ Exists(d) /\ Exists(master'[d]) /\ MapId(d) = MapId(master'[d])
              /\ master'[master'[d]] = Nowhere
  <2>1. master'[c] = Nowhere /\ \A e \in Critters : e # c => master'[e] = master[e]
    BY <1>3 DEF IInv, SortInv
  <2>2. d # c
    BY <1>11, <2>1
  <2>3. /\ Exists(d) /\ Exists(master[d]) /\ MapId(d) = MapId(master[d])
        /\ master[master[d]] = Nowhere /\ master[d] \in Critters
    BY <1>4, <1>11, <2>1, <2>2 DEF Calm, Attached, IInv, SortInv
  <2>4. QED
    BY <2>1, <2>2, <2>3
<1>12. Calm'
  BY <1>3, <1>4, <1>11 DEF Calm, Attached, Exists, MapId
<1>13. Covers(s)' /\ Cleared'
  BY <1>3, <1>7 DEF Covers, Cleared, Sound
<1>14. QED
  BY <1>3, <1>5, <1>6, <1>7, <1>10, <1>12, <1>13, CalledStep

LEMMA ScriptsSound ==
    ASSUME IInv, Sound, ~Touches, Scripts
    PROVE  Sound'
<1>1. \A c \in Npcs : c \in Critters
  BY DEF Critters
<1>2. QED
  BY <1>1, TransitToSound, AttachSound, DetachFromSound, AddItemSound, UnloadSound,
     DestroySound, DestroyLocationSound DEF Scripts

-----------------------------------------------------------------------------
LEMMA OrderInit == Init => OrderInv
<1> SUFFICES ASSUME Init PROVE OrderInv
  OBVIOUS
<1>1. IInv
  BY InitLemma
<1>2. PICK s : s = <<>>
  OBVIOUS
<1>3. stack = s /\ s \in Seq(Frames) /\ Len(s) = 0
  BY <1>2 DEF Init
<1>4. Chain(s) /\ All(s) = {}
  BY <1>2, <1>3 DEF Chain, All
<1>5. Covers(s) /\ Cleared
  BY DEF Init, Covers, Cleared
<1>6. Calm
  <2>1. ASSUME NEW c \in Critters PROVE place[c] # Nowhere /\ Exists(c)
    BY PlacesAssumption, StartAssumption DEF Init, Exists
  <2>2. ASSUME NEW c \in Critters, master[c] # Nowhere
        PROVE  /\ Exists(master[c]) /\ MapId(c) = MapId(master[c]) /\ master[master[c]] = Nowhere
    <3>1. Convoy[c] \in Critters /\ Start[c] = Start[Convoy[c]] /\ Convoy[Convoy[c]] = Nowhere
      BY <2>2, StartAssumption DEF Init
    <3>2. QED
      BY <2>1, <3>1 DEF Init, MapId
  <2>3. QED
    BY <2>1, <2>2 DEF Calm, Attached
<1>7. AtTop(s)
  BY <1>2, <1>6 DEF AtTop
<1>8. Sound
  BY <1>3, <1>4, <1>5, <1>7 DEF Init, Sound
<1>9. QED
  BY <1>1, <1>8 DEF OrderInv

LEMMA OrderStep == OrderInv /\ [Next]_vars => OrderInv'
<1> SUFFICES ASSUME OrderInv, [Next]_vars PROVE OrderInv'
  OBVIOUS
<1>1. IInv /\ IInv'
  BY StepLemma DEF OrderInv
<1>2. CASE UNCHANGED vars
  <2>1. Sound' <=> Sound
    BY <1>2 DEF vars, critters, Sound, Cleared, Promise, Covers, AtTop, Calm, Attached, Halfway,
        Fine, Exists, MapId, IsTorn, AttachedCritters
  <2>2. broken' <=> broken
    BY <1>2 DEF vars
  <2>3. QED
    BY <1>1, <2>1, <2>2 DEF OrderInv
<1>3. CASE Next
  <2>1. ASSUME ~broken' PROVE Sound'
    <3>1. ~broken /\ ~Touches
      <4>1. broken' = (broken \/ Touches)
        BY <1>3 DEF Next, Watch
      <4>2. QED
        BY <2>1, <4>1, Zenon
    <3>2. Sound
      BY <3>1 DEF OrderInv
    <3>3. QED
      BY <1>1, <1>3, <3>1, <3>2, ScriptsSound, EngineSound DEF Next
  <2>2. QED
    BY <1>1, <2>1 DEF OrderInv
<1>4. QED
  BY <1>2, <1>3

(* What the invariant says is all that Orderly asks for.                   *)
LEMMA OrderlyLemma == OrderInv => Orderly
<1> SUFFICES ASSUME OrderInv, ~broken PROVE ~failed /\ (InScript => Attached) /\ AtRest
  BY DEF Orderly
<1>1. IInv /\ Sound
  BY DEF OrderInv
<1>2. ~failed
  BY <1>1, Zenon DEF Sound
<1>3. InScript => Attached
  BY <1>1, InScriptFacts DEF Calm
<1>4. AtRest
  <2> SUFFICES ASSUME stack = <<>>
               PROVE  /\ world # "destroying"
                      /\ \A c \in Critters : life[c] # "destroying" /\ (Exists(c) => place[c] # Nowhere)
                      /\ \A c \in Critters : place[c] \in Maps => world = "live"
    BY DEF AtRest
  <2>1. Calm /\ Cleared /\ Covers(stack) /\ world \in Lives
    BY <1>1 DEF Sound, AtTop, IInv, SortInv
  <2>2. All(stack) = {}
    BY DEF All
  <2>3. world # "destroying" /\ \A c \in Critters : life[c] # "destroying"
    BY <2>1, <2>2 DEF Covers
  <2>4. QED
    BY <2>1, <2>3 DEF Calm, Cleared, Lives
<1>5. QED
  BY <1>2, <1>3, <1>4

(* As long as scripts leave alone what the calls under way rely on, no     *)
(* assertion fails, scripts and jobs find everybody attached properly, and *)
(* every call leaves the critters and the location at rest: for any        *)
(* critters and maps, and calls within calls however deep.                 *)
THEOREM OrderlyTheorem == Spec => []Orderly
<1>1. Init => OrderInv
  BY OrderInit
<1>2. OrderInv /\ [Next]_vars => OrderInv'
  BY OrderStep
<1>3. OrderInv => Orderly
  BY OrderlyLemma
<1>4. QED
  BY <1>1, <1>2, <1>3, PTL DEF Spec

-----------------------------------------------------------------------------
(* Transfers that no script has disturbed: none has called anything since  *)
(* the transfer has begun.                                                 *)
Undisturbed(f) == f.pc \in Moves /\ f.since = calls

(* What may be above them: callbacks that return without a call of their   *)
(* own, looks, and the removal of the critter from where it is.            *)
Quiet == {"script", "look", "looking"} \cup Leaving

(* The transfer a is the one of a critter that follows the one of b.       *)
Follower(a, b) == /\ b.pc = "train" /\ a.c \in b.all \ b.left /\ a.to = b.to
                  /\ a.all = {} /\ a.left = {}

(* Nothing else is above them but the transfer of one that follows, right  *)
(* above the one it belongs to.                                            *)
Guarded(s) == \A j, k \in 1..Len(s) : j < k /\ Undisturbed(s[k]) =>
    s[j].pc \in Quiet \/ (Undisturbed(s[j]) /\ Follower(s[j], s[k]) /\ k = j + 1)

Free(c) == Exists(c) /\ master[c] = Nowhere /\ AttachedCritters(c) = {}

(* Where the critter of a transfer and those who follow it are.            *)
OnTheWay(f, s) ==
    f.pc \in Transfer =>
      /\ f.left \subseteq f.all /\ f.all \subseteq Critters
      /\ Free(f.c) /\ \A a \in f.all : Free(a)
      /\ \A a \in f.left : MapId(a) = f.from
      /\ \A a \in f.all \ f.left :
           place[a] = f.to \/ \E g \in All(s) : Undisturbed(g) /\ Follower(g, f) /\ g.c = a
      /\ f.pc \in {"arrived", "train"} => place[f.c] = f.to

Tale(s) == Guarded(s) /\ \A f \in All(s) : Undisturbed(f) => OnTheWay(f, s)

(* Transfers remember a call that has been made.                           *)
Counted == (\A f \in All(stack) : f.since <= calls) /\ (stack # <<>> => calls > 0)

WholeInv == OrderInv /\ Counted /\ (~broken => Tale(stack))

LEMMA GuardedPush ==
    ASSUME NEW a \in Frames, NEW t \in Seq(Frames)
    PROVE  Guarded(Push(a, t)) <=>
             /\ Guarded(t)
             /\ \A k \in 1..Len(t) : Undisturbed(t[k]) =>
                  a.pc \in Quiet \/ (Undisturbed(a) /\ Follower(a, t[k]) /\ k = 1)
<1> DEFINE r == Push(a, t)
           good(x, y, i, j) == Undisturbed(y) => x.pc \in Quiet \/ (Undisturbed(x) /\ Follower(x, y) /\ j = i + 1)
<1>1. /\ Len(t) \in Nat /\ Len(r) = Len(t) + 1 /\ r[1] = a /\ \A k \in 1..Len(t) : r[k + 1] = t[k]
  BY PushLemma
<1> HIDE DEF r
<1>2. Guarded(r) <=> \A j, k \in 1..Len(r) : j < k => good(r[j], r[k], j, k)
  BY DEF Guarded
<1>3. Guarded(t) <=> \A j, k \in 1..Len(t) : j < k => good(t[j], t[k], j, k)
  BY DEF Guarded
<1>4. \A x, y : \A i, j \in Nat : good(x, y, i, j) <=> good(x, y, i + 1, j + 1)
  OBVIOUS
<1>5. \A k \in 1..Len(t) : good(a, t[k], 1, k + 1) <=>
        (Undisturbed(t[k]) => a.pc \in Quiet \/ (Undisturbed(a) /\ Follower(a, t[k]) /\ k = 1))
  <2>1. \A k \in 1..Len(t) : k + 1 = 1 + 1 <=> k = 1
    BY <1>1
  <2>2. QED
    BY <2>1
<1> HIDE DEF good
<1>6. ASSUME Guarded(r)
      PROVE  Guarded(t) /\ \A k \in 1..Len(t) : good(a, t[k], 1, k + 1)
  <2>1. ASSUME NEW j \in 1..Len(t), NEW k \in 1..Len(t), j < k PROVE good(t[j], t[k], j, k)
    <3>1. j + 1 \in 1..Len(r) /\ k + 1 \in 1..Len(r) /\ j + 1 < k + 1 /\ j \in Nat /\ k \in Nat
      BY <1>1, <2>1
    <3>2. good(r[j + 1], r[k + 1], j + 1, k + 1)
      BY <1>2, <1>6, <3>1
    <3>3. QED
      BY <1>1, <1>4, <3>1, <3>2
  <2>2. ASSUME NEW k \in 1..Len(t) PROVE good(a, t[k], 1, k + 1)
    <3>1. 1 \in 1..Len(r) /\ k + 1 \in 1..Len(r) /\ 1 < k + 1
      BY <1>1
    <3>2. QED
      BY <1>1, <1>2, <1>6, <3>1
  <2>3. QED
    BY <1>3, <2>1, <2>2
<1>7. ASSUME Guarded(t), \A k \in 1..Len(t) : good(a, t[k], 1, k + 1)
      PROVE  Guarded(r)
  <2>1. ASSUME NEW j \in 1..Len(r), NEW k \in 1..Len(r), j < k PROVE good(r[j], r[k], j, k)
    <3>1. k - 1 \in 1..Len(t) /\ k = (k - 1) + 1 /\ k - 1 \in Nat
      BY <1>1, <2>1
    <3>2. CASE j = 1
      BY <1>1, <1>7, <3>1, <3>2
    <3>3. CASE j # 1
      <4>1. j - 1 \in 1..Len(t) /\ j = (j - 1) + 1 /\ j - 1 \in Nat /\ j - 1 < k - 1
        BY <1>1, <2>1, <3>3
      <4>2. good(t[j - 1], t[k - 1], j - 1, k - 1)
        BY <1>3, <1>7, <3>1, <4>1
      <4>3. good(t[j - 1], t[k - 1], (j - 1) + 1, (k - 1) + 1)
        BY <1>4, <3>1, <4>1, <4>2
      <4>4. QED
        BY <1>1, <3>1, <4>1, <4>3
    <3>4. QED
      BY <3>2, <3>3
  <2>2. QED
    BY <1>2, <2>1
<1>8. QED
  BY <1>5, <1>6, <1>7 DEF r

LEMMA AllIs ==
    ASSUME NEW t, NEW b \in All(t)
    PROVE  \E k \in 1..Len(t) : b = t[k]
  BY DEF All

(* A stack without such transfers has nothing to tell.                     *)
LEMMA NoTale ==
    ASSUME NEW s, \A f \in All(s) : ~Undisturbed(f)
    PROVE  Tale(s)
  BY DEF Tale, Guarded, All

LEMMA TalePop ==
    ASSUME NEW a \in Frames, NEW t \in Seq(Frames), Tale(Push(a, t)), ~Undisturbed(a)
    PROVE  Tale(t)
<1>1. Guarded(t)
  BY GuardedPush DEF Tale
<1>2. All(Push(a, t)) = {a} \cup All(t)
  BY AllPush
<1>3. ASSUME NEW f \in All(t), Undisturbed(f) PROVE OnTheWay(f, t)
  <2>1. OnTheWay(f, Push(a, t))
    BY <1>2, <1>3 DEF Tale
  <2>2. QED
    BY <1>2, <2>1 DEF OnTheWay
<1>4. QED
  BY <1>1, <1>3 DEF Tale

LEMMA TalePush ==
    ASSUME NEW a \in Frames, NEW t \in Seq(Frames), Tale(t), a.pc \in Quiet
    PROVE  Tale(Push(a, t))
<1>1. Guarded(Push(a, t))
  BY GuardedPush DEF Tale
<1>2. All(Push(a, t)) = {a} \cup All(t)
  BY AllPush
<1>3. ~Undisturbed(a)
  BY DEF Undisturbed, Moves, Transfer, Quiet, Leaving
<1>4. ASSUME NEW f \in All(Push(a, t)), Undisturbed(f) PROVE OnTheWay(f, Push(a, t))
  <2>1. OnTheWay(f, t)
    BY <1>2, <1>3, <1>4 DEF Tale
  <2>2. QED
    BY <1>2, <2>1 DEF OnTheWay
<1>5. QED
  BY <1>1, <1>4 DEF Tale

LEMMA TaleFrame ==
    ASSUME UNCHANGED <<life, place, master, calls>>, NEW s
    PROVE  Tale(s)' <=> Tale(s)
  BY DEF Tale, Guarded, OnTheWay, Undisturbed, Free, Exists, MapId, AttachedCritters

(* What a step leaves behind.                                              *)
LEMMA TaleStep ==
    ASSUME UNCHANGED calls, NEW s, stack' = s, Guarded(s),
           \A f \in All(s) : Undisturbed(f) => OnTheWay(f, s)'
    PROVE  Tale(stack)'
  BY DEF Tale, Guarded, Undisturbed

(* Who is below a call that does more than Quiet: only the transfer that   *)
(* the call belongs to.                                                    *)
LEMMA BelowMove ==
    ASSUME NEW a \in Frames, NEW t \in Seq(Frames), Guarded(Push(a, t)), a.pc \notin Quiet,
           NEW b \in All(t), Undisturbed(b)
    PROVE  Undisturbed(a) /\ Follower(a, b)
<1>1. PICK k \in 1..Len(t) : b = t[k]
  BY AllIs
<1>2. QED
  BY <1>1, GuardedPush

-----------------------------------------------------------------------------
(* What becomes of the calls under way.                                    *)
LEMMA AllConcat ==
    ASSUME NEW S, NEW s \in Seq(S), NEW t \in Seq(S)
    PROVE  All(s \o t) \subseteq All(s) \cup All(t)
<1> DEFINE r == s \o t
<1>1. /\ Len(s) \in Nat /\ Len(t) \in Nat /\ Len(r) = Len(s) + Len(t)
      /\ \A k \in 1..(Len(s) + Len(t)) : r[k] = IF k <= Len(s) THEN s[k] ELSE t[k - Len(s)]
  BY ConcatProperties, LenProperties
<1> HIDE DEF r
<1>2. ASSUME NEW k \in 1..Len(r) PROVE r[k] \in All(s) \cup All(t)
  <2>1. CASE k <= Len(s)
    <3>1. k \in 1..Len(s) /\ r[k] = s[k]
      BY <1>1, <2>1
    <3>2. QED
      BY <3>1 DEF All
  <2>2. CASE ~(k <= Len(s))
    <3>1. k - Len(s) \in 1..Len(t) /\ r[k] = t[k - Len(s)]
      BY <1>1, <2>2
    <3>2. QED
      BY <3>1 DEF All
  <2>3. QED
    BY <2>1, <2>2
<1>3. All(r) \subseteq All(s) \cup All(t)
  BY <1>2 DEF All
<1>4. QED
  BY <1>3 DEF r

LEMMA TopOfAll ==
    ASSUME IInv, Top.pc # "jobs", NEW t, t = Tail(stack)
    PROVE  /\ t \in Seq(Frames) /\ Top \in Frames /\ FrameOK(Top)
           /\ stack = Push(Top, t) /\ stack # <<>> /\ Top \in All(stack) /\ All(t) \subseteq All(stack)
<1>1. stack \in Seq(Frames) /\ stack # <<>> /\ Top = stack[1] /\ Top \in Frames /\ FrameOK(Top)
  BY TopLemma, StackIs DEF IInv
<1>2. t \in Seq(Frames) /\ stack = Push(Top, t)
  BY <1>1, SplitLemma
<1>3. PICK a \in Frames : a = Top
  BY <1>1
<1>4. All(Push(a, t)) = {a} \cup All(t)
  BY <1>2, AllPush
<1>5. QED
  BY <1>1, <1>2, <1>3, <1>4

(* The frames that a step adds are new, or go on for the innermost call.   *)
Kin(f) == f.since = 0 \/ (f.since = Top.since /\ (f.pc \in Moves => Top.pc \in Moves))

Descends == \A f \in All(stack') : f \in All(stack) \/ Kin(f)

LEMMA NoneDescend == IInv /\ Top.pc # "jobs" /\ GoTo(<<>>) => Descends
<1> SUFFICES ASSUME IInv, Top.pc # "jobs", GoTo(<<>>) PROVE Descends
  OBVIOUS
<1>1. PICK t : t = Tail(stack)
  OBVIOUS
<1>2. t \in Seq(Frames) /\ All(t) \subseteq All(stack)
  BY <1>1, TopOfAll
<1>3. stack' = t
  BY <1>1, <1>2, ConcatEmptySeq DEF GoTo
<1>4. QED
  BY <1>2, <1>3 DEF Descends

LEMMA OneDescends ==
    ASSUME IInv, Top.pc # "jobs", NEW f, GoTo(<<f>>), Kin(f)
    PROVE  Descends
<1>1. PICK t : t = Tail(stack)
  OBVIOUS
<1>2. t \in Seq(Frames) /\ All(t) \subseteq All(stack)
  BY <1>1, TopOfAll
<1> DEFINE S == Frames \cup {f}
<1>3. <<f>> \in Seq(S) /\ t \in Seq(S)
  BY <1>2, SeqMonotonic
<1>4. All(<<f>>) = {f}
  BY DEF All
<1>5. All(<<f>> \o t) \subseteq {f} \cup All(t)
  BY <1>3, <1>4, AllConcat
<1>6. QED
  BY <1>1, <1>2, <1>5 DEF Descends, GoTo

LEMMA TwoDescend ==
    ASSUME IInv, Top.pc # "jobs", NEW f, NEW g, GoTo(<<g, f>>), Kin(f), Kin(g)
    PROVE  Descends
<1>1. PICK t : t = Tail(stack)
  OBVIOUS
<1>2. t \in Seq(Frames) /\ All(t) \subseteq All(stack)
  BY <1>1, TopOfAll
<1> DEFINE S == Frames \cup {f, g}
<1>3. <<g, f>> \in Seq(S) /\ t \in Seq(S)
  BY <1>2, SeqMonotonic
<1>4. All(<<g, f>>) = {f, g}
  <2>1. Len(<<g, f>>) = 2 /\ <<g, f>>[1] = g /\ <<g, f>>[2] = f /\ 1..2 = {1, 2}
    OBVIOUS
  <2>2. QED
    BY <2>1 DEF All
<1>5. All(<<g, f>> \o t) \subseteq {f, g} \cup All(t)
  BY <1>3, <1>4, AllConcat
<1>6. QED
  BY <1>1, <1>2, <1>5 DEF Descends, GoTo

LEMMA AbortDescends == IInv /\ Abort => \A f \in All(stack') : f \in All(stack)
<1> SUFFICES ASSUME IInv, Abort PROVE \A f \in All(stack') : f \in All(stack)
  OBVIOUS
<1>1. stack \in Seq(Frames) /\ Len(stack) \in Nat
  BY StackIs, LenProperties
<1>2. CASE Callback = 0
  <2>1. stack' = <<>>
    BY <1>2 DEF Abort
  <2>2. QED
    BY <2>1 DEF All
<1>3. CASE Callback # 0
  <2>1. PICK n \in 1..Len(stack) : n = Callback
    BY <1>1, <1>3, CallbackLemma
  <2>2. PICK s : s = SubSeq(stack, n, Len(stack))
    OBVIOUS
  <2>3. /\ s \in Seq(Frames) /\ Len(s) = Len(stack) - n + 1
        /\ \A k \in 1..(Len(stack) - n + 1) : s[k] = stack[n + k - 1]
    BY <1>1, <2>2, SubSeqProperties
  <2>4. stack' = s
    BY <1>3, <2>1, <2>2 DEF Abort
  <2>5. ASSUME NEW k \in 1..Len(s) PROVE s[k] \in All(stack)
    <3>1. s[k] = stack[n + k - 1] /\ n + k - 1 \in 1..Len(stack)
      BY <1>1, <2>3
    <3>2. QED
      BY <3>1 DEF All
  <2>6. QED
    BY <2>4, <2>5 DEF All
<1>4. QED
  BY <1>2, <1>3

LEMMA KinLemma ==
    /\ \A pc, c : Kin(Frame(pc, c)) /\ \A x, y : Kin([Frame(pc, c) EXCEPT !.from = x])
    /\ Kin(Script)
    /\ \A c, x : Kin([Frame("transit", c) EXCEPT !.to = x])
    /\ Top \in Frames => Kin(Top)
    /\ Top \in Frames => \A pc : (pc \in Moves => Top.pc \in Moves) => Kin(Then(pc))
<1>1. Top \in Frames => \A pc : (pc \in Moves => Top.pc \in Moves) => Kin(Then(pc))
  BY DEF Kin, Then, Frames
<1>2. QED
  BY <1>1 DEF Kin, Frame, Script

LEMMA Descent == ASSUME IInv, Engine PROVE Descends
<1>1. Top.pc = "jobs" => FALSE
  BY DEF Engine, ScriptReturns, TransitLocked, Transit, Arrive, Arrived, Follow, Rejoin, Leave,
         Left, Gone, StartLook, Look, EndLook, MoveAttachedCritters, BeginDestroy, Round,
         DestroyInventory, TearOff, Detach, EndDestroy, Unload, Unloaded, ClearMap, ClearNpc,
         EndLocation, At
<1>2. Top \in Frames /\ Top.pc # "jobs"
  BY <1>1, TopOfAll
<1>3. CASE ScriptReturns \/ EndLook \/ EndDestroy \/ EndLocation
  BY <1>2, <1>3, NoneDescend DEF ScriptReturns, EndLook, EndDestroy, EndLocation
<1>4. CASE TransitLocked
  BY <1>4, AbortDescends DEF TransitLocked, Refuse, Descends
<1>5. CASE Transit
  <2>1. CASE Fail
    BY <2>1, AbortDescends DEF Fail, Descends
  <2>2. CASE ~Fail
    <3> DEFINE c == Top.c
               moved(pc) == [Top EXCEPT !.pc = pc, !.from = MapId(c),
                                        !.left = AttachedCritters(c), !.all = AttachedCritters(c)]
    <3>1. Top.pc \in Moves
      BY <1>5 DEF Transit, At, Moves
    <3>2. Kin(moved("arrive")) /\ Kin(moved("train"))
      BY <1>2, <3>1 DEF Kin, Frames
    <3>3. Kin(Frame("leave", c)) /\ Kin(Frame("look", c))
      BY KinLemma
    <3>4. \/ GoTo(<<Frame("leave", c), moved("arrive")>>)
          \/ GoTo(<<>> \o <<moved("train")>>)
          \/ GoTo(<<Frame("look", c)>> \o <<moved("train")>>)
      BY <1>5, <2>2 DEF Transit
    <3>5. PICK f1, f2, g1, g2 : f1 = moved("arrive") /\ f2 = moved("train")
                                /\ g1 = Frame("leave", c) /\ g2 = Frame("look", c)
      OBVIOUS
    <3> HIDE DEF moved
    <3>6. GoTo(<<g1, f1>>) \/ GoTo(<<f2>>) \/ GoTo(<<g2, f2>>)
      BY <3>4, <3>5, MaybeLemma
    <3>7. Kin(f1) /\ Kin(f2) /\ Kin(g1) /\ Kin(g2)
      BY <3>2, <3>3, <3>5
    <3>8. QED
      BY <1>2, <3>6, <3>7, OneDescends, TwoDescend
  <2>3. QED
    BY <2>1, <2>2
<1>6. CASE Arrive \/ Arrived
  <2>1. Top.pc \in Moves
    BY <1>6 DEF Arrive, Arrived, At, Moves, Transfer
  <2>2. Kin(Then("arrived")) /\ Kin(Then("train")) /\ Kin(Script) /\ Kin(Frame("look", Top.c))
    BY <1>2, <2>1, KinLemma
  <2>3. GoTo(<<>>) \/ GoTo(<<Script, Then("arrived")>>) \/ GoTo(<<Frame("look", Top.c), Then("train")>>)
    BY <1>6 DEF Arrive, Arrived
  <2>4. QED
    BY <1>2, <2>2, <2>3, NoneDescend, TwoDescend
<1>7. CASE Follow
  <2>1. Top.pc \in Moves
    BY <1>7 DEF Follow, At, Moves, Transfer
  <2>2. PICK a \in Top.left :
           GoTo((IF Follows(a) THEN <<[Frame("transit", a) EXCEPT !.to = Top.to, !.since = Top.since]>> ELSE <<>>)
                \o <<[Top EXCEPT !.left = @ \ {a}]>>)
    BY <1>7 DEF Follow
  <2>3. PICK u, f : u = [Frame("transit", a) EXCEPT !.to = Top.to, !.since = Top.since]
                    /\ f = [Top EXCEPT !.left = @ \ {a}]
    OBVIOUS
  <2>4. Kin(u) /\ Kin(f)
    BY <1>2, <2>1, <2>3 DEF Kin, Frame, Frames
  <2>5. GoTo(<<u>> \o <<f>>) \/ GoTo(<<>> \o <<f>>)
    BY <2>2, <2>3
  <2>6. GoTo(<<u, f>>) \/ GoTo(<<f>>)
    BY <2>5, MaybeLemma
  <2>7. QED
    BY <1>2, <2>4, <2>6, OneDescends, TwoDescend
<1>8. CASE Rejoin
  <2>1. GoTo(<<>>) \/ GoTo(<<Frame("move", Top.c), Frame("look", Top.c)>>)
    BY <1>8 DEF Rejoin
  <2>2. QED
    BY <1>2, <2>1, KinLemma, NoneDescend, TwoDescend
<1>9. CASE Leave
  <2>1. Kin([Then("left") EXCEPT !.from = place[Top.c]]) /\ Kin(Script)
    BY <1>2, KinLemma DEF Kin, Then, Frames, Moves, Transfer
  <2>2. Fail \/ GoTo(<<Script, [Then("left") EXCEPT !.from = place[Top.c]]>>)
    BY <1>9 DEF Leave
  <2>3. QED
    BY <1>2, <2>1, <2>2, TwoDescend, AbortDescends DEF Fail, Descends
<1>10. CASE Left
  <2>1. PICK f, u : f = Then("gone") /\ u = Script
    OBVIOUS
  <2>2. Kin(f) /\ Kin(u)
    BY <1>2, <2>1, KinLemma DEF Moves, Transfer
  <2>3. GoTo(<<u>> \o <<f>>) \/ GoTo(<<>> \o <<f>>)
    BY <1>10, <2>1 DEF Left
  <2>4. GoTo(<<u, f>>) \/ GoTo(<<f>>)
    BY <2>3, MaybeLemma
  <2>5. QED
    BY <1>2, <2>2, <2>4, OneDescends, TwoDescend
<1>11. CASE Gone
  <2>1. GoTo(<<>>) \/ Fail
    BY <1>11 DEF Gone
  <2>2. QED
    BY <1>2, <2>1, NoneDescend, AbortDescends DEF Fail, Descends
<1>12. CASE StartLook
  <2> DEFINE f == [Then("looking") EXCEPT !.to = place[Top.c], !.left = Pairs(Top.c, on[place[Top.c]])]
  <2>1. Kin(f)
    BY <1>2 DEF Kin, Then, Frames, Moves, Transfer
  <2>2. GoTo(<<>>) \/ GoTo(<<f>>) \/ Fail
    BY <1>12 DEF StartLook
  <2> HIDE DEF f
  <2>3. QED
    BY <1>2, <2>1, <2>2, NoneDescend, OneDescends, AbortDescends DEF Fail, Descends
<1>13. CASE Look
  <2>1. PICK p \in Top.left : GoTo(<<Script, [Top EXCEPT !.left = @ \ {p}]>>) \/ Fail
    BY <1>13 DEF Look
  <2>2. Kin([Top EXCEPT !.left = @ \ {p}]) /\ Kin(Script)
    BY <1>2, KinLemma DEF Kin, Frames
  <2>3. QED
    BY <1>2, <2>1, <2>2, TwoDescend, AbortDescends DEF Fail, Descends
<1>14. CASE MoveAttachedCritters
  <2> DEFINE looks == {[Frame("look", a) EXCEPT !.from = place[Top.c]] : a \in AttachedCritters(Top.c)}
  <2>1. GoTo(<<>>) \/ GoTo(SetToSeq(looks)) \/ Fail
    BY <1>14 DEF MoveAttachedCritters
  <2>2. CASE GoTo(SetToSeq(looks))
    <3>1. PICK t : t = Tail(stack)
      OBVIOUS
    <3>2. t \in Seq(Frames) /\ All(t) \subseteq All(stack)
      BY <1>2, <3>1, TopOfAll
    <3>3. IsFiniteSet(looks)
      <4> DEFINE A == AttachedCritters(Top.c)
                 f == [a \in A |-> [Frame("look", a) EXCEPT !.from = place[Top.c]]]
      <4>1. f \in Surjection(A, looks)
        BY DEF Surjection
      <4>2. A \in SUBSET Critters
        BY DEF AttachedCritters
      <4> HIDE DEF f, A, looks
      <4>3. IsFiniteSet(A)
        BY <4>2, CrittersAssumption, FS_Subset
      <4>4. QED
        BY <4>1, <4>3, FS_Surjection
    <3>4. \A f \in looks : Kin(f)
      BY KinLemma
    <3> HIDE DEF looks
    <3>5. PICK s : s = SetToSeq(looks)
      OBVIOUS
    <3>6. s \in Seq(looks)
      BY <3>3, <3>5, SetToSeqLemma
    <3> DEFINE S == looks \cup Frames
    <3>7. s \in Seq(S) /\ t \in Seq(S) /\ \A k \in 1..Len(s) : s[k] \in looks
      BY <3>2, <3>6, SeqMonotonic, LenProperties
    <3>8. All(s \o t) \subseteq All(s) \cup All(t)
      BY <3>7, AllConcat
    <3>9. All(s) \subseteq looks
      BY <3>7 DEF All
    <3>10. stack' = s \o t
      BY <2>2, <3>1, <3>5 DEF GoTo
    <3>11. QED
      BY <3>2, <3>4, <3>8, <3>9, <3>10 DEF Descends
  <2>3. QED
    BY <1>2, <2>1, <2>2, NoneDescend, AbortDescends DEF Fail, Descends
<1>15. CASE BeginDestroy \/ Round \/ DestroyInventory \/ Detach
  <2>1. Kin(Then("finish")) /\ Kin(Then("round")) /\ Kin(Then("tear")) /\ Kin(Top) /\ Kin(Script)
    BY <1>2, KinLemma DEF Moves, Transfer
  <2>2. \/ GoTo(<<>>) \/ GoTo(<<Script, Then("finish")>>) \/ GoTo(<<Then("round")>>)
        \/ GoTo(<<Script, Top>>) \/ GoTo(<<Then("tear")>>)
    BY <1>15 DEF BeginDestroy, Round, DestroyInventory, Detach
  <2>3. QED
    BY <1>2, <2>1, <2>2, NoneDescend, OneDescends, TwoDescend
<1>16. CASE TearOff \/ Unload \/ Unloaded
  <2>1. Kin(Then("detach")) /\ Kin(Then("unloaded")) /\ Kin(Frame("leave", Top.c))
    BY <1>2, KinLemma DEF Moves, Transfer
  <2>2. \/ GoTo(<<>>) \/ GoTo(<<Frame("leave", Top.c), Then("detach")>>)
        \/ GoTo(<<Frame("leave", Top.c), Then("unloaded")>>) \/ Fail
    BY <1>16 DEF TearOff, Unload, Unloaded
  <2>3. QED
    BY <1>2, <2>1, <2>2, NoneDescend, TwoDescend, AbortDescends DEF Fail, Descends
<1>17. CASE ClearMap
  <2>1. PICK m \in Top.left :
           LET here == [Top EXCEPT !.to = m] IN
           \/ \E p \in on[m] \cap Players : GoTo(<<[Frame("transit", p) EXCEPT !.to = Global], here>>)
           \/ GoTo(<<[here EXCEPT !.all = on[m]]>>)
           \/ Refuse
           \/ GoTo(<<[Top EXCEPT !.to = Nowhere, !.left = @ \ {m}]>>)
    BY <1>17 DEF ClearMap
  <2> DEFINE here == [Top EXCEPT !.to = m]
  <2>2. Kin(here) /\ Kin([here EXCEPT !.all = on[m]]) /\ Kin([Top EXCEPT !.to = Nowhere, !.left = @ \ {m}])
    BY <1>2 DEF Kin, Frames
  <2>3. \A p : Kin([Frame("transit", p) EXCEPT !.to = Global])
    BY KinLemma
  <2> HIDE DEF here
  <2>4. QED
    BY <1>2, <2>1, <2>2, <2>3, OneDescends, TwoDescend, AbortDescends DEF Refuse, Descends, here
<1>18. CASE ClearNpc
  <2>1. PICK n \in Top.all : GoTo(<<Frame("destroy", n), [Top EXCEPT !.all = @ \ {n}]>>) \/ Fail
    BY <1>18 DEF ClearNpc
  <2>2. Kin([Top EXCEPT !.all = @ \ {n}]) /\ Kin(Frame("destroy", n))
    BY <1>2, KinLemma DEF Kin, Frames
  <2>3. QED
    BY <1>2, <2>1, <2>2, TwoDescend, AbortDescends DEF Fail, Descends
<1>19. QED
  BY <1>3, <1>4, <1>5, <1>6, <1>7, <1>8, <1>9, <1>10, <1>11, <1>12, <1>13, <1>14, <1>15, <1>16,
     <1>17, <1>18 DEF Engine

-----------------------------------------------------------------------------
(* The steps of the calls under way.                                       *)
LEMMA EngineCalls == IInv /\ Engine => UNCHANGED calls /\ Top.pc # "jobs"
<1> SUFFICES ASSUME IInv, Engine PROVE UNCHANGED calls /\ Top.pc # "jobs"
  OBVIOUS
<1>1. Top.pc # "jobs"
  BY DEF Engine, ScriptReturns, TransitLocked, Transit, Arrive, Arrived, Follow, Rejoin, Leave,
         Left, Gone, StartLook, Look, EndLook, MoveAttachedCritters, BeginDestroy, Round,
         DestroyInventory, TearOff, Detach, EndDestroy, Unload, Unloaded, ClearMap, ClearNpc,
         EndLocation, At
<1>2. Fail \/ Refuse \/ \E frames : GoTo(frames)
  BY DEF Engine, ScriptReturns, TransitLocked, Transit, Arrive, Arrived, Follow, Rejoin, Leave,
         Left, Gone, StartLook, Look, EndLook, MoveAttachedCritters, BeginDestroy, Round,
         DestroyInventory, TearOff, Detach, EndDestroy, Unload, Unloaded, ClearMap, ClearNpc,
         EndLocation
<1>3. QED
  BY <1>1, <1>2 DEF Fail, Refuse, Abort, GoTo

LEMMA CountedEngine == IInv /\ Counted /\ Engine => Counted'
<1> SUFFICES ASSUME IInv, Counted, Engine PROVE Counted'
  OBVIOUS
<1>1. UNCHANGED calls /\ Top.pc # "jobs" /\ calls \in Nat
  BY EngineCalls DEF IInv, PlaceInv
<1>2. stack # <<>> /\ Top \in All(stack) /\ calls > 0
  BY <1>1, TopOfAll DEF Counted
<1>3. \A f \in All(stack') : f.since <= calls
  BY <1>1, <1>2, Descent DEF Descends, Kin, Counted
<1>4. QED
  BY <1>1, <1>2, <1>3 DEF Counted

(* No step disturbs less.                                                  *)
LEMMA NoneUndisturbed ==
    ASSUME IInv, Counted, Engine, \A f \in All(stack) : ~Undisturbed(f)
    PROVE  Tale(stack)'
<1>1. UNCHANGED calls /\ Top.pc # "jobs" /\ calls \in Nat
  BY EngineCalls DEF IInv, PlaceInv
<1>2. Top \in All(stack) /\ calls > 0
  BY <1>1, TopOfAll DEF Counted
<1>3. \A f \in All(stack') : f \in All(stack) \/ Kin(f)
  BY Descent DEF Descends
<1>4. \A f \in All(stack') : ~Undisturbed(f)
  BY <1>1, <1>2, <1>3 DEF Kin, Undisturbed
<1>5. PICK s : s = stack'
  OBVIOUS
<1>6. Guarded(s) /\ \A f \in All(s) : ~Undisturbed(f)
  BY <1>4, <1>5, NoTale DEF Tale
<1>7. QED
  BY <1>1, <1>5, <1>6, TaleStep

(* The transfer of one that follows ends, or goes on.                      *)
LEMMA MotherOnTheWay ==
    ASSUME IInv, NEW a \in Frames, NEW t \in Seq(Frames), Tale(Push(a, t)), a.pc \notin Quiet,
           NEW b \in All(t), Undisturbed(b), FrameOK(b),
           UNCHANGED <<life, calls>>,
           \A d \in Critters : master[d] = Nowhere => master'[d] = Nowhere,
           \A d \in Critters : AttachedCritters(d) = {} => AttachedCritters(d)' = {},
           \A d \in Critters : d # a.c => place'[d] = place[d],
           NEW s, All(t) \subseteq All(s),
           place'[a.c] = a.to \/ \E f \in All(s) : Undisturbed(f) /\ Follower(f, b) /\ f.c = a.c
    PROVE  OnTheWay(b, s)'
<1>1. Undisturbed(a) /\ Follower(a, b)
  BY BelowMove DEF Tale
<1>2. b.pc = "train" /\ a.c \in b.all \ b.left /\ a.to = b.to /\ b.c # a.c /\ b.c \in Critters
  BY <1>1 DEF Follower, FrameOK
<1>3. b \in All(Push(a, t)) /\ All(Push(a, t)) = {a} \cup All(t)
  BY AllPush
<1>4. OnTheWay(b, Push(a, t))
  BY <1>3 DEF Tale
<1>5. /\ b.left \subseteq b.all /\ b.all \subseteq Critters
      /\ Free(b.c) /\ \A d \in b.all : Free(d)
      /\ \A d \in b.left : MapId(d) = b.from
      /\ \A d \in b.all \ b.left :
           place[d] = b.to \/ \E g \in All(Push(a, t)) : Undisturbed(g) /\ Follower(g, b) /\ g.c = d
      /\ place[b.c] = b.to
  BY <1>2, <1>4 DEF OnTheWay, Transfer
<1>6. \A d \in Critters : Free(d) => Free(d)'
  BY DEF Free, Exists
<1>7. \A d \in b.left : MapId(d)' = b.from
  BY <1>2, <1>5 DEF MapId
<1>8. ASSUME NEW d \in b.all \ b.left
      PROVE  place'[d] = b.to \/ \E g \in All(s) : Undisturbed(g) /\ Follower(g, b) /\ g.c = d
  <2>1. CASE d = a.c
    BY <1>2, <2>1
  <2>2. CASE d # a.c
    <3>1. place'[d] = place[d]
      BY <1>5, <2>2
    <3>2. ASSUME NEW g \in All(Push(a, t)), g.c = d PROVE g \in All(s)
      BY <1>3, <2>2, <3>2
    <3>3. QED
      BY <1>5, <3>1, <3>2
  <2>3. QED
    BY <2>1, <2>2
<1>9. place'[b.c] = b.to
  BY <1>2, <1>5
<1>10. \A g : Undisturbed(g)' <=> Undisturbed(g)
  BY DEF Undisturbed
<1>11. /\ Free(b.c)' /\ \A d \in b.all : Free(d)'
  BY <1>2, <1>5, <1>6
<1>12. QED
  BY <1>5, <1>7, <1>8, <1>9, <1>10, <1>11 DEF OnTheWay

(* A frame that goes on for another one follows as that one did.           *)
LEMMA GuardedNext ==
    ASSUME NEW a \in Frames, NEW f \in Frames, NEW t \in Seq(Frames), Guarded(Push(a, t)),
           a.pc \notin Quiet, Undisturbed(f),
           \A b \in All(t) : Undisturbed(b) /\ Follower(a, b) => Follower(f, b)
    PROVE  Guarded(Push(f, t))
<1>1. Guarded(t)
  BY GuardedPush
<1>2. ASSUME NEW k \in 1..Len(t), Undisturbed(t[k]) PROVE Follower(f, t[k]) /\ k = 1
  <2>1. Follower(a, t[k]) /\ k = 1
    BY <1>2, GuardedPush
  <2>2. t[k] \in All(t)
    BY DEF All
  <2>3. QED
    BY <1>2, <2>1, <2>2
<1>3. QED
  BY <1>1, <1>2, GuardedPush

LEMMA QuietTale ==
    ASSUME IInv, Tale(stack), Top.pc \in Quiet, UNCHANGED <<life, place, master, calls>>,
           NEW t, t = Tail(stack),
           \/ stack' = t
           \/ \E f \in Frames : f.pc \in Quiet /\ stack' = Push(f, t)
           \/ \E f \in Frames, g \in Frames :
                f.pc \in Quiet /\ g.pc \in Quiet /\ stack' = Push(g, Push(f, t))
    PROVE  Tale(stack)'
<1>1. Top.pc # "jobs" /\ ~Undisturbed(Top)
  BY DEF Quiet, Leaving, Undisturbed, Moves, Transfer
<1>2. t \in Seq(Frames) /\ Top \in Frames /\ stack = Push(Top, t)
  BY <1>1, TopOfAll
<1>3. PICK a \in Frames : a = Top
  BY <1>2
<1>4. Tale(Push(a, t))
  BY <1>2, <1>3
<1>5. Tale(t)
  BY <1>1, <1>2, <1>3, <1>4, TalePop
<1>6. ASSUME NEW f \in Frames, f.pc \in Quiet PROVE Tale(Push(f, t)) /\ Push(f, t) \in Seq(Frames)
  BY <1>2, <1>5, <1>6, TalePush, PushLemma
<1>7. ASSUME NEW f \in Frames, NEW g \in Frames, f.pc \in Quiet, g.pc \in Quiet
      PROVE  Tale(Push(g, Push(f, t)))
  BY <1>6, <1>7, TalePush
<1>8. PICK s : stack' = s /\ Tale(s)
  BY <1>5, <1>6, <1>7
<1>9. Tale(s)'
  BY <1>8, TaleFrame
<1>10. QED
  BY <1>8, <1>9

LEMMA QuietForms ==
    ASSUME IInv, Top.pc # "jobs", NEW t, t = Tail(stack)
    PROVE  /\ GoTo(<<>>) => stack' = t
           /\ \A f \in Frames : GoTo(<<f>>) => stack' = Push(f, t)
           /\ \A f, g \in Frames : GoTo(<<g, f>>) => stack' = Push(g, Push(f, t))
<1>1. t \in Seq(Frames)
  BY TopOfAll
<1>2. GoTo(<<>>) => stack' = t
  BY <1>1, ConcatEmptySeq DEF GoTo
<1>3. \A f \in Frames : <<f>> \o t = Push(f, t)
  BY DEF Push
<1>4. \A f, g \in Frames : <<g, f>> \o t = Push(g, Push(f, t))
  BY <1>1, PushTwo
<1>5. QED
  BY <1>2, <1>3, <1>4 DEF GoTo

LEMMA NotFailed == Sound' => ~Fail
  BY DEF Sound, Fail

LEMMA LeaveTale ==
    ASSUME IInv, Sound, Sound', Tale(stack), Leave \/ Left
    PROVE  Tale(stack)'
<1>1. Top.pc \in {"leave", "left"} /\ Top.pc \in Quiet /\ Top.pc # "jobs" /\ ~Fail
  BY NotFailed DEF Leave, Left, At, Quiet, Leaving
<1>2. PICK t : t = Tail(stack)
  OBVIOUS
<1>3. Top \in Frames /\ Top.c \in Critters
  BY <1>1, <1>2, TopOfAll DEF FrameOK
<1>4. UNCHANGED <<life, place, master, calls>>
  BY <1>1 DEF Leave, Left, critters, GoTo
<1>5. Script \in Frames /\ Script.pc \in Quiet
  BY ScriptLemma DEF Quiet
<1>6. CASE Leave
  <2> DEFINE h == [Then("left") EXCEPT !.from = place[Top.c]]
  <2>1. h \in Frames /\ h.pc = "left"
    <3>1. place[Top.c] \in Places /\ "left" \in Pcs
      BY <1>3 DEF IInv, PlaceInv, Pcs
    <3>2. QED
      BY <1>3, <3>1 DEF Then, Frames
  <2>2. GoTo(<<Script, h>>)
    BY <1>1, <1>6 DEF Leave
  <2>3. PICK f \in Frames : f = h /\ f.pc \in Quiet
    BY <2>1 DEF Quiet, Leaving
  <2> HIDE DEF h
  <2>4. stack' = Push(Script, Push(f, t))
    BY <1>1, <1>2, <1>5, <2>2, <2>3, QuietForms
  <2>5. QED
    BY <1>1, <1>2, <1>4, <1>5, <2>3, <2>4, QuietTale
<1>7. CASE Left
  <2>1. PICK f \in Frames : f = Then("gone") /\ f.pc = "gone"
    BY <1>3, ThenFrame DEF Pcs
  <2>2. f.pc \in Quiet
    BY <2>1 DEF Quiet, Leaving
  <2>3. GoTo(<<Script>> \o <<f>>) \/ GoTo(<<>> \o <<f>>)
    BY <1>7, <2>1 DEF Left
  <2>4. GoTo(<<Script, f>>) \/ GoTo(<<f>>)
    BY <2>3, MaybeLemma
  <2>5. stack' = Push(Script, Push(f, t)) \/ stack' = Push(f, t)
    BY <1>1, <1>2, <1>5, <2>4, QuietForms
  <2>6. QED
    BY <1>1, <1>2, <1>4, <1>5, <2>2, <2>5, QuietTale
<1>8. QED
  BY <1>6, <1>7

LEMMA LookTale ==
    ASSUME IInv, Sound, Sound', Tale(stack), ScriptReturns \/ StartLook \/ Look \/ EndLook
    PROVE  Tale(stack)'
<1>1. Top.pc \in {"script", "look", "looking"} /\ Top.pc \in Quiet /\ Top.pc # "jobs" /\ ~Fail
  BY NotFailed DEF ScriptReturns, StartLook, Look, EndLook, At, Quiet
<1>2. PICK t : t = Tail(stack)
  OBVIOUS
<1>3. Top \in Frames /\ FrameOK(Top)
  BY <1>1, <1>2, TopOfAll
<1>4. UNCHANGED <<life, place, master, calls>>
  BY <1>1 DEF ScriptReturns, StartLook, Look, EndLook, critters, GoTo
<1>5. Script \in Frames /\ Script.pc \in Quiet
  BY ScriptLemma DEF Quiet
<1>6. CASE GoTo(<<>>)
  BY <1>1, <1>2, <1>4, <1>6, QuietForms, QuietTale
<1>7. CASE ~GoTo(<<>>) /\ StartLook
  <2> DEFINE c == Top.c
             h == [Then("looking") EXCEPT !.to = place[c], !.left = Pairs(c, on[place[c]])]
  <2>1. place[c] \in Maps /\ c \in Critters /\ GoTo(<<h>>)
    BY <1>1, <1>3, <1>7 DEF StartLook, FrameOK, At
  <2>2. Pairs(c, on[place[c]]) \subseteq Others
    BY <2>1 DEF Pairs, IInv, PlaceInv, Others
  <2>3. h \in Frames /\ h.pc = "looking"
    <3>1. /\ Pairs(c, on[place[c]]) \in SUBSET Things /\ place[c] \in Places /\ "looking" \in Pcs
      BY <2>1, <2>2 DEF Things, Places, Pcs, Others
    <3>2. PICK q \in SUBSET Things, m \in Places : q = Pairs(c, on[place[c]]) /\ m = place[c]
      BY <3>1
    <3>3. PICK k \in Frames : k = Then("looking") /\ k.pc = "looking" /\ k.c = c
      BY <1>3, <3>1, ThenFrame
    <3>4. h = [k EXCEPT !.to = m, !.left = q]
      BY <3>2, <3>3
    <3>5. QED
      BY <3>2, <3>3, <3>4 DEF Frames
  <2>4. PICK f \in Frames : f = h /\ f.pc \in Quiet
    BY <2>3 DEF Quiet
  <2> HIDE DEF h
  <2>5. stack' = Push(f, t)
    BY <1>1, <1>2, <2>1, <2>4, QuietForms
  <2>6. QED
    BY <1>1, <1>2, <1>4, <2>4, <2>5, QuietTale
<1>8. CASE ~GoTo(<<>>) /\ Look
  <2>1. PICK p \in Top.left : GoTo(<<Script, [Top EXCEPT !.left = @ \ {p}]>>)
    BY <1>1, <1>8 DEF Look
  <2> DEFINE h == [Top EXCEPT !.left = @ \ {p}]
  <2>2. h \in Frames /\ h.pc = Top.pc
    BY <1>3 DEF Frames
  <2>3. PICK f \in Frames : f = h /\ f.pc \in Quiet
    BY <1>1, <2>2
  <2>4. stack' = Push(Script, Push(f, t))
    BY <1>1, <1>2, <1>5, <2>1, <2>3, QuietForms
  <2>5. QED
    BY <1>1, <1>2, <1>4, <1>5, <2>3, <2>4, QuietTale
<1>9. QED
  BY <1>6, <1>7, <1>8 DEF ScriptReturns, EndLook

(* The critter is nowhere: the transfer under way is about to put it where *)
(* it goes.                                                                *)
LEMMA GoneTale ==
    ASSUME IInv, Sound, Sound', Tale(stack), Gone
    PROVE  Tale(stack)'
<1>1. Top.pc = "gone" /\ Top.pc \in Leaving /\ Top.pc \in Quiet /\ Top.pc # "jobs" /\ ~Fail
      /\ ~Undisturbed(Top)
  BY NotFailed DEF Gone, At, Quiet, Leaving, Undisturbed, Moves, Transfer
<1>2. PICK t, a, c : t = Tail(stack) /\ a = Top /\ c = Top.c
  OBVIOUS
<1>3. /\ t \in Seq(Frames) /\ a \in Frames /\ c \in Critters /\ a.c = c
      /\ stack = Push(a, t) /\ Chain(Push(a, t))
      /\ \A f \in All(t) : f \in Frames /\ FrameOK(f)
  BY <1>1, <1>2, Setting DEF FrameOK, Sound
<1>4. /\ place' = [place EXCEPT ![c] = Nowhere] /\ GoTo(<<>>)
      /\ UNCHANGED <<life, master, calls>>
  BY <1>1, <1>2 DEF Gone, GoTo
<1>5. stack' = t
  BY <1>1, <1>2, <1>4, QuietForms
<1>6. \A d \in Critters : d # c => place'[d] = place[d]
  BY <1>3, <1>4 DEF IInv, PlaceInv
<1>7. Tale(t)
  BY <1>1, <1>2, <1>3, TalePop
<1>8. t # <<>> /\ t[1] \in All(t) /\ t[1].pc \in Base /\ t[1].c = c
  BY <1>1, <1>2, <1>3, OneLeaves
<1>9. PICK u \in Frames, r \in Seq(Frames) : u = t[1] /\ t = Push(u, r) /\ u.pc \in Base /\ u.c = c
  BY <1>3, <1>8, SplitLemma
<1>10. u.pc \notin Quiet /\ All(t) = {u} \cup All(r)
  BY <1>9, AllPush DEF Base, Quiet, Leaving
<1>11. Guarded(t)
  BY <1>7 DEF Tale
<1>12. ASSUME NEW b \in All(r), Undisturbed(b) PROVE OnTheWay(b, t)'
  <2>1. Undisturbed(u) /\ Follower(u, b)
    BY <1>9, <1>10, <1>11, <1>12, BelowMove
  <2>2. u \in All(t) /\ FrameOK(b) /\ All(r) \subseteq All(t)
    BY <1>3, <1>10
  <2>3. \A d \in Critters : AttachedCritters(d) = {} => AttachedCritters(d)' = {}
    BY <1>4 DEF AttachedCritters
  <2>4. /\ \A d \in Critters : master[d] = Nowhere => master'[d] = Nowhere
        /\ UNCHANGED <<life, calls>>
    BY <1>4
  <2>5. \E f \in All(t) : Undisturbed(f) /\ Follower(f, b) /\ f.c = u.c
    BY <2>1, <2>2
  <2>6. \A d \in Critters : d # u.c => place'[d] = place[d]
    BY <1>6, <1>9
  <2>7. Tale(Push(u, r))
    BY <1>7, <1>9
  <2>8. QED
    BY <1>10, <1>12, <2>2, <2>3, <2>4, <2>5, <2>6, <2>7, MotherOnTheWay
<1>13. ASSUME Undisturbed(u) PROVE OnTheWay(u, t)'
  <2>1. u.pc = "arrive" /\ FrameOK(u)
    BY <1>3, <1>8, <1>9, <1>13 DEF Base, Undisturbed, Moves, Transfer
  <2>2. OnTheWay(u, t)
    BY <1>7, <1>10, <1>13 DEF Tale
  <2>3. c \notin u.all
    BY <1>9, <2>1 DEF FrameOK
  <2>4. \A d \in Critters : Free(d) => Free(d)'
    BY <1>4 DEF Free, Exists, AttachedCritters
  <2>5. /\ u.left \subseteq u.all /\ u.all \subseteq Critters
        /\ Free(u.c) /\ \A d \in u.all : Free(d)
        /\ \A d \in u.left : MapId(d) = u.from
        /\ \A d \in u.all \ u.left : place[d] = u.to
    BY <2>1, <2>2 DEF OnTheWay, Transfer, Follower
  <2>6. \A d \in u.left : MapId(d)' = u.from
    BY <1>6, <2>3, <2>5 DEF MapId
  <2>7. \A d \in u.all \ u.left : place'[d] = u.to
    BY <1>6, <2>3, <2>5
  <2>8. Free(u.c)' /\ \A d \in u.all : Free(d)'
    BY <1>3, <1>9, <2>4, <2>5
  <2>9. QED
    BY <2>1, <2>5, <2>6, <2>7, <2>8 DEF OnTheWay
<1>14. \A b \in All(t) : Undisturbed(b) => OnTheWay(b, t)'
  BY <1>10, <1>12, <1>13
<1>15. QED
  BY <1>4, <1>5, <1>11, <1>14, TaleStep

-----------------------------------------------------------------------------
(* The steps of a transfer that nobody has disturbed.                      *)
LEMMA MovingOn ==
    ASSUME IInv, Sound, Tale(stack), Undisturbed(Top)
    PROVE  \E t \in Seq(Frames), a \in Frames :
             /\ t = Tail(stack) /\ a = Top /\ stack = Push(a, t) /\ Tale(Push(a, t))
             /\ Undisturbed(a) /\ a.pc \in Moves /\ a.pc \notin Quiet /\ a.pc \notin {"script", "jobs"}
             /\ FrameOK(a) /\ a.c \in Critters /\ a.to \in Maps \cup {Global}
             /\ Promise(a) /\ OnTheWay(a, Push(a, t)) /\ Chain(Push(a, t))
             /\ \A b \in All(t) : /\ FrameOK(b) /\ b \in Frames
                                  /\ Undisturbed(b) => Follower(a, b) /\ OnTheWay(b, Push(a, t))
<1>1. Top.pc \in Moves /\ Top.pc # "jobs"
  BY DEF Undisturbed, Moves, Transfer
<1>2. PICK t, a : t = Tail(stack) /\ a = Top
  OBVIOUS
<1>3. /\ t \in Seq(Frames) /\ a \in Frames /\ stack = Push(a, t) /\ FrameOK(a) /\ Promise(a)
      /\ \A b \in All(t) : FrameOK(b) /\ b \in Frames
  BY <1>1, <1>2, Setting
<1>4. a.pc \in Moves /\ a.pc \notin Quiet /\ a.pc \notin {"script", "jobs"} /\ Undisturbed(a)
  BY <1>1, <1>2 DEF Moves, Transfer, Quiet, Leaving
<1>5. a.c \in Critters /\ a.to \in Maps \cup {Global}
  BY <1>3, <1>4 DEF FrameOK, Moves, Transfer
<1>6. All(Push(a, t)) = {a} \cup All(t)
  BY <1>3, AllPush
<1>7. Tale(Push(a, t)) /\ Guarded(Push(a, t)) /\ OnTheWay(a, Push(a, t))
      /\ \A b \in All(t) : Undisturbed(b) => OnTheWay(b, Push(a, t))
  BY <1>3, <1>4, <1>6 DEF Tale
<1>8. \A b \in All(t) : Undisturbed(b) => Follower(a, b)
  BY <1>3, <1>4, <1>7, BelowMove
<1>9. Chain(Push(a, t))
  BY <1>3 DEF Sound
<1>10. QED
  BY <1>2, <1>3, <1>4, <1>5, <1>7, <1>8, <1>9

LEMMA NextFrame ==
    ASSUME Top \in Frames, NEW pc \in Pcs
    PROVE  \E f \in Frames : /\ f = Then(pc) /\ f.pc = pc /\ f.c = Top.c /\ f.from = Top.from
                             /\ f.to = Top.to /\ f.left = Top.left /\ f.all = Top.all
                             /\ f.since = Top.since
<1> DEFINE f == Then(pc)
<1>1. /\ f \in Frames /\ f.pc = pc /\ f.c = Top.c /\ f.from = Top.from
      /\ f.to = Top.to /\ f.left = Top.left /\ f.all = Top.all /\ f.since = Top.since
  BY DEF Then, Frames
<1>2. QED
  BY <1>1

(* Nobody but those who have followed is still on the way while a transfer *)
(* is the innermost call.                                                  *)
LEMMA AllBehind ==
    ASSUME NEW a \in Frames, NEW t \in Seq(Frames), a.c \in Critters,
           \A b \in All(t) : Undisturbed(b) => Follower(a, b),
           OnTheWay(a, Push(a, t)), a.pc \in Transfer, FrameOK(a)
    PROVE  \A d \in a.all \ a.left : place[d] = a.to
<1>1. All(Push(a, t)) = {a} \cup All(t)
  BY AllPush
<1>2. ASSUME NEW d \in a.all \ a.left, NEW g \in All(Push(a, t)), Undisturbed(g), Follower(g, a), g.c = d
      PROVE  FALSE
  <2>1. CASE g = a
    BY <1>2, <2>1 DEF FrameOK, Transfer
  <2>2. CASE g # a
    <3>1. Follower(a, g)
      BY <1>1, <1>2, <2>2
    <3>2. QED
      BY <1>2, <3>1 DEF Follower
  <2>3. QED
    BY <2>1, <2>2
<1>3. QED
  BY <1>2 DEF OnTheWay

LEMMA ArriveTale ==
    ASSUME IInv, Sound, Tale(stack), Undisturbed(Top), Arrive
    PROVE  Tale(stack)'
<1>1. PICK t \in Seq(Frames), a \in Frames :
         /\ t = Tail(stack) /\ a = Top /\ stack = Push(a, t) /\ Tale(Push(a, t))
         /\ Undisturbed(a) /\ a.pc \in Moves /\ a.pc \notin Quiet /\ a.pc \notin {"script", "jobs"}
         /\ FrameOK(a) /\ a.c \in Critters /\ a.to \in Maps \cup {Global}
         /\ Promise(a) /\ OnTheWay(a, Push(a, t)) /\ Chain(Push(a, t))
         /\ \A b \in All(t) : /\ FrameOK(b) /\ b \in Frames
                              /\ Undisturbed(b) => Follower(a, b) /\ OnTheWay(b, Push(a, t))
  BY MovingOn
<1>2. a.pc = "arrive" /\ a.pc \in Transfer
  BY <1>1 DEF Arrive, At, Transfer
<1>3. PICK f \in Frames : /\ f = Then("arrived") /\ f.pc = "arrived" /\ f.c = a.c /\ f.from = a.from
                          /\ f.to = a.to /\ f.left = a.left /\ f.all = a.all /\ f.since = a.since
  BY <1>1, NextFrame DEF Pcs
<1>4. Script \in Frames /\ Script.pc = "script" /\ Script.pc \in Quiet
  BY ScriptLemma DEF Quiet
<1>5. /\ stack' = Push(Script, Push(f, t)) /\ UNCHANGED <<life, master, calls>>
      /\ place' = [place EXCEPT ![a.c] = a.to]
  BY <1>1, <1>3, <1>4, QuietForms DEF Arrive, GoTo
<1>6. place'[a.c] = a.to /\ \A d \in Critters : d # a.c => place'[d] = place[d]
  BY <1>1, <1>5 DEF IInv, PlaceInv
<1>7. PICK v : v = Push(f, t)
  OBVIOUS
<1>8. v \in Seq(Frames) /\ All(v) = {f} \cup All(t)
  BY <1>3, <1>7, AllPush, PushLemma
<1>9. Undisturbed(f)
  BY <1>1, <1>3 DEF Undisturbed, Moves, Transfer
<1>10. \A b : Follower(a, b) => Follower(f, b)
  BY <1>3 DEF Follower
<1>11. Guarded(v)
  BY <1>1, <1>7, <1>9, <1>10, GuardedNext DEF Tale
<1>12. PICK s : s = Push(Script, v)
  OBVIOUS
<1>13. All(s) = {Script} \cup All(v)
  BY <1>4, <1>8, <1>12, AllPush
<1>14. Guarded(s)
  BY <1>4, <1>8, <1>11, <1>12, GuardedPush
<1>15. \A d \in Critters : Free(d) => Free(d)'
  BY <1>5 DEF Free, Exists, AttachedCritters
<1>16. OnTheWay(f, s)'
  <2>1. \A d \in a.all \ a.left : place[d] = a.to
    BY <1>1, <1>2, AllBehind
  <2>2. /\ a.left \subseteq a.all /\ a.all \subseteq Critters
        /\ Free(a.c) /\ \A d \in a.all : Free(d)
        /\ \A d \in a.left : MapId(d) = a.from
    BY <1>1, <1>2 DEF OnTheWay
  <2>3. a.c \notin a.all
    BY <1>1, <1>2 DEF FrameOK
  <2>4. \A d \in a.left : MapId(d)' = a.from
    BY <1>6, <2>2, <2>3 DEF MapId
  <2>5. \A d \in a.all \ a.left : place'[d] = a.to
    BY <1>6, <2>1, <2>2, <2>3
  <2>6. Free(a.c)' /\ \A d \in a.all : Free(d)'
    BY <1>1, <1>15, <2>2
  <2>7. QED
    BY <1>3, <1>6, <2>2, <2>4, <2>5, <2>6 DEF OnTheWay
<1>17. ASSUME NEW b \in All(t), Undisturbed(b) PROVE OnTheWay(b, s)'
  <2>1. All(t) \subseteq All(s) /\ FrameOK(b)
    BY <1>1, <1>8, <1>13
  <2>2. /\ \A d \in Critters : master[d] = Nowhere => master'[d] = Nowhere
        /\ \A d \in Critters : AttachedCritters(d) = {} => AttachedCritters(d)' = {}
        /\ UNCHANGED <<life, calls>>
    BY <1>5 DEF AttachedCritters
  <2>3. QED
    BY <1>1, <1>6, <1>17, <2>1, <2>2, MotherOnTheWay
<1>18. ~Undisturbed(Script)
  BY <1>4 DEF Undisturbed, Moves, Transfer
<1>19. \A b \in All(s) : Undisturbed(b) => OnTheWay(b, s)'
  BY <1>8, <1>13, <1>16, <1>17, <1>18
<1>20. QED
  BY <1>5, <1>7, <1>12, <1>14, <1>19, TaleStep

LEMMA ArrivedTale ==
    ASSUME IInv, Sound, Tale(stack), Undisturbed(Top), Arrived
    PROVE  Tale(stack)'
<1>1. PICK t \in Seq(Frames), a \in Frames :
         /\ t = Tail(stack) /\ a = Top /\ stack = Push(a, t) /\ Tale(Push(a, t))
         /\ Undisturbed(a) /\ a.pc \in Moves /\ a.pc \notin Quiet /\ a.pc \notin {"script", "jobs"}
         /\ FrameOK(a) /\ a.c \in Critters /\ a.to \in Maps \cup {Global}
         /\ Promise(a) /\ OnTheWay(a, Push(a, t)) /\ Chain(Push(a, t))
         /\ \A b \in All(t) : /\ FrameOK(b) /\ b \in Frames
                              /\ Undisturbed(b) => Follower(a, b) /\ OnTheWay(b, Push(a, t))
  BY MovingOn
<1>2. a.pc = "arrived" /\ a.pc \in Transfer
  BY <1>1 DEF Arrived, At, Transfer
<1>3. PICK f \in Frames : /\ f = Then("train") /\ f.pc = "train" /\ f.c = a.c /\ f.from = a.from
                          /\ f.to = a.to /\ f.left = a.left /\ f.all = a.all /\ f.since = a.since
  BY <1>1, NextFrame DEF Pcs
<1>4. PICK g \in Frames : g = Frame("look", a.c) /\ g.pc = "look" /\ g.pc \in Quiet
  BY <1>1, FrameLemma DEF Quiet
<1>5. Exists(a.c)
  BY <1>1, <1>2 DEF OnTheWay, Free
<1>6. stack' = Push(g, Push(f, t)) /\ UNCHANGED <<life, place, master, calls>>
  BY <1>1, <1>3, <1>4, <1>5, QuietForms DEF Arrived, GoTo, critters
<1>7. Tale(Push(f, t))
  <2>1. Undisturbed(f)
    BY <1>1, <1>3 DEF Undisturbed, Moves, Transfer
  <2>2. \A b : Follower(a, b) => Follower(f, b)
    BY <1>3 DEF Follower
  <2>3. Guarded(Push(f, t))
    BY <1>1, <2>1, <2>2, GuardedNext DEF Tale
  <2>4. All(Push(f, t)) = {f} \cup All(t) /\ All(Push(a, t)) = {a} \cup All(t)
    BY AllPush
  <2>5. OnTheWay(f, Push(f, t))
    <3>1. \A d \in a.all \ a.left : place[d] = a.to
      BY <1>1, <1>2, AllBehind
    <3>2. /\ a.left \subseteq a.all /\ a.all \subseteq Critters
          /\ Free(a.c) /\ \A d \in a.all : Free(d)
          /\ \A d \in a.left : MapId(d) = a.from
          /\ place[a.c] = a.to
      BY <1>1, <1>2 DEF OnTheWay
    <3>3. QED
      BY <1>3, <3>1, <3>2 DEF OnTheWay
  <2>6. ASSUME NEW b \in All(t), Undisturbed(b) PROVE OnTheWay(b, Push(f, t))
    <3>1. OnTheWay(b, Push(a, t)) /\ Follower(a, b)
      BY <1>1, <2>6
    <3>2. \A d : a.c = d => f.c = d /\ Undisturbed(f) /\ Follower(f, b)
      BY <1>3, <2>1, <2>2, <3>1
    <3>3. QED
      BY <2>4, <3>1, <3>2 DEF OnTheWay
  <2>7. QED
    BY <2>3, <2>4, <2>5, <2>6 DEF Tale
<1>8. Push(f, t) \in Seq(Frames)
  BY PushLemma
<1>9. PICK s : s = Push(g, Push(f, t)) /\ Tale(s)
  BY <1>4, <1>7, <1>8, TalePush
<1>10. Tale(s)'
  BY <1>6, <1>9, TaleFrame
<1>11. QED
  BY <1>6, <1>9, <1>10

LEMMA TransitLockedTale ==
    ASSUME IInv, Sound, Counted, Tale(stack), Undisturbed(Top), TransitLocked
    PROVE  Tale(stack)'
<1>1. Top.pc = "transit" /\ Abort /\ UNCHANGED calls
  BY DEF TransitLocked, At, Refuse, Abort
<1>2. stack \in Seq(Frames) /\ Len(stack) \in Nat /\ stack # <<>> /\ Top = stack[1]
  BY <1>1, StackIs, LenProperties, TopLemma DEF IInv
<1>3. Len(stack) # 0
  BY <1>2, EmptySeq
<1>4. ASSUME NEW k \in 1..Len(stack), k > 2 PROVE ~Undisturbed(stack[k])
  <2>1. 1 \in 1..Len(stack) /\ 1 < k /\ k # 1 + 1
    BY <1>2, <1>3, <1>4
  <2>2. stack[1].pc \notin Quiet
    BY <1>1, <1>2 DEF Quiet, Leaving
  <2>3. QED
    BY <2>1, <2>2 DEF Tale, Guarded
<1>5. \A f \in All(stack') : ~Undisturbed(f)
  <2>1. CASE Callback = 0
    <3>1. stack' = <<>>
      BY <1>1, <2>1 DEF Abort
    <3>2. QED
      BY <3>1 DEF All
  <2>2. CASE Callback # 0
    <3>1. PICK n \in 1..Len(stack) : n = Callback /\ stack[n].pc = "script"
      BY <1>2, <2>2, CallbackLemma
    <3>2. n # 1
      BY <1>1, <1>2, <3>1
    <3>3. PICK s : s = SubSeq(stack, n, Len(stack))
      OBVIOUS
    <3>4. /\ s \in Seq(Frames) /\ Len(s) = Len(stack) - n + 1
          /\ \A k \in 1..(Len(stack) - n + 1) : s[k] = stack[n + k - 1]
      BY <1>2, <3>3, SubSeqProperties
    <3>5. stack' = s
      BY <1>1, <2>2, <3>1, <3>3 DEF Abort
    <3>6. ASSUME NEW k \in 1..Len(s) PROVE ~Undisturbed(s[k])
      <4>1. s[k] = stack[n + k - 1] /\ n + k - 1 \in 1..Len(stack)
        BY <1>2, <3>4
      <4>2. CASE k = 1
        <5>1. s[k].pc = "script"
          BY <3>1, <4>1, <4>2
        <5>2. QED
          BY <5>1 DEF Undisturbed, Moves, Transfer
      <4>3. CASE k # 1
        <5>1. n + k - 1 > 2
          BY <3>2, <3>4, <4>3
        <5>2. QED
          BY <1>4, <4>1, <5>1
      <4>4. QED
        BY <4>2, <4>3
    <3>7. QED
      BY <3>5, <3>6 DEF All
  <2>3. QED
    BY <2>1, <2>2
<1>6. PICK s : s = stack'
  OBVIOUS
<1>7. Guarded(s) /\ \A f \in All(s) : ~Undisturbed(f)
  BY <1>5, <1>6, NoTale DEF Tale
<1>8. QED
  BY <1>1, <1>6, <1>7, TaleStep

LEMMA TransitTale ==
    ASSUME IInv, Sound, Sound', Tale(stack), Undisturbed(Top), Transit
    PROVE  Tale(stack)'
<1>1. PICK t \in Seq(Frames), a \in Frames :
         /\ t = Tail(stack) /\ a = Top /\ stack = Push(a, t) /\ Tale(Push(a, t))
         /\ Undisturbed(a) /\ a.pc \in Moves /\ a.pc \notin Quiet /\ a.pc \notin {"script", "jobs"}
         /\ FrameOK(a) /\ a.c \in Critters /\ a.to \in Maps \cup {Global}
         /\ Promise(a) /\ OnTheWay(a, Push(a, t)) /\ Chain(Push(a, t))
         /\ \A b \in All(t) : /\ FrameOK(b) /\ b \in Frames
                              /\ Undisturbed(b) => Follower(a, b) /\ OnTheWay(b, Push(a, t))
  BY MovingOn
<1>2. a.pc = "transit" /\ Top.pc # "jobs" /\ Calm /\ ~Fail /\ Exists(a.c)
  <2>1. a.pc = "transit" /\ Top.pc \notin Base \cup {"tear", "jobs"}
    BY <1>1 DEF Transit, At, Base
  <2>2. QED
    BY <1>1, <2>1, CalmTop, NotFailed DEF Promise
<1>3. PICK c \in Critters : c = a.c
  BY <1>1
<1> DEFINE A == AttachedCritters(c)
           moved(pc) == [Top EXCEPT !.pc = pc, !.from = MapId(c), !.left = A, !.all = A]
<1>4. ASSUME NEW pc \in {"arrive", "train"}
      PROVE  /\ moved(pc) \in Frames /\ moved(pc).pc = pc /\ moved(pc).c = c
             /\ moved(pc).from = MapId(c) /\ moved(pc).to = a.to /\ moved(pc).since = a.since
             /\ moved(pc).left = A /\ moved(pc).all = A
  <2>1. pc \in Pcs
    BY DEF Pcs
  <2>2. /\ MapId(c) \in Places /\ A \in SUBSET Things
    BY DEF MapId, AttachedCritters, Places, Things, IInv, PlaceInv
  <2>3. QED
    BY <1>1, <1>3, <2>1, <2>2 DEF Frames
<1>5. PICK g1 \in Frames, g2 \in Frames :
         /\ g1 = Frame("leave", c) /\ g2 = Frame("look", c) /\ g1.pc \in Quiet /\ g2.pc \in Quiet
  BY FrameLemma DEF Quiet, Leaving
<1>6. PICK f1 \in Frames, f2 \in Frames : f1 = moved("arrive") /\ f2 = moved("train")
  BY <1>4
<1>7. /\ master' = Alone(c) /\ UNCHANGED <<life, place, calls>>
      /\ \/ GoTo(<<g1, f1>>)
         \/ a.to = place[c] /\ (GoTo(<<g2>> \o <<f2>>) \/ GoTo(<<>> \o <<f2>>))
  BY <1>1, <1>2, <1>3, <1>5, <1>6 DEF Transit, GoTo
<1>8. PICK f \in Frames :
        /\ f.pc \in {"arrive", "train"} /\ f.c = c /\ f.from = MapId(c) /\ f.to = a.to
        /\ f.since = a.since /\ f.left = A /\ f.all = A
        /\ f.pc = "train" => a.to = place[c]
        /\ GoTo(<<f>>) \/ GoTo(<<g1, f>>) \/ GoTo(<<g2, f>>)
  <2>1. /\ f1.pc = "arrive" /\ f1.c = c /\ f1.from = MapId(c) /\ f1.to = a.to
        /\ f1.since = a.since /\ f1.left = A /\ f1.all = A
        /\ f2.pc = "train" /\ f2.c = c /\ f2.from = MapId(c) /\ f2.to = a.to
        /\ f2.since = a.since /\ f2.left = A /\ f2.all = A
    BY <1>4, <1>6
  <2>2. \/ GoTo(<<g1, f1>>)
        \/ a.to = place[c] /\ (GoTo(<<g2, f2>>) \/ GoTo(<<f2>>))
    BY <1>7, MaybeLemma
  <2>3. QED
    BY <2>1, <2>2
<1> HIDE DEF moved
<1>9. PICK v : v = Push(f, t)
  OBVIOUS
<1>10. v \in Seq(Frames) /\ All(v) = {f} \cup All(t)
  BY <1>9, AllPush, PushLemma
<1>11. stack' = v \/ stack' = Push(g1, v) \/ stack' = Push(g2, v)
  BY <1>1, <1>2, <1>8, <1>9, QuietForms
<1>12. Undisturbed(f) /\ f.pc \in Transfer
  BY <1>1, <1>8 DEF Undisturbed, Moves, Transfer
<1>13. ASSUME NEW b \in All(t), Undisturbed(b) PROVE Follower(f, b) /\ f.c = a.c
  <2>1. Follower(a, b) /\ OnTheWay(b, Push(a, t))
    BY <1>1, <1>13
  <2>2. Free(c)
    BY <1>3, <2>1 DEF Follower, OnTheWay, Transfer
  <2>3. A = {}
    BY <2>2 DEF Free
  <2>4. QED
    BY <1>3, <1>8, <2>1, <2>3 DEF Follower
<1>14. Guarded(v)
  BY <1>1, <1>9, <1>12, <1>13, GuardedNext DEF Tale
<1>15. PICK s : /\ stack' = s /\ Guarded(s) /\ All(s) \subseteq {g1, g2} \cup All(v) /\ All(v) \subseteq All(s)
  <2>1. ASSUME NEW g \in {g1, g2} PROVE Guarded(Push(g, v)) /\ All(Push(g, v)) = {g} \cup All(v)
    BY <1>5, <1>10, <1>14, <2>1, GuardedPush, AllPush
  <2>2. QED
    BY <1>11, <1>14, <2>1
<1>16. /\ A \subseteq Critters /\ c \notin A
       /\ \A d \in A : master[d] = c /\ d # Nowhere /\ c # Nowhere
  BY PlacesAssumption DEF AttachedCritters, IInv, SortInv
<1>17. \A d \in A : Exists(d) /\ MapId(d) = MapId(c) /\ AttachedCritters(d) = {}
  <2>1. ASSUME NEW d \in A PROVE Exists(d) /\ MapId(d) = MapId(c)
    BY <1>2, <1>16 DEF Calm, Attached
  <2>2. ASSUME NEW d \in A, NEW e \in AttachedCritters(d) PROVE FALSE
    <3>1. e \in Critters /\ master[e] = d /\ d # Nowhere
      BY <1>16, <2>2 DEF AttachedCritters
    <3>2. master[d] = Nowhere
      BY <1>2, <3>1 DEF Calm, Attached
    <3>3. QED
      BY <1>16, <3>2
  <2>3. QED
    BY <2>1, <2>2
<1>18. /\ master'[c] = Nowhere /\ AttachedCritters(c)' = {}
       /\ \A d \in Critters : master[d] = Nowhere => master'[d] = Nowhere
       /\ \A d \in Critters : AttachedCritters(d) = {} => AttachedCritters(d)' = {}
       /\ \A d \in A : master'[d] = Nowhere
  BY <1>7, <1>16, AloneFacts DEF Alone
<1>19. OnTheWay(f, s)'
  <2>1. Free(c)'
    BY <1>2, <1>3, <1>7, <1>18 DEF Free, Exists
  <2>2. ASSUME NEW d \in A PROVE Free(d)' /\ MapId(d)' = MapId(c)
    BY <1>7, <1>16, <1>17, <1>18 DEF Free, Exists, MapId
  <2>3. f.pc = "train" => place'[c] = f.to
    BY <1>7, <1>8
  <2> HIDE DEF A
  <2>4. QED
    BY <1>8, <1>16, <2>1, <2>2, <2>3 DEF OnTheWay
<1>20. ASSUME NEW b \in All(t), Undisturbed(b) PROVE OnTheWay(b, s)'
  <2>1. All(t) \subseteq All(s) /\ f \in All(s) /\ FrameOK(b)
    BY <1>1, <1>10, <1>15
  <2>2. \E g \in All(s) : Undisturbed(g) /\ Follower(g, b) /\ g.c = a.c
    BY <1>12, <1>13, <1>20, <2>1
  <2>3. \A d \in Critters : d # a.c => place'[d] = place[d]
    BY <1>7
  <2>4. UNCHANGED <<life, calls>>
    BY <1>7
  <2> HIDE DEF A
  <2>5. QED
    BY <1>1, <1>18, <1>20, <2>1, <2>2, <2>3, <2>4, MotherOnTheWay
<1>21. ~Undisturbed(g1) /\ ~Undisturbed(g2)
  BY <1>5 DEF Undisturbed, Moves, Transfer, Quiet, Leaving
<1>22. \A b \in All(s) : Undisturbed(b) => OnTheWay(b, s)'
  BY <1>10, <1>15, <1>19, <1>20, <1>21
<1>23. QED
  BY <1>7, <1>15, <1>22, TaleStep

LEMMA FollowTale ==
    ASSUME IInv, Sound, Tale(stack), Undisturbed(Top), Follow
    PROVE  Tale(stack)'
<1>1. PICK t \in Seq(Frames), a \in Frames :
         /\ t = Tail(stack) /\ a = Top /\ stack = Push(a, t) /\ Tale(Push(a, t))
         /\ Undisturbed(a) /\ a.pc \in Moves /\ a.pc \notin Quiet /\ a.pc \notin {"script", "jobs"}
         /\ FrameOK(a) /\ a.c \in Critters /\ a.to \in Maps \cup {Global}
         /\ Promise(a) /\ OnTheWay(a, Push(a, t)) /\ Chain(Push(a, t))
         /\ \A b \in All(t) : /\ FrameOK(b) /\ b \in Frames
                              /\ Undisturbed(b) => Follower(a, b) /\ OnTheWay(b, Push(a, t))
  BY MovingOn
<1>2. a.pc = "train" /\ a.pc \in Transfer /\ a.left \subseteq Critters
  BY <1>1 DEF Follow, At, Transfer, FrameOK
<1>3. PICK x \in a.left :
         GoTo((IF Follows(x) THEN <<[Frame("transit", x) EXCEPT !.to = Top.to, !.since = Top.since]>> ELSE <<>>)
              \o <<[Top EXCEPT !.left = @ \ {x}]>>)
  BY <1>1 DEF Follow
<1>4. x \in Critters
  BY <1>2
<1>5. /\ a.left \subseteq a.all /\ a.all \subseteq Critters
      /\ Free(a.c) /\ \A d \in a.all : Free(d)
      /\ \A d \in a.left : MapId(d) = a.from
      /\ place[a.c] = a.to
  BY <1>1, <1>2 DEF OnTheWay
<1>6. Follows(x)
  BY <1>1, <1>5 DEF Follows, Free
<1> DEFINE g == [Frame("transit", x) EXCEPT !.to = Top.to, !.since = Top.since]
           h == [Top EXCEPT !.left = @ \ {x}]
<1>7. /\ g \in Frames /\ g.pc = "transit" /\ g.c = x /\ g.to = a.to /\ g.since = a.since
      /\ g.left = {} /\ g.all = {}
  <2>1. a.to \in Places /\ a.since \in Nat /\ "transit" \in Pcs /\ Nowhere \in Places
    BY <1>1 DEF Frames, Pcs, Places
  <2>2. QED
    BY <1>1, <1>4, <2>1 DEF Frames, Frame
<1>8. /\ h \in Frames /\ h.pc = "train" /\ h.c = a.c /\ h.to = a.to /\ h.from = a.from
      /\ h.all = a.all /\ h.left = a.left \ {x} /\ h.since = a.since
  BY <1>1, <1>2 DEF Frames
<1>9. PICK u \in Frames, f \in Frames :
         /\ u = g /\ u.pc = "transit" /\ u.c = x /\ u.to = a.to /\ u.since = a.since
         /\ u.left = {} /\ u.all = {}
         /\ f = h /\ f.pc = "train" /\ f.c = a.c /\ f.to = a.to /\ f.from = a.from
         /\ f.all = a.all /\ f.left = a.left \ {x} /\ f.since = a.since
  BY <1>7, <1>8
<1> HIDE DEF g, h
<1>10. GoTo(<<u>> \o <<f>>)
  BY <1>3, <1>6, <1>9 DEF g, h
<1>11. GoTo(<<u, f>>)
  BY <1>10, MaybeLemma
<1>12. stack' = Push(u, Push(f, t)) /\ UNCHANGED <<life, place, master, calls>>
  BY <1>1, <1>11, QuietForms DEF Follow, GoTo, critters
<1>13. \A b \in All(t) : ~Undisturbed(b)
  <2>1. a.left # {}
    OBVIOUS
  <2>2. QED
    BY <1>1, <2>1 DEF Follower
<1>14. Undisturbed(f) /\ Undisturbed(u) /\ Follower(u, f)
  BY <1>1, <1>5, <1>9 DEF Undisturbed, Moves, Transfer, Follower
<1>15. PICK v \in Seq(Frames) : v = Push(f, t) /\ All(v) = {f} \cup All(t)
  <2>1. Push(f, t) \in Seq(Frames)
    BY PushLemma
  <2>2. All(Push(f, t)) = {f} \cup All(t)
    BY AllPush
  <2>3. QED
    BY <2>1, <2>2
<1>16. Guarded(v)
  BY <1>1, <1>14, <1>15, <1>13, GuardedNext DEF Tale
<1>17. PICK s : s = Push(u, v)
  OBVIOUS
<1>18. All(s) = {u, f} \cup All(t)
  BY <1>15, <1>17, AllPush
<1>19. Guarded(s)
  <2>1. /\ Len(t) \in Nat /\ Len(v) = Len(t) + 1 /\ v[1] = f /\ \A k \in 1..Len(t) : v[k + 1] = t[k]
    BY <1>15, PushLemma
  <2>2. ASSUME NEW k \in 1..Len(v), Undisturbed(v[k]) PROVE k = 1
    <3>1. CASE k # 1
      <4>1. k - 1 \in 1..Len(t) /\ k = (k - 1) + 1
        BY <2>1, <3>1
      <4>2. v[k] = t[k - 1] /\ t[k - 1] \in All(t)
        BY <2>1, <4>1 DEF All
      <4>3. QED
        BY <1>13, <2>2, <4>2
    <3>2. QED
      BY <3>1
  <2>3. QED
    BY <1>14, <1>15, <1>16, <1>17, <2>1, <2>2, GuardedPush
<1>20. OnTheWay(f, s)
  <2>1. \A d \in a.all \ a.left : place[d] = a.to
    BY <1>1, <1>2, AllBehind
  <2>2. u \in All(s)
    BY <1>18
  <2>3. \A d \in f.all \ f.left :
          place[d] = f.to \/ \E e \in All(s) : Undisturbed(e) /\ Follower(e, f) /\ e.c = d
    BY <1>9, <1>14, <2>1, <2>2
  <2>4. QED
    BY <1>5, <1>9, <2>3 DEF OnTheWay
<1>21. OnTheWay(u, s)
  BY <1>9 DEF OnTheWay, Transfer
<1>22. Tale(s)
  BY <1>13, <1>18, <1>19, <1>20, <1>21 DEF Tale
<1>23. Tale(s)'
  BY <1>12, <1>22, TaleFrame
<1>24. QED
  BY <1>12, <1>15, <1>17, <1>23

LEMMA RejoinTale ==
    ASSUME IInv, Sound, Counted, Tale(stack), Undisturbed(Top), Rejoin
    PROVE  Tale(stack)'
<1>1. PICK t \in Seq(Frames), a \in Frames :
         /\ t = Tail(stack) /\ a = Top /\ stack = Push(a, t) /\ Tale(Push(a, t))
         /\ Undisturbed(a) /\ a.pc \in Moves /\ a.pc \notin Quiet /\ a.pc \notin {"script", "jobs"}
         /\ FrameOK(a) /\ a.c \in Critters /\ a.to \in Maps \cup {Global}
         /\ Promise(a) /\ OnTheWay(a, Push(a, t)) /\ Chain(Push(a, t))
         /\ \A b \in All(t) : /\ FrameOK(b) /\ b \in Frames
                              /\ Undisturbed(b) => Follower(a, b) /\ OnTheWay(b, Push(a, t))
  BY MovingOn
<1>2. a.pc = "train" /\ a.pc \in Transfer
  BY <1>1 DEF Rejoin, At, Transfer
<1>3. Free(a.c) /\ place[a.c] = a.to
  BY <1>1, <1>2 DEF OnTheWay
<1>4. UNCHANGED <<life, place, calls>>
  BY DEF Rejoin, GoTo
<1>5. CASE a.all # {}
  <2>1. GoTo(<<Frame("move", a.c), Frame("look", a.c)>>)
    BY <1>1, <1>3, <1>5 DEF Rejoin, Free
  <2>2. PICK g \in Frames, f \in Frames : /\ g = Frame("move", a.c) /\ g.pc = "move"
                                          /\ f = Frame("look", a.c) /\ f.pc = "look"
    BY <1>1, LookPromise
  <2>3. stack' = Push(g, Push(f, t))
    BY <1>1, <2>1, <2>2, QuietForms
  <2>4. PICK v \in Seq(Frames) : v = Push(f, t) /\ All(v) = {f} \cup All(t)
    <3>1. Push(f, t) \in Seq(Frames)
      BY PushLemma
    <3>2. All(Push(f, t)) = {f} \cup All(t)
      BY AllPush
    <3>3. QED
      BY <3>1, <3>2
  <2>5. PICK s : s = Push(g, v)
    OBVIOUS
  <2>6. All(s) = {g, f} \cup All(t)
    BY <2>4, <2>5, AllPush
  <2>7. \A b \in All(t) : ~Undisturbed(b)
    BY <1>1, <1>5 DEF Follower
  <2>8. ~Undisturbed(g) /\ ~Undisturbed(f)
    BY <2>2 DEF Undisturbed, Moves, Transfer
  <2>9. \A b \in All(s) : ~Undisturbed(b)
    BY <2>6, <2>7, <2>8
  <2>10. Guarded(s)
    BY <2>9, NoTale DEF Tale
  <2>11. QED
    BY <1>4, <2>3, <2>4, <2>5, <2>9, <2>10, TaleStep
<1>6. CASE a.all = {}
  <2>1. GoTo(<<>>) /\ UNCHANGED master
    BY <1>1, <1>6 DEF Rejoin
  <2>2. stack' = t
    BY <1>1, <2>1, QuietForms
  <2>3. Guarded(t)
    BY <1>1, GuardedPush DEF Tale
  <2>4. ASSUME NEW b \in All(t), Undisturbed(b) PROVE OnTheWay(b, t)'
    <3>1. /\ \A d \in Critters : master[d] = Nowhere => master'[d] = Nowhere
          /\ \A d \in Critters : AttachedCritters(d) = {} => AttachedCritters(d)' = {}
          /\ \A d \in Critters : d # a.c => place'[d] = place[d]
          /\ UNCHANGED <<life, calls>> /\ place'[a.c] = a.to
      BY <1>3, <1>4, <2>1 DEF AttachedCritters
    <3>2. FrameOK(b) /\ All(t) \subseteq All(t)
      BY <1>1
    <3>3. QED
      BY <1>1, <2>4, <3>1, <3>2, MotherOnTheWay
  <2>5. QED
    BY <1>4, <2>2, <2>3, <2>4, TaleStep
<1>7. QED
  BY <1>5, <1>6

-----------------------------------------------------------------------------
(* While a transfer is undisturbed the innermost call is one of those that *)
(* may be above it, or an undisturbed transfer itself.                     *)
LEMMA TaleEngine ==
    ASSUME IInv, Sound, Sound', Counted, Tale(stack), Engine
    PROVE  Tale(stack)'
<1>1. CASE \A f \in All(stack) : ~Undisturbed(f)
  BY <1>1, NoneUndisturbed
<1>2. CASE \E b \in All(stack) : Undisturbed(b)
  <2>1. Top.pc \in Quiet \/ Undisturbed(Top)
    <3>1. Top.pc # "jobs"
      BY EngineCalls
    <3>2. PICK t, a : t = Tail(stack) /\ a = Top
      OBVIOUS
    <3>3. t \in Seq(Frames) /\ a \in Frames /\ stack = Push(a, t)
      BY <3>1, <3>2, TopOfAll
    <3>4. All(stack) = {a} \cup All(t)
      BY <3>3, AllPush
    <3>5. Guarded(Push(a, t))
      BY <3>3 DEF Tale
    <3>6. QED
      BY <1>2, <3>2, <3>3, <3>4, <3>5, BelowMove
  <2>2. CASE Top.pc \in Quiet
    <3>1. Leave \/ Left \/ ScriptReturns \/ StartLook \/ Look \/ EndLook \/ Gone
      BY <2>2 DEF Quiet, Leaving, Engine, TransitLocked, Transit, Arrive, Arrived, Follow, Rejoin,
         MoveAttachedCritters, BeginDestroy, Round, DestroyInventory, TearOff, Detach, EndDestroy,
         Unload, Unloaded, ClearMap, ClearNpc, EndLocation, At
    <3>2. QED
      BY <3>1, LeaveTale, LookTale, GoneTale
  <2>3. CASE Undisturbed(Top)
    <3>1. Top.pc \in {"transit", "arrive", "arrived", "train"}
      BY <2>3 DEF Undisturbed, Moves, Transfer
    <3>2. TransitLocked \/ Transit \/ Arrive \/ Arrived \/ Follow \/ Rejoin
      BY <3>1 DEF Engine, ScriptReturns, Leave, Left, Gone, StartLook, Look, EndLook,
         MoveAttachedCritters, BeginDestroy, Round, DestroyInventory, TearOff, Detach, EndDestroy,
         Unload, Unloaded, ClearMap, ClearNpc, EndLocation, At
    <3>3. QED
      BY <2>3, <3>2, TransitLockedTale, TransitTale, ArriveTale, ArrivedTale, FollowTale, RejoinTale
  <2>4. QED
    BY <2>1, <2>2, <2>3
<1>3. QED
  BY <1>1, <1>2

(* A call disturbs every transfer there is.                                *)
LEMMA CallTale ==
    ASSUME IInv, calls \in Nat, Counted, calls' = calls + 1, NEW s, stack' = s, Len(s) \in Nat,
           \A k \in 1..Len(s) : \/ s[k].since = 0
                                \/ s[k] \in All(stack)
                                \/ k = 1 /\ s[k].pc = "transit" /\ s[k].since = calls + 1
    PROVE  Counted' /\ Tale(stack)'
<1>1. \A f \in All(stack) : f.since <= calls /\ f.since \in Nat
  <2>1. stack \in Seq(Frames)
    BY StackIs
  <2>2. \A f \in All(stack) : f \in Frames
    BY <2>1 DEF All
  <2>3. QED
    BY <2>2 DEF Counted, Frames
<1>2. calls' > 0 /\ calls' \in Nat /\ \A n \in Nat : n <= calls => n <= calls' /\ n # calls'
  OBVIOUS
<1>3. \A f \in All(s) : f.since <= calls'
  <2>1. 0 <= calls' /\ calls + 1 <= calls'
    BY <1>2
  <2>2. QED
    BY <1>1, <1>2, <2>1 DEF All
<1>4. Counted'
  BY <1>2, <1>3 DEF Counted
<1>5. ASSUME NEW k \in 1..Len(s), Undisturbed(s[k])' PROVE k = 1 /\ s[k].pc = "transit"
  <2>1. s[k].since = calls'
    BY <1>5 DEF Undisturbed
  <2>2. QED
    BY <1>1, <1>2, <2>1
<1>6. Guarded(s)'
  BY <1>5 DEF Guarded
<1>7. ASSUME NEW f \in All(s), Undisturbed(f)' PROVE OnTheWay(f, s)'
  <2>1. PICK k \in 1..Len(s) : f = s[k]
    BY AllIs
  <2>2. f.pc = "transit"
    BY <1>5, <1>7, <2>1
  <2>3. QED
    BY <2>2 DEF OnTheWay, Transfer
<1>8. QED
  BY <1>4, <1>6, <1>7 DEF Tale

LEMMA CallOneTale ==
    ASSUME IInv, Counted, NEW f \in Frames, Call(<<f>>),
           f.since = 0 \/ (f.pc = "transit" /\ f.since = calls + 1)
    PROVE  Counted' /\ Tale(stack)'
<1>1. PICK t : t = stack
  OBVIOUS
<1>2. t \in Seq(Frames)
  BY <1>1, StackIs
<1>3. PICK s : s = Push(f, t)
  OBVIOUS
<1>4. stack' = s /\ calls' = calls + 1 /\ calls \in Nat
  BY <1>1, <1>3, CallForms DEF Call, IInv, PlaceInv
<1>5. Len(t) \in Nat /\ Len(s) = Len(t) + 1 /\ s[1] = f /\ \A k \in 1..Len(t) : s[k + 1] = t[k]
  BY <1>2, <1>3, PushLemma
<1>6. ASSUME NEW k \in 1..Len(s), k # 1 PROVE s[k] \in All(t)
  <2>1. k - 1 \in 1..Len(t) /\ k = (k - 1) + 1
    BY <1>5, <1>6
  <2>2. s[k] = t[k - 1]
    BY <1>5, <2>1
  <2>3. QED
    BY <2>1, <2>2 DEF All
<1>7. Len(s) \in Nat
  BY <1>5
<1>8. QED
  BY <1>1, <1>4, <1>5, <1>6, <1>7, CallTale

LEMMA CallTwoTale ==
    ASSUME IInv, Counted, NEW f \in Frames, NEW g \in Frames, Call(<<g, f>>),
           f.since = 0, g.since = 0
    PROVE  Counted' /\ Tale(stack)'
<1>1. PICK t : t = stack
  OBVIOUS
<1>2. t \in Seq(Frames)
  BY <1>1, StackIs
<1>3. PICK v, s : v = Push(f, t) /\ s = Push(g, v)
  OBVIOUS
<1>4. stack' = s /\ calls' = calls + 1 /\ calls \in Nat
  BY <1>1, <1>3, CallForms DEF Call, IInv, PlaceInv
<1>5. v \in Seq(Frames) /\ All(v) = {f} \cup All(t)
  BY <1>2, <1>3, PushLemma, AllPush
<1>6. All(s) = {g, f} \cup All(t) /\ Len(s) \in Nat
  <2>1. All(s) = {g} \cup All(v)
    BY <1>3, <1>5, AllPush
  <2>2. s \in Seq(Frames)
    BY <1>3, <1>5, PushLemma
  <2>3. QED
    BY <1>5, <2>1, <2>2, LenProperties
<1>7. ASSUME NEW k \in 1..Len(s) PROVE s[k] \in All(s)
  BY DEF All
<1>8. QED
  BY <1>1, <1>4, <1>6, <1>7, CallTale

LEMMA FrameSince ==
    /\ \A pc, c : Frame(pc, c).since = 0
    /\ Script.since = 0
  BY DEF Frame, Script

LEMMA TaleScripts ==
    ASSUME IInv, Counted, Scripts
    PROVE  Counted' /\ Tale(stack)'
<1>1. Script \in Frames /\ Script.since = 0
  BY ScriptLemma, FrameSince
<1>2. ASSUME NEW c \in Critters, NEW pc \in {"look", "move", "destroy", "unload"}
      PROVE  Frame(pc, c) \in Frames /\ Frame(pc, c).since = 0
  BY <1>2, FrameLemma, FrameSince
<1>3. ASSUME NEW c \in Critters, NEW to \in Maps \cup {Global}, TransitTo(c, to)
      PROVE  Counted' /\ Tale(stack)'
  <2> DEFINE f == [Frame("transit", c) EXCEPT !.to = to, !.since = calls + 1]
  <2>1. f \in Frames /\ f.pc = "transit" /\ f.since = calls + 1
    <3>1. Frame("transit", c) \in Frames /\ Frame("transit", c).pc = "transit"
      BY FrameLemma
    <3>2. calls + 1 \in Nat /\ to \in Places
      BY DEF IInv, PlaceInv, Places
    <3>3. QED
      BY <3>1, <3>2 DEF Frames
  <2>2. Call(<<f>>)
    BY <1>3 DEF TransitTo
  <2> HIDE DEF f
  <2>3. QED
    BY <2>1, <2>2, CallOneTale
<1>4. ASSUME NEW c \in Critters, NEW cr \in Critters, AttachToCritter(c, cr)
      PROVE  Counted' /\ Tale(stack)'
  <2>1. Call(<<Frame("look", c), Frame("move", cr)>>)
    BY <1>4 DEF AttachToCritter
  <2>2. QED
    BY <1>2, <2>1, CallTwoTale
<1>5. ASSUME NEW c \in Critters, DetachFromCritter(c)
      PROVE  Counted' /\ Tale(stack)'
  <2>1. Call(<<Frame("look", c)>>)
    BY <1>5 DEF DetachFromCritter
  <2>2. QED
    BY <1>2, <2>1, CallOneTale
<1>6. ASSUME NEW c \in Critters, AddItem(c)
      PROVE  Counted' /\ Tale(stack)'
  <2>1. Call(<<Script>>)
    BY <1>6 DEF AddItem
  <2>2. QED
    BY <1>1, <2>1, CallOneTale
<1>7. ASSUME NEW c \in Critters, UnloadCritter(c)
      PROVE  Counted' /\ Tale(stack)'
  <2>1. Call(<<Script, Frame("unload", c)>>)
    BY <1>7 DEF UnloadCritter
  <2>2. QED
    BY <1>1, <1>2, <2>1, CallTwoTale
<1>8. ASSUME NEW c \in Npcs, DestroyCritter(c)
      PROVE  Counted' /\ Tale(stack)'
  <2>1. c \in Critters
    BY DEF Critters
  <2>2. Call(<<Frame("destroy", c)>>)
    BY <1>8 DEF DestroyCritter
  <2>3. QED
    BY <1>2, <2>1, <2>2, CallOneTale
<1>9. ASSUME DestroyLocation
      PROVE  Counted' /\ Tale(stack)'
  <2> DEFINE f == [Frame("clear", Nowhere) EXCEPT !.left = Maps]
  <2>1. f \in Frames /\ f.since = 0
    <3>1. "clear" \in Pcs /\ Nowhere \in Places /\ {} \in SUBSET Things /\ Maps \in SUBSET Things
      BY DEF Places, Pcs, Things
    <3>2. QED
      BY <3>1 DEF Frame, Frames
  <2>2. Call(<<Script, f>>)
    BY <1>9 DEF DestroyLocation
  <2> HIDE DEF f
  <2>3. QED
    BY <1>1, <2>1, <2>2, CallTwoTale
<1>10. QED
  BY <1>3, <1>4, <1>5, <1>6, <1>7, <1>8, <1>9 DEF Scripts

LEMMA WholeInit == Init => WholeInv
<1> SUFFICES ASSUME Init PROVE WholeInv
  OBVIOUS
<1>1. PICK s : s = <<>>
  OBVIOUS
<1>2. stack = s /\ All(s) = {}
  BY <1>1 DEF Init, All
<1>3. Counted
  BY <1>1, <1>2 DEF Counted
<1>4. Tale(s)
  BY <1>2, NoTale
<1>5. QED
  BY <1>2, <1>3, <1>4, OrderInit DEF WholeInv

LEMMA WholeStep == WholeInv /\ [Next]_vars => WholeInv'
<1> SUFFICES ASSUME WholeInv, [Next]_vars PROVE WholeInv'
  OBVIOUS
<1>1. OrderInv /\ OrderInv' /\ IInv /\ Counted
  BY OrderStep DEF WholeInv, OrderInv
<1>2. CASE UNCHANGED vars
  <2>1. UNCHANGED <<life, place, master, calls>> /\ stack' = stack
    BY <1>2 DEF vars, critters
  <2>2. broken' <=> broken
    BY <1>2 DEF vars
  <2>3. Counted'
    BY <1>1, <2>1 DEF Counted
  <2>4. PICK s : s = stack
    OBVIOUS
  <2>5. Tale(s)' <=> Tale(s)
    BY <2>1, TaleFrame
  <2>6. Tale(stack)' <=> Tale(stack)
    BY <2>1, <2>4, <2>5
  <2>7. QED
    BY <1>1, <2>2, <2>3, <2>6 DEF WholeInv
<1>3. CASE Next
  <2>1. Counted'
    BY <1>1, <1>3, CountedEngine, TaleScripts DEF Next
  <2>2. ASSUME ~broken' PROVE Tale(stack)'
    <3>1. ~broken
      <4>1. broken' = (broken \/ Touches)
        BY <1>3 DEF Next, Watch
      <4>2. QED
        BY <2>2, <4>1, Zenon
    <3>2. Tale(stack) /\ Sound /\ Sound'
      BY <1>1, <2>2, <3>1 DEF WholeInv, OrderInv
    <3>3. QED
      BY <1>1, <1>3, <3>2, TaleEngine, TaleScripts DEF Next
  <2>3. QED
    BY <1>1, <2>1, <2>2 DEF WholeInv
<1>4. QED
  BY <1>2, <1>3

(* What the invariant says of a transfer that is about to end.             *)
LEMMA WholeAction ==
    ASSUME WholeInv, Next, At("train"), Top.left = {}, Top.since = calls, ~broken
    PROVE  /\ place[Top.c] = Top.to
           /\ \A d \in Top.all : place[d] = Top.to /\ master'[d] = Top.c
<1>1. IInv /\ Sound /\ Tale(stack)
  BY DEF WholeInv, OrderInv
<1>2. Undisturbed(Top)
  BY DEF At, Undisturbed, Moves, Transfer
<1>3. PICK t \in Seq(Frames), a \in Frames :
         /\ t = Tail(stack) /\ a = Top /\ a.c \in Critters /\ FrameOK(a) /\ OnTheWay(a, Push(a, t))
         /\ \A b \in All(t) : Undisturbed(b) => Follower(a, b)
  BY <1>1, <1>2, MovingOn
<1>4. a.pc = "train" /\ a.pc \in Transfer /\ a.left = {}
  BY <1>3 DEF At, Transfer
<1>5. /\ Free(a.c) /\ \A d \in a.all : Free(d)
      /\ place[a.c] = a.to /\ a.all \subseteq Critters
  BY <1>3, <1>4 DEF OnTheWay
<1>6. \A d \in a.all : place[d] = a.to
  BY <1>3, <1>4, AllBehind
<1>7. Rejoin
  <2>1. ~Scripts
    BY <1>3, <1>4 DEF Scripts, TransitTo, AttachToCritter, DetachFromCritter, AddItem, UnloadCritter,
       DestroyCritter, DestroyLocation, Call, InScript
  <2>2. Engine
    BY <2>1 DEF Next
  <2>3. QED
    BY <1>3, <1>4, <2>2 DEF Engine, ScriptReturns, TransitLocked, Transit, Arrive, Arrived, Follow,
       Leave, Left, Gone, StartLook, Look, EndLook, MoveAttachedCritters, BeginDestroy, Round,
       DestroyInventory, TearOff, Detach, EndDestroy, Unload, Unloaded, ClearMap, ClearNpc,
       EndLocation, At
<1>8. ASSUME NEW d \in a.all PROVE master'[d] = a.c
  <2>1. Exists(a.c) /\ master[a.c] = Nowhere /\ a.all # {} /\ d \in Critters
    BY <1>5, <1>8 DEF Free
  <2>2. Exists(d) /\ master[d] = Nowhere /\ AttachedCritters(d) = {} /\ MapId(d) = MapId(a.c)
    BY <1>5, <1>6, <1>8 DEF Free, MapId
  <2>3. master' = [e \in Critters |->
             IF /\ e \in a.all /\ Exists(e) /\ master[e] = Nowhere
                /\ AttachedCritters(e) = {} /\ MapId(e) = MapId(a.c)
             THEN a.c ELSE master[e]]
    BY <1>3, <1>7, <2>1 DEF Rejoin
  <2>4. QED
    BY <1>8, <2>1, <2>2, <2>3
<1>9. QED
  BY <1>3, <1>5, <1>6, <1>8

(* A transfer that no script has disturbed takes the critter to its        *)
(* destination and with it all that were attached to it, each by a         *)
(* transfer of its own, and they are attached again at the end: for any    *)
(* number of critters that follow.                                         *)
THEOREM WholeTheorem == Spec => Whole
<1>1. Init => WholeInv
  BY WholeInit
<1>2. WholeInv /\ [Next]_vars => WholeInv'
  BY WholeStep
<1>3. ASSUME WholeInv, [Next]_vars
      PROVE  [At("train") /\ Top.left = {} /\ Top.since = calls /\ ~broken =>
                /\ place[Top.c] = Top.to
                /\ \A a \in Top.all : place[a] = Top.to /\ master'[a] = Top.c]_vars
  BY <1>3, WholeAction
<1>4. QED
  BY <1>1, <1>2, <1>3, PTL DEF Spec, Whole
=============================================================================
