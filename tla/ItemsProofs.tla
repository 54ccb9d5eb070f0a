---------------------------- MODULE ItemsProofs ----------------------------
(***************************************************************************)
(* Proofs about Items for any items, holders and counts, and for scripts   *)
(* that call one another as deep and as often as they like.  First the     *)
(* types of the data and of the frames (TypeInv); then Orderly, from what  *)
(* each call under way has been promised (Promise), what it still has to   *)
(* do (Owes, Dooms, Tears), and how the calls are stacked (Chain); then    *)
(* CoinsKept, from what the calls have in hand (Ledger).                   *)
(***************************************************************************)
EXTENDS Items, SequenceTheorems, FiniteSetTheorems, WellFoundedInduction, TLAPS

Frames == [pc : Pcs, item : Things \cup {Nowhere}, to : Holders \cup {Nowhere},
           from : Things \cup Holders \cup {Nowhere}, n : Nat]

(* What a frame says is what its function needs to go on.                  *)
FrameOK(f) ==
    /\ f.pc # "jobs"
    /\ ~IsScript(f) => f.item \in Things
    /\ f.pc \in {"checked", "split", "created", "add"} => f.to \in Holders
    /\ f.pc = "checked" => f.from \in Holders /\ f.n # 0
    /\ f.pc = "split" => f.from \in Things /\ f.n # 0

(* The check of a move is right above the move it is made for.             *)
ForMove(a, b) == a.pc = "OnItemCheckMove" => b.pc = "checked"

GoodStack(s) ==
    /\ s \in Seq(Frames)
    /\ \A k \in 1..Len(s) : FrameOK(s[k])
    /\ \A k \in 1..(Len(s) - 1) : ForMove(s[k], s[k + 1])
    /\ s # <<>> => s[Len(s)].pc # "OnItemCheckMove"

DataInv ==
    /\ life \in [Things -> {"free", "live", "destroying", "destroyed"}]
    /\ own \in [Things -> Holders \cup {Nowhere}]
    /\ inside \in [Holders -> SUBSET Things]
    /\ count \in [Things -> Nat \ {0}]
    /\ thrown \in BOOLEAN /\ broken \in BOOLEAN

TypeInv == DataInv /\ GoodStack(stack)

-----------------------------------------------------------------------------
(* Stacks.                                                                 *)

LEMMA EmptyGood == GoodStack(<<>>)
  BY DEF GoodStack

LEMMA OneGood ==
    ASSUME NEW a \in Frames, FrameOK(a), a.pc # "OnItemCheckMove"
    PROVE  GoodStack(<<a>>) /\ Len(<<a>>) = 1 /\ <<a>>[1] = a /\ <<a>> # <<>>
  BY DEF GoodStack

LEMMA TwoGood ==
    ASSUME NEW a \in Frames, FrameOK(a), NEW b \in Frames, FrameOK(b),
           ForMove(a, b), b.pc # "OnItemCheckMove"
    PROVE  /\ GoodStack(<<a, b>>) /\ Len(<<a, b>>) = 2 /\ <<a, b>>[1] = a /\ <<a, b>>[2] = b
           /\ <<a, b>> # <<>>
<1>1. <<a, b>> \in Seq(Frames) /\ Len(<<a, b>>) = 2 /\ <<a, b>>[1] = a /\ <<a, b>>[2] = b
  OBVIOUS
<1> DEFINE s == <<a, b>>
<1> HIDE DEF s
<1>2. s \in Seq(Frames) /\ Len(s) = 2 /\ s[1] = a /\ s[2] = b
  BY <1>1 DEF s
<1>3. \A k \in 1..2 : k = 1 \/ k = 2
  OBVIOUS
<1>4. \A k \in 1..(2 - 1) : k = 1 /\ k + 1 = 2
  OBVIOUS
<1>5. GoodStack(s) /\ s # <<>>
  BY <1>2, <1>3, <1>4 DEF GoodStack
<1>6. QED
  BY <1>2, <1>5 DEF s

LEMMA ConcatGood ==
    ASSUME NEW s, GoodStack(s), NEW t, GoodStack(t)
    PROVE  GoodStack(s \o t)
<1>1. s \in Seq(Frames) /\ t \in Seq(Frames) /\ Len(s) \in Nat /\ Len(t) \in Nat
  BY LenProperties DEF GoodStack
<1> DEFINE r == s \o t
<1>2. /\ r \in Seq(Frames) /\ Len(r) = Len(s) + Len(t)
      /\ \A k \in 1..(Len(s) + Len(t)) : r[k] = IF k <= Len(s) THEN s[k] ELSE t[k - Len(s)]
  BY <1>1, ConcatProperties
<1> HIDE DEF r
<1>3. ASSUME NEW k \in 1..Len(r) PROVE FrameOK(r[k])
  <2>1. CASE k <= Len(s)
    BY <1>1, <1>2, <2>1 DEF GoodStack
  <2>2. CASE k > Len(s)
    <3>1. k - Len(s) \in 1..Len(t) /\ r[k] = t[k - Len(s)]
      BY <1>1, <1>2, <2>2
    <3>2. QED
      BY <3>1 DEF GoodStack
  <2>3. QED
    BY <1>1, <2>1, <2>2
<1>4. ASSUME NEW k \in 1..(Len(r) - 1) PROVE ForMove(r[k], r[k + 1])
  <2>1. CASE k < Len(s)
    <3>1. r[k] = s[k] /\ r[k + 1] = s[k + 1] /\ k \in 1..(Len(s) - 1)
      BY <1>1, <1>2, <2>1
    <3>2. QED
      BY <3>1 DEF GoodStack
  <2>2. CASE k = Len(s)
    <3>1. r[k] = s[Len(s)] /\ Len(s) # 0
      BY <1>1, <1>2, <2>2
    <3>2. s # <<>>
      BY <1>1, <3>1
    <3>3. QED
      BY <3>1, <3>2 DEF GoodStack, ForMove
  <2>3. CASE k > Len(s)
    <3>1. /\ r[k] = t[k - Len(s)] /\ r[k + 1] = t[(k + 1) - Len(s)]
          /\ (k + 1) - Len(s) = (k - Len(s)) + 1 /\ k - Len(s) \in 1..(Len(t) - 1)
      BY <1>1, <1>2, <2>3
    <3>2. QED
      BY <3>1 DEF GoodStack
  <2>4. QED
    BY <1>1, <2>1, <2>2, <2>3
<1>5. ASSUME r # <<>> PROVE r[Len(r)].pc # "OnItemCheckMove"
  <2>1. Len(r) # 0
    BY <1>2, <1>5, EmptySeq
  <2>2. CASE Len(t) = 0
    <3>1. r[Len(r)] = s[Len(s)] /\ Len(s) # 0
      BY <1>1, <1>2, <2>1, <2>2
    <3>2. s # <<>>
      BY <1>1, <3>1
    <3>3. QED
      BY <3>1, <3>2 DEF GoodStack
  <2>3. CASE Len(t) # 0
    <3>1. /\ Len(r) \in 1..(Len(s) + Len(t)) /\ ~(Len(r) <= Len(s)) /\ Len(r) - Len(s) = Len(t)
      BY <1>1, <1>2, <2>3
    <3>2. r[Len(r)] = t[Len(t)]
      BY <1>2, <3>1
    <3>3. t # <<>>
      BY <1>1, <2>3
    <3>4. QED
      BY <3>2, <3>3 DEF GoodStack
  <2>4. QED
    BY <2>2, <2>3
<1>6. QED
  BY <1>2, <1>3, <1>4, <1>5 DEF GoodStack, r

LEMMA TailGood ==
    ASSUME NEW s, GoodStack(s), s # <<>>
    PROVE  /\ GoodStack(Tail(s))
           /\ Len(Tail(s)) = Len(s) - 1 /\ \A k \in 1..Len(Tail(s)) : Tail(s)[k] = s[k + 1]
           /\ s[1] \in Frames /\ FrameOK(s[1]) /\ s[1] = Head(s)
           /\ Len(s) \in Nat /\ Len(s) # 0
           /\ s[1].pc = "OnItemCheckMove" => Tail(s) # <<>> /\ Tail(s)[1].pc = "checked"
<1>1. s \in Seq(Frames) /\ Len(s) \in Nat /\ Len(s) # 0 /\ \A k \in 1..Len(s) : s[k] \in Frames
  BY LenProperties, EmptySeq DEF GoodStack
<1> DEFINE r == Tail(s)
<1>2. r \in Seq(Frames) /\ Len(r) = Len(s) - 1 /\ \A k \in 1..Len(r) : r[k] = s[k + 1]
  BY <1>1, HeadTailProperties
<1>3. s[1] = Head(s)
  BY <1>1
<1> HIDE DEF r
<1>4. \A k \in 1..Len(r) : FrameOK(r[k])
  BY <1>1, <1>2 DEF GoodStack
<1>5. \A k \in 1..(Len(r) - 1) : ForMove(r[k], r[k + 1])
  <2> SUFFICES ASSUME NEW k \in 1..(Len(r) - 1) PROVE ForMove(r[k], r[k + 1])
    OBVIOUS
  <2>1. r[k] = s[k + 1] /\ r[k + 1] = s[(k + 1) + 1] /\ k + 1 \in 1..(Len(s) - 1)
    BY <1>1, <1>2
  <2>2. QED
    BY <2>1 DEF GoodStack
<1>6. ASSUME r # <<>> PROVE r[Len(r)].pc # "OnItemCheckMove"
  <2>1. Len(r) # 0
    BY <1>2, <1>6, EmptySeq
  <2>2. r[Len(r)] = s[Len(s)]
    BY <1>1, <1>2, <2>1
  <2>3. QED
    BY <1>1, <2>2 DEF GoodStack
<1>7. ASSUME s[1].pc = "OnItemCheckMove" PROVE r # <<>> /\ r[1].pc = "checked"
  <2>1. Len(s) # 1
    BY <1>1, <1>7 DEF GoodStack
  <2>2. 1 \in 1..(Len(s) - 1) /\ 1 \in 1..Len(r) /\ Len(r) # 0 /\ r[1] = s[1 + 1]
    BY <1>1, <1>2, <2>1
  <2>3. QED
    BY <1>2, <1>7, <2>2 DEF GoodStack, ForMove
<1>8. QED
  BY <1>1, <1>2, <1>3, <1>4, <1>5, <1>6, <1>7 DEF GoodStack, r

(* The innermost callback is a script of the stack, and what is above it   *)
(* are no scripts.                                                         *)
LEMMA CallbackLemma ==
    ASSUME stack \in Seq(Frames)
    PROVE  \/ Callback = 0 /\ \A k \in 1..Len(stack) : ~IsScript(stack[k])
           \/ /\ Callback \in 1..Len(stack) /\ IsScript(stack[Callback])
              /\ \A k \in 1..Len(stack) : IsScript(stack[k]) => Callback <= k
<1> DEFINE P == {k \in 1..Len(stack) : IsScript(stack[k])}
<1>1. Len(stack) \in Nat
  BY LenProperties
<1>2. Callback = IF P # {} THEN Min(P) ELSE 0
  BY DEF Callback, SelectInSeq
<1>3. CASE P = {}
  BY <1>2, <1>3
<1>4. CASE P # {}
  <2>1. \E k \in P : \A i \in P : k <= i
    <3>1. P \subseteq Nat
      OBVIOUS
    <3>2. PICK k \in P : \A i \in P : ~(<<i, k>> \in OpToRel(<, Nat))
      BY <1>4, <3>1, NatLessThanWellFounded, WFMin
    <3>3. \A i \in P : ~(i < k)
      BY <3>1, <3>2 DEF OpToRel
    <3>4. QED
      BY <3>1, <3>3
  <2>2. Callback \in P /\ \A i \in P : Callback <= i
    BY <1>2, <1>4, <2>1 DEF Min
  <2>3. QED
    BY <2>2
<1>5. QED
  BY <1>3, <1>4

(* An exception leaves the stack from a script on, or nothing.             *)
LEMMA ThrowGood ==
    ASSUME GoodStack(stack), Throw
    PROVE  GoodStack(stack')
<1>1. stack \in Seq(Frames) /\ Len(stack) \in Nat /\ \A k \in 1..Len(stack) : stack[k] \in Frames
  BY LenProperties DEF GoodStack
<1>2. CASE Callback = 0
  <2>1. stack' = <<>>
    BY <1>2 DEF Throw
  <2>2. PICK r : r = stack'
    OBVIOUS
  <2>3. QED
    BY <2>1, <2>2, EmptyGood
<1>3. CASE Callback # 0
  <2>1. PICK n \in 1..Len(stack) : n = Callback
    BY <1>1, <1>3, CallbackLemma
  <2> DEFINE r == SubSeq(stack, n, Len(stack))
  <2>2. stack' = r
    BY <1>3, <2>1 DEF Throw
  <2>3. /\ r \in Seq(Frames) /\ Len(r) = Len(stack) - n + 1
        /\ \A k \in 1..(Len(stack) - n + 1) : r[k] = stack[n + k - 1]
    <3>1. \A k \in n..Len(stack) : stack[k] \in Frames
      BY <1>1
    <3>2. QED
      BY <1>1, <3>1, SubSeqProperties
  <2> HIDE DEF r
  <2>4. ASSUME NEW k \in 1..Len(r) PROVE FrameOK(r[k])
    <3>1. r[k] = stack[n + k - 1] /\ n + k - 1 \in 1..Len(stack)
      BY <1>1, <2>3
    <3>2. QED
      BY <3>1 DEF GoodStack
  <2>5. ASSUME NEW k \in 1..(Len(r) - 1) PROVE ForMove(r[k], r[k + 1])
    <3>1. /\ r[k] = stack[n + k - 1] /\ n + k - 1 \in 1..(Len(stack) - 1)
          /\ r[k + 1] = stack[n + (k + 1) - 1] /\ n + (k + 1) - 1 = (n + k - 1) + 1
      BY <1>1, <2>3
    <3>2. QED
      BY <3>1 DEF GoodStack
  <2>6. r[Len(r)].pc # "OnItemCheckMove"
    <3>1. r[Len(r)] = stack[Len(stack)] /\ Len(stack) # 0
      BY <1>1, <2>3
    <3>2. stack # <<>>
      BY <1>1, <3>1
    <3>3. QED
      BY <3>1, <3>2 DEF GoodStack
  <2>7. GoodStack(r)
    BY <2>3, <2>4, <2>5, <2>6 DEF GoodStack
  <2>8. QED
    BY <2>2, <2>7
<1>4. QED
  BY <1>2, <1>3

-----------------------------------------------------------------------------
(* The parts that all calls share.                                         *)

LEMMA TopLemma ==
    ASSUME GoodStack(stack), Top.pc # "jobs"
    PROVE  /\ stack # <<>> /\ Top = stack[1] /\ Top \in Frames /\ FrameOK(Top)
           /\ GoodStack(Tail(stack))
<1>1. stack # <<>>
  BY DEF Top, Script, Frame
<1>2. Top = Head(stack)
  BY <1>1 DEF Top
<1>3. QED
  BY <1>1, <1>2, TailGood

LEMMA GoToGood ==
    ASSUME GoodStack(stack), Top.pc # "jobs", NEW frames, GoTo(frames), GoodStack(frames)
    PROVE  GoodStack(stack')
<1>1. stack' = frames \o Tail(stack) /\ GoodStack(Tail(stack))
  BY TopLemma DEF GoTo
<1>2. GoodStack(frames \o Tail(stack))
  BY <1>1, ConcatGood
<1>3. QED
  BY <1>1, <1>2

LEMMA PopGood ==
    ASSUME GoodStack(stack), Top.pc # "jobs", GoTo(<<>>)
    PROVE  GoodStack(stack')
  BY EmptyGood, GoToGood

LEMMA OneFrame ==
    ASSUME GoodStack(stack), Top.pc # "jobs", NEW a \in Frames, FrameOK(a),
           a.pc # "OnItemCheckMove", GoTo(<<a>>)
    PROVE  GoodStack(stack')
<1>1. PICK s : s = <<a>>
  OBVIOUS
<1>2. GoodStack(s) /\ GoTo(s)
  BY <1>1, OneGood
<1>3. QED
  BY <1>2, GoToGood

LEMMA TwoFrames ==
    ASSUME GoodStack(stack), Top.pc # "jobs", NEW a \in Frames, FrameOK(a), NEW b \in Frames,
           FrameOK(b), ForMove(a, b), b.pc # "OnItemCheckMove", GoTo(<<a, b>>)
    PROVE  GoodStack(stack')
<1>1. PICK s : s = <<a, b>>
  OBVIOUS
<1>2. GoodStack(s) /\ GoTo(s)
  BY <1>1, TwoGood
<1>3. QED
  BY <1>2, GoToGood

LEMMA CallOne ==
    ASSUME GoodStack(stack), NEW a \in Frames, FrameOK(a), a.pc # "OnItemCheckMove", Call(<<a>>)
    PROVE  GoodStack(stack')
<1>1. PICK s : s = <<a>>
  OBVIOUS
<1>2. GoodStack(s) /\ stack' = s \o stack
  BY <1>1, OneGood DEF Call
<1>3. GoodStack(s \o stack)
  BY <1>2, ConcatGood
<1>4. QED
  BY <1>2, <1>3

LEMMA CallTwo ==
    ASSUME GoodStack(stack), NEW a \in Frames, FrameOK(a), NEW b \in Frames, FrameOK(b),
           ForMove(a, b), b.pc # "OnItemCheckMove", Call(<<a, b>>)
    PROVE  GoodStack(stack')
<1>1. PICK s : s = <<a, b>>
  OBVIOUS
<1>2. GoodStack(s) /\ stack' = s \o stack
  BY <1>1, TwoGood DEF Call
<1>3. GoodStack(s \o stack)
  BY <1>2, ConcatGood
<1>4. QED
  BY <1>2, <1>3

LEMMA ScriptLemma ==
    ASSUME NEW event \in {"script", "OnItemCheckMove"}
    PROVE  Script(event) \in Frames /\ FrameOK(Script(event)) /\ Script(event).pc = event
<1>1. event \in Pcs
  BY DEF Pcs
<1>2. Script(event) \in Frames /\ Script(event).pc = event
  BY <1>1 DEF Script, Frame, Frames
<1>3. QED
  BY <1>2 DEF FrameOK, IsScript

LEMMA FrameLemma ==
    ASSUME NEW i \in Things, NEW pc \in {"checked", "created", "add", "merge", "destroy"}
    PROVE  /\ Frame(pc, i) \in Frames
           /\ Frame(pc, i).pc = pc /\ Frame(pc, i).item = i /\ Frame(pc, i).n = 0
           /\ pc \in {"merge", "destroy"} => FrameOK(Frame(pc, i))
<1>1. pc \in Pcs
  BY DEF Pcs
<1>2. Frame(pc, i) \in Frames /\ Frame(pc, i).pc = pc /\ Frame(pc, i).item = i /\ Frame(pc, i).n = 0
  BY <1>1 DEF Frame, Frames
<1>3. QED
  BY <1>2 DEF FrameOK

(* A frame for a holder, and one that goes on at another place of the code. *)
LEMMA ToLemma ==
    ASSUME NEW f \in Frames, NEW h \in Holders
    PROVE  \E g \in Frames : /\ g = [f EXCEPT !.to = h] /\ g.to = h
                             /\ g.pc = f.pc /\ g.item = f.item /\ g.from = f.from /\ g.n = f.n
<1> DEFINE g == [f EXCEPT !.to = h]
<1>1. g \in Frames /\ g.pc = f.pc /\ g.item = f.item /\ g.to = h /\ g.from = f.from /\ g.n = f.n
  BY DEF Frames
<1>2. QED
  BY <1>1

LEMMA ThenLemma ==
    ASSUME NEW f \in Frames, NEW pc \in Pcs
    PROVE  \E g \in Frames : /\ g = [f EXCEPT !.pc = pc] /\ g.pc = pc
                             /\ g.item = f.item /\ g.to = f.to /\ g.from = f.from /\ g.n = f.n
<1> DEFINE g == [f EXCEPT !.pc = pc]
<1>1. g \in Frames /\ g.pc = pc /\ g.item = f.item /\ g.to = f.to /\ g.from = f.from /\ g.n = f.n
  BY DEF Frames
<1>2. QED
  BY <1>1

LEMMA MaybeLemma ==
    /\ \A x : <<>> \o <<x>> = <<x>>
    /\ \A x, y : <<x>> \o <<y>> = <<x, y>>
<1>1. ASSUME NEW x PROVE <<>> \o <<x>> = <<x>>
  <2>1. <<x>> \in Seq({x})
    OBVIOUS
  <2>2. QED
    BY <2>1, ConcatEmptySeq
<1>2. ASSUME NEW x, NEW y PROVE <<x>> \o <<y>> = <<x, y>>
  <2>1. /\ <<x>> \in Seq({x, y}) /\ <<y>> \in Seq({x, y}) /\ Len(<<x>>) = 1 /\ Len(<<y>>) = 1
        /\ <<x>>[1] = x /\ <<y>>[1] = y
    OBVIOUS
  <2> DEFINE r == <<x>> \o <<y>>
  <2>2. /\ r \in Seq({x, y}) /\ Len(r) = 1 + 1
        /\ \A i \in 1..(1 + 1) : r[i] = IF i <= 1 THEN <<x>>[i] ELSE <<y>>[i - 1]
    BY <2>1, ConcatProperties
  <2> HIDE DEF r
  <2>3. r[1] = x /\ r[2] = y /\ Len(r) = 2
    BY <2>1, <2>2
  <2>4. r = <<x, y>>
    BY <2>2, <2>3
  <2>5. QED
    BY <2>4 DEF r
<1>3. QED
  BY <1>1, <1>2

LEMMA NewItemLemma ==
    ASSUME Free # {}
    PROVE  NewItem \in Coins /\ NewItem \in Things /\ life[NewItem] = "free"
  BY DEF NewItem, Free, Things

LEMMA HolderLemma ==
    ASSUME DataInv, NEW i \in Things, GetItemHolder(i) # Nowhere
    PROVE  GetItemHolder(i) \in Holders
  BY DEF DataInv, GetItemHolder

-----------------------------------------------------------------------------
(* The frames that each operation and each step leaves.                    *)
Scr == Script("script")

(* MoveItem has been called, and the frame for its second part is made.     *)
MoveCalled(move, i, to) ==
    /\ FrameOK(move) /\ move.pc = "checked" /\ move.item = i /\ move.to = to
    /\ move.from = GetItemHolder(i)
    /\ Call(<<move>>) \/ Call(<<Script("OnItemCheckMove"), move>>)

LEMMA MoveShape ==
    ASSUME TypeInv, NEW i \in Things, NEW n \in Counts, NEW to \in Holders, NEW skip \in BOOLEAN,
           MoveItem(i, n, to, skip)
    PROVE  \E move \in Frames : MoveCalled(move, i, to)
<1> DEFINE h == GetItemHolder(i)
           f == [Frame("checked", i) EXCEPT !.n = n, !.to = to, !.from = h]
<1>1. h \in Holders /\ n \in Nat /\ n # 0
  BY HolderLemma, CountsAssumption DEF MoveItem, TypeInv
<1>2. /\ Frame("checked", i) \in Frames /\ Frame("checked", i).pc = "checked"
      /\ Frame("checked", i).item = i
  BY FrameLemma
<1>3. Call((IF skip THEN <<>> ELSE <<Script("OnItemCheckMove")>>) \o <<f>>)
  BY DEF MoveItem
<1>4. PICK g : g = h
  OBVIOUS
<1>5. f = [Frame("checked", i) EXCEPT !.n = n, !.to = to, !.from = g]
  BY <1>4
<1>6. f \in Frames /\ f.pc = "checked" /\ f.item = i /\ f.to = to /\ f.from = g /\ f.n = n
  BY <1>1, <1>2, <1>4, <1>5 DEF Frames
<1> HIDE DEF f
<1>7. FrameOK(f)
  BY <1>1, <1>4, <1>6 DEF FrameOK, IsScript
<1>8. Call(<<f>>) \/ Call(<<Script("OnItemCheckMove"), f>>)
  BY <1>3, MaybeLemma
<1>9. QED
  BY <1>4, <1>6, <1>7, <1>8 DEF MoveCalled

LEMMA DestroyShape ==
    ASSUME NEW i \in Things, NEW n \in Counts, DestroyItem(i, n)
    PROVE  /\ UNCHANGED <<life, own, inside>> /\ Exists(i)
           /\ \/ /\ Call(<<Scr>>) /\ n < count[i] /\ count' = [count EXCEPT ![i] = count[i] - n]
                 /\ asked' = asked - n
              \/ /\ UNCHANGED <<count, asked>>
                 /\ \E d \in Frames : /\ FrameOK(d) /\ d.pc = "destroy" /\ d.item = i /\ d.n = 1
                                      /\ Call(<<d>>)
<1>1. CASE n < count[i] /\ Call(<<Scr>>) /\ SetCount(i, count[i] - n) /\ asked' = asked - n
  BY <1>1 DEF DestroyItem, SetCount
<1>2. CASE Call(<<[Frame("destroy", i) EXCEPT !.n = 1]>>) /\ UNCHANGED <<count, asked>>
  <2>1. PICK a \in Frames : a = Frame("destroy", i) /\ a.pc = "destroy" /\ a.item = i
    BY FrameLemma
  <2>2. PICK d \in Frames : d = [a EXCEPT !.n = 1] /\ d.pc = "destroy" /\ d.item = i /\ d.n = 1
    <3>1. /\ [a EXCEPT !.n = 1] \in Frames /\ [a EXCEPT !.n = 1].pc = "destroy"
          /\ [a EXCEPT !.n = 1].item = i /\ [a EXCEPT !.n = 1].n = 1
      BY <2>1 DEF Frames
    <3>2. QED
      BY <3>1
  <2>3. FrameOK(d) /\ Call(<<d>>)
    BY <1>2, <2>1, <2>2 DEF FrameOK
  <2>4. QED
    BY <1>2, <2>2, <2>3 DEF DestroyItem
<1>3. QED
  BY <1>1, <1>2 DEF DestroyItem, Scr

LEMMA AddShape ==
    ASSUME TypeInv, NEW h \in Holders, NEW n \in Counts, AddItem(h, n)
    PROVE  /\ UNCHANGED <<own, inside>> /\ Exists(h) /\ asked' = asked + n
           /\ \/ /\ UNCHANGED life /\ Call(<<Scr>>)
                 /\ \E already \in Coins \cap inside[h] :
                      count' = [count EXCEPT ![already] = count[already] + n]
              \/ /\ Free # {}
                 /\ life' = [life EXCEPT ![NewItem] = "live"]
                 /\ count' = [count EXCEPT ![NewItem] = n]
                 /\ \E c \in Frames : /\ FrameOK(c) /\ c.pc = "created" /\ c.item = NewItem /\ c.to = h
                                      /\ Call(<<Scr, c>>)
<1> DEFINE held == IF h \in Maps THEN {} ELSE inside[h] \cap Coins
<1>1. ASSUME NEW already \in held, Call(<<Scr>>), SetCount(already, count[already] + n), UNCHANGED life
      PROVE  \E x \in Coins \cap inside[h] : count' = [count EXCEPT ![x] = count[x] + n]
  <2>1. already \in Coins \cap inside[h]
    OBVIOUS
  <2>2. QED
    BY <1>1, <2>1 DEF SetCount
<1>2. CASE CreateItem(n) /\ Call(<<Script("script"), [Frame("created", NewItem) EXCEPT !.to = h]>>)
  <2>1. Free # {} /\ NewItem \in Things
    BY <1>2, NewItemLemma DEF CreateItem
  <2>2. PICK a \in Frames : a = Frame("created", NewItem) /\ a.pc = "created" /\ a.item = NewItem
    BY <2>1, FrameLemma
  <2>3. PICK c \in Frames : c = [a EXCEPT !.to = h] /\ c.pc = "created" /\ c.item = NewItem /\ c.to = h
    BY <2>2, ToLemma
  <2>4. FrameOK(c) /\ Call(<<Scr, c>>)
    BY <1>2, <2>1, <2>2, <2>3 DEF FrameOK, Scr
  <2>5. QED
    BY <1>2, <2>1, <2>3, <2>4 DEF AddItem, CreateItem
<1>3. QED
  BY <1>1, <1>2 DEF AddItem, Scr

(* What RemoveItemHolder leaves, if the frame a comes after it.            *)
LEMMA RemoveShape ==
    ASSUME DataInv, NEW i \in Things, NEW h, NEW a, RemoveItemHolder(i, h, <<a>>)
    PROVE  \/ own[i] = Nowhere /\ GoTo(<<a>>) /\ UNCHANGED <<own, inside>>
           \/ /\ own[i] # Nowhere /\ i \in inside[h]
              /\ own' = [own EXCEPT ![i] = Nowhere]
              /\ inside' = [inside EXCEPT ![h] = @ \ {i}]
              /\ GoTo(<<a>>) \/ GoTo(<<Scr, a>>)
           \/ /\ own[i] # Nowhere /\ Throw /\ UNCHANGED inside
              /\ UNCHANGED own \/ own' = [own EXCEPT ![i] = Nowhere]
              /\ ~(KindOf(own[i]) = KindOf(h) /\ i \in inside[h])
<1>1. CASE own[i] = Nowhere /\ GoTo(<<a>>) /\ UNCHANGED <<own, inside>>
  BY <1>1
<1>2. CASE /\ own[i] # Nowhere /\ i \in inside[h]
           /\ own' = [own EXCEPT ![i] = Nowhere]
           /\ inside' = [inside EXCEPT ![h] = @ \ {i}]
           /\ GoTo(Callbacks(h) \o <<a>>)
  <2>1. GoTo(<<>> \o <<a>>) \/ GoTo(<<Scr>> \o <<a>>)
    BY <1>2 DEF Callbacks, Scr
  <2>2. GoTo(<<a>>) \/ GoTo(<<Scr, a>>)
    BY <2>1, MaybeLemma
  <2>3. QED
    BY <1>2, <2>2
<1>3. CASE /\ own[i] # Nowhere /\ ~(KindOf(own[i]) = KindOf(h) /\ i \in inside[h])
           /\ own' = [own EXCEPT ![i] = IF KindOf(own[i]) = KindOf(h) /\ h \in Bags /\ inside[h] # {} THEN Nowhere ELSE @]
           /\ Throw /\ UNCHANGED inside
  <2>1. CASE KindOf(own[i]) = KindOf(h) /\ h \in Bags /\ inside[h] # {}
    BY <1>3, <2>1
  <2>2. CASE ~(KindOf(own[i]) = KindOf(h) /\ h \in Bags /\ inside[h] # {})
    <3>1. own' = [own EXCEPT ![i] = own[i]]
      BY <1>3, <2>2
    <3>2. UNCHANGED own
      BY <3>1 DEF DataInv
    <3>3. QED
      BY <1>3, <3>2
  <2>3. QED
    BY <2>1, <2>2
<1>4. QED
  BY <1>1, <1>2, <1>3 DEF RemoveItemHolder

LEMMA MoveWholeShape ==
    ASSUME TypeInv, MoveWhole
    PROVE  /\ Top.pc = "checked" /\ Top.item \in Things /\ Top.from \in Holders /\ Top.to \in Holders
           /\ UNCHANGED <<life, count>>
           /\ \E a \in Frames : /\ FrameOK(a) /\ a.pc = "add" /\ a.item = Top.item /\ a.to = Top.to
                                /\ RemoveItemHolder(Top.item, Top.from, <<a>>)
<1>1. /\ Top.pc = "checked" /\ Top \in Frames /\ Top.item \in Things /\ Top.from \in Holders
      /\ Top.to \in Holders
  BY TopLemma DEF MoveWhole, At, TypeInv, FrameOK, IsScript
<1>2. PICK a \in Frames : a = [Top EXCEPT !.pc = "add"] /\ a.pc = "add" /\ a.item = Top.item /\ a.to = Top.to
  BY <1>1, ThenLemma DEF Pcs
<1>3. FrameOK(a)
  BY <1>1, <1>2 DEF FrameOK
<1>4. RemoveItemHolder(Top.item, Top.from, <<a>>)
  BY <1>2 DEF MoveWhole
<1>5. QED
  BY <1>1, <1>2, <1>3, <1>4 DEF MoveWhole

LEMMA SplitItemShape ==
    ASSUME TypeInv, SplitItem
    PROVE  /\ Top.pc = "checked" /\ Top.item \in Things /\ Top.to \in Holders /\ UNCHANGED <<own, inside>>
           /\ Top.item \in Coins
           /\ \/ GoTo(<<>>) /\ UNCHANGED <<life, count>>
              \/ /\ Free # {} /\ Top.n \in Nat \ {0} /\ Top.n < count[Top.item]
                 /\ life' = [life EXCEPT ![NewItem] = "live"]
                 /\ count' = [count EXCEPT ![NewItem] = Top.n]
                 /\ \E f \in Frames : /\ FrameOK(f) /\ f.pc = "split" /\ f.item = Top.item
                                      /\ f.to = Top.to /\ f.from = NewItem
                                      /\ f.n = count[Top.item] - Top.n
                                      /\ GoTo(<<Scr, f>>)
<1>1. /\ Top.pc = "checked" /\ Top \in Frames /\ Top.item \in Things /\ Top.to \in Holders
      /\ Top.n \in Nat \ {0}
  BY TopLemma DEF SplitItem, At, TypeInv, FrameOK, IsScript, Frames
<1>2. count[Top.item] \in Nat /\ Top.n < count[Top.item]
  <2>1. count[Top.item] \in Nat
    BY <1>1 DEF TypeInv, DataInv
  <2>2. ~(Top.n >= count[Top.item])
    BY DEF SplitItem, IsWhole
  <2>3. QED
    BY <1>1, <2>1, <2>2
<1>5. Top.item \in Coins
  BY <1>1 DEF SplitItem, IsWhole, Things
<1>3. CASE CreateItem(Top.n) /\ GoTo(<<Script("script"),
                [Top EXCEPT !.pc = "split", !.from = NewItem, !.n = count[Top.item] - Top.n]>>)
  <2>1. Free # {} /\ NewItem \in Things
    BY <1>3, NewItemLemma DEF CreateItem
  <2>2. PICK m \in Nat \ {0} : m = count[Top.item] - Top.n
    BY <1>1, <1>2
  <2>3. PICK j \in Things : j = NewItem
    BY <2>1
  <2> DEFINE g == [Top EXCEPT !.pc = "split", !.from = j, !.n = m]
  <2>4. g \in Frames /\ g.pc = "split" /\ g.item = Top.item /\ g.to = Top.to /\ g.from = j /\ g.n = m
    BY <1>1 DEF Frames, Pcs
  <2>5. PICK f \in Frames : f = g
    BY <2>4
  <2>6. FrameOK(f)
    BY <1>1, <2>4, <2>5 DEF FrameOK
  <2>7. GoTo(<<Scr, f>>)
    BY <1>3, <2>2, <2>3, <2>5 DEF Scr
  <2>8. QED
    BY <1>1, <1>2, <1>3, <1>5, <2>1, <2>2, <2>3, <2>4, <2>5, <2>6, <2>7 DEF SplitItem, CreateItem
<1>4. QED
  BY <1>1, <1>3, <1>5 DEF SplitItem

LEMMA SplitDoneShape ==
    ASSUME TypeInv, SplitDone
    PROVE  /\ Top.pc = "split" /\ Top.item \in Things /\ Top.from \in Things /\ Top.to \in Holders
           /\ Top.n \in Nat \ {0} /\ UNCHANGED <<life, own, inside>>
           /\ \/ /\ life[Top.from] = "destroyed" /\ GoTo(<<>>) /\ UNCHANGED count
                 /\ asked' = asked + count[Top.item] - Top.n
              \/ /\ life[Top.from] # "destroyed" /\ own[Top.from] = Nowhere
                 /\ count' = [count EXCEPT ![Top.item] = Top.n] /\ UNCHANGED asked
                 /\ \E a \in Frames : /\ FrameOK(a) /\ a.pc = "add" /\ a.item = Top.from /\ a.to = Top.to
                                      /\ GoTo(<<Scr, a>>)
              \/ own[Top.from] # Nowhere /\ Throw /\ UNCHANGED count
<1>1. /\ Top.pc = "split" /\ Top \in Frames /\ Top.item \in Things /\ Top.from \in Things
      /\ Top.to \in Holders /\ Top.n \in Nat \ {0}
  BY TopLemma DEF SplitDone, At, TypeInv, FrameOK, IsScript, Frames
<1>2. PICK b \in Frames : b = Frame("add", Top.from) /\ b.pc = "add" /\ b.item = Top.from
  BY <1>1, FrameLemma
<1>3. PICK a \in Frames : a = [b EXCEPT !.to = Top.to] /\ a.pc = "add" /\ a.item = Top.from /\ a.to = Top.to
  BY <1>1, <1>2, ToLemma
<1>4. FrameOK(a)
  BY <1>1, <1>3 DEF FrameOK
<1>5. \/ /\ life[Top.from] = "destroyed" /\ GoTo(<<>>) /\ UNCHANGED count
         /\ asked' = asked + count[Top.item] - Top.n
      \/ /\ life[Top.from] # "destroyed" /\ own[Top.from] = Nowhere
         /\ count' = [count EXCEPT ![Top.item] = Top.n] /\ GoTo(<<Scr, a>>) /\ UNCHANGED asked
      \/ own[Top.from] # Nowhere /\ Throw /\ UNCHANGED count
  BY <1>2, <1>3 DEF SplitDone, SetCount, Scr
<1>6. QED
  BY <1>1, <1>3, <1>4, <1>5 DEF SplitDone

LEMMA CreatedShape ==
    ASSUME TypeInv, Created
    PROVE  /\ Top.pc = "created" /\ Top.item \in Things /\ Top.to \in Holders /\ UNCHANGED items
           /\ \/ life[Top.item] = "destroyed" /\ GoTo(<<>>)
              \/ /\ life[Top.item] # "destroyed"
                 /\ \E a \in Frames : /\ FrameOK(a) /\ a.pc = "add" /\ a.item = Top.item /\ a.to = Top.to
                                      /\ GoTo(<<a>>)
<1>1. /\ Top.pc = "created" /\ Top \in Frames /\ Top.item \in Things /\ Top.to \in Holders
  BY TopLemma DEF Created, At, TypeInv, FrameOK, IsScript
<1>2. PICK a \in Frames : a = [Top EXCEPT !.pc = "add"] /\ a.pc = "add" /\ a.item = Top.item /\ a.to = Top.to
  BY <1>1, ThenLemma DEF Pcs
<1>3. FrameOK(a)
  BY <1>1, <1>2 DEF FrameOK
<1>4. QED
  BY <1>1, <1>2, <1>3 DEF Created

LEMMA PutShape ==
    ASSUME TypeInv, Add
    PROVE  /\ Top.pc = "add" /\ Top.item \in Things /\ Top.to \in Holders /\ UNCHANGED <<life, count>>
           /\ \/ /\ UNCHANGED <<own, inside>>
                 /\ \E d \in Frames, m \in Frames :
                      /\ FrameOK(d) /\ d.pc = "destroy" /\ d.item = Top.item /\ d.n = 0
                      /\ FrameOK(m) /\ m.pc = "merge" /\ m.item \in inside[Top.to] \cap Coins
                      /\ m.n = count[Top.item]
                      /\ Top.item \in Coins
                      /\ GoTo(<<d, m>>)
              \/ /\ Top.item \notin inside[Top.to]
                 /\ own' = [own EXCEPT ![Top.item] = Top.to]
                 /\ inside' = [inside EXCEPT ![Top.to] = @ \cup {Top.item}]
                 /\ GoTo(<<>>) \/ GoTo(<<Scr>>)
              \/ /\ Top.item \in inside[Top.to] /\ Throw
                 /\ UNCHANGED own \/ own' = [own EXCEPT ![Top.item] = Top.to]
                 /\ inside' = [inside EXCEPT ![Top.to] = @ \cup {Top.item}]
<1>1. /\ Top.pc = "add" /\ Top \in Frames /\ Top.item \in Things /\ Top.to \in Holders
  BY TopLemma DEF Add, At, TypeInv, FrameOK, IsScript
<1> DEFINE i == Top.item
           h == Top.to
<1>2. ASSUME NEW already \in Stacks(i, h),
             GoTo(<<Frame("destroy", i), [Frame("merge", already) EXCEPT !.n = count[i]]>>)
      PROVE  \E d \in Frames, m \in Frames :
                      /\ FrameOK(d) /\ d.pc = "destroy" /\ d.item = Top.item /\ d.n = 0
                      /\ FrameOK(m) /\ m.pc = "merge" /\ m.item \in inside[Top.to] \cap Coins
                      /\ m.n = count[Top.item]
                      /\ Top.item \in Coins
                      /\ GoTo(<<d, m>>)
  <2>1. already \in inside[h] \cap Coins /\ i \in Coins /\ already \in Things
    BY <1>2 DEF Stacks, Things
  <2>2. PICK d \in Frames : d = Frame("destroy", i) /\ FrameOK(d) /\ d.pc = "destroy" /\ d.item = i /\ d.n = 0
    BY <1>1, FrameLemma
  <2>3. PICK b \in Frames : b = Frame("merge", already) /\ b.pc = "merge" /\ b.item = already
    BY <2>1, FrameLemma
  <2>4. PICK n \in Nat : n = count[i]
    BY <1>1 DEF TypeInv, DataInv
  <2>5. PICK m \in Frames : m = [b EXCEPT !.n = n] /\ m.pc = "merge" /\ m.item = already /\ m.n = n
    <3>1. /\ [b EXCEPT !.n = n] \in Frames /\ [b EXCEPT !.n = n].pc = "merge"
          /\ [b EXCEPT !.n = n].item = already /\ [b EXCEPT !.n = n].n = n
      BY <2>3 DEF Frames
    <3>2. QED
      BY <3>1
  <2>6. FrameOK(m)
    BY <2>1, <2>5 DEF FrameOK
  <2>7. GoTo(<<d, m>>)
    BY <1>2, <2>2, <2>3, <2>4, <2>5
  <2>8. QED
    BY <2>1, <2>2, <2>4, <2>5, <2>6, <2>7
<1>3. \/ /\ \E already \in Stacks(i, h) :
              GoTo(<<Frame("destroy", i), [Frame("merge", already) EXCEPT !.n = count[i]]>>)
         /\ UNCHANGED <<own, inside>>
      \/ /\ own' = IF h \in Bags /\ i \in inside[h] THEN own ELSE [own EXCEPT ![i] = h]
         /\ inside' = [inside EXCEPT ![h] = @ \cup {i}]
         /\ IF i \in inside[h] THEN Throw ELSE GoTo(Callbacks(h))
  BY DEF Add, AddItemTo
<1>4. CASE /\ own' = IF h \in Bags /\ i \in inside[h] THEN own ELSE [own EXCEPT ![i] = h]
           /\ inside' = [inside EXCEPT ![h] = @ \cup {i}]
           /\ IF i \in inside[h] THEN Throw ELSE GoTo(Callbacks(h))
  <2>1. \/ /\ Top.item \notin inside[Top.to]
           /\ own' = [own EXCEPT ![Top.item] = Top.to]
           /\ inside' = [inside EXCEPT ![Top.to] = @ \cup {Top.item}]
           /\ GoTo(<<>>) \/ GoTo(<<Scr>>)
        \/ /\ Top.item \in inside[Top.to] /\ Throw
           /\ UNCHANGED own \/ own' = [own EXCEPT ![Top.item] = Top.to]
           /\ inside' = [inside EXCEPT ![Top.to] = @ \cup {Top.item}]
    <3>1. Callbacks(h) = <<>> \/ Callbacks(h) = <<Scr>>
      BY DEF Callbacks, Scr
    <3>2. CASE i \in inside[h]
      BY <1>4, <3>2
    <3>3. CASE i \notin inside[h]
      BY <1>4, <3>1, <3>3
    <3>4. QED
      BY <3>2, <3>3
  <2>2. UNCHANGED <<life, count>>
    BY DEF Add
  <2>3. QED
    BY <1>1, <2>1, <2>2
<1>5. UNCHANGED <<life, count>>
  BY DEF Add
<1>6. QED
  BY <1>1, <1>2, <1>3, <1>4, <1>5

LEMMA MergeShape ==
    ASSUME TypeInv, Merge
    PROVE  /\ Top.pc = "merge" /\ Top.item \in Things /\ Top.n \in Nat /\ UNCHANGED <<life, own, inside>>
           /\ count' = [count EXCEPT ![Top.item] = count[Top.item] + Top.n]
           /\ GoTo(<<Scr>>)
  BY TopLemma DEF Merge, At, TypeInv, FrameOK, IsScript, Frames, SetCount, Scr

Ending == {"destroy", "tear", "inner"}
Tearing == {"tear", "inner"}

LEMMA BeginDestroyShape ==
    ASSUME TypeInv, BeginDestroy
    PROVE  /\ Top.pc = "destroy" /\ Top.item \in Things /\ UNCHANGED <<own, inside, count>>
           /\ \/ life[Top.item] # "live" /\ GoTo(<<>>) /\ UNCHANGED life
              \/ /\ life[Top.item] = "live" /\ life' = [life EXCEPT ![Top.item] = "destroying"]
                 /\ \E f \in Frames : FrameOK(f) /\ f.pc = "tear" /\ f.item = Top.item /\ f.n = Top.n /\ GoTo(<<Scr, f>>)
<1>1. /\ Top.pc = "destroy" /\ Top \in Frames /\ Top.item \in Things
  BY TopLemma DEF BeginDestroy, At, TypeInv, FrameOK, IsScript
<1>2. PICK f \in Frames : f = [Top EXCEPT !.pc = "tear"] /\ f.pc = "tear" /\ f.item = Top.item /\ f.n = Top.n
  BY <1>1, ThenLemma DEF Pcs
<1>3. FrameOK(f)
  BY <1>1, <1>2 DEF FrameOK
<1>4. QED
  BY <1>1, <1>2, <1>3 DEF BeginDestroy, Scr

LEMMA TearOffShape ==
    ASSUME TypeInv, TearOff
    PROVE  /\ Top.pc = "tear" /\ Top.item \in Things /\ own[Top.item] # Nowhere /\ UNCHANGED <<life, count>>
           /\ \E f \in Frames : /\ FrameOK(f) /\ f.pc = "inner" /\ f.item = Top.item /\ f.n = Top.n
                                /\ RemoveItemHolder(Top.item, GetItemHolder(Top.item), <<f>>)
<1>1. /\ Top.pc = "tear" /\ Top \in Frames /\ Top.item \in Things
  BY TopLemma DEF TearOff, At, TypeInv, FrameOK, IsScript
<1>2. PICK f \in Frames : f = [Top EXCEPT !.pc = "inner"] /\ f.pc = "inner" /\ f.item = Top.item /\ f.n = Top.n
  BY <1>1, ThenLemma DEF Pcs
<1>3. FrameOK(f)
  BY <1>1, <1>2 DEF FrameOK
<1>4. RemoveItemHolder(Top.item, GetItemHolder(Top.item), <<f>>)
  BY <1>2 DEF TearOff
<1>5. QED
  BY <1>1, <1>2, <1>3, <1>4 DEF TearOff

LEMMA DestroyInnerShape ==
    ASSUME TypeInv, DestroyInner
    PROVE  /\ Top.pc \in Tearing /\ Top.item \in Bags /\ UNCHANGED items
           /\ \E d \in Frames, f \in Frames :
                /\ FrameOK(d) /\ d.pc = "destroy" /\ d.n = Top.n
                /\ FrameOK(f) /\ f.pc = "inner" /\ f.item = Top.item /\ f.n = Top.n
                /\ GoTo(<<d, f>>)
<1>1. /\ Top.pc \in Tearing /\ Top \in Frames /\ Top.item \in Things
  BY TopLemma DEF DestroyInner, At, TypeInv, FrameOK, IsScript, Tearing
<1>2. PICK i \in InnerItems(Top.item) :
         GoTo(<<[Frame("destroy", i) EXCEPT !.n = Top.n], [Top EXCEPT !.pc = "inner"]>>)
  BY DEF DestroyInner
<1>3. Top.item \in Bags /\ i \in Things
  BY <1>1 DEF InnerItems, TypeInv, DataInv, Holders
<1>4. PICK b \in Frames : b = Frame("destroy", i) /\ b.pc = "destroy" /\ b.item = i
  BY <1>3, FrameLemma
<1>5. PICK n \in Nat : n = Top.n
  BY <1>1 DEF Frames
<1>6. PICK d \in Frames : d = [b EXCEPT !.n = n] /\ d.pc = "destroy" /\ d.item = i /\ d.n = n
  <2>1. /\ [b EXCEPT !.n = n] \in Frames /\ [b EXCEPT !.n = n].pc = "destroy"
        /\ [b EXCEPT !.n = n].item = i /\ [b EXCEPT !.n = n].n = n
    BY <1>4 DEF Frames
  <2>2. QED
    BY <2>1
<1>7. PICK f \in Frames : f = [Top EXCEPT !.pc = "inner"] /\ f.pc = "inner" /\ f.item = Top.item /\ f.n = Top.n
  BY <1>1, ThenLemma DEF Pcs
<1>8. FrameOK(d) /\ FrameOK(f)
  BY <1>1, <1>3, <1>6, <1>7 DEF FrameOK
<1>9. GoTo(<<d, f>>)
  BY <1>2, <1>4, <1>5, <1>6, <1>7
<1>10. QED
  BY <1>1, <1>3, <1>5, <1>6, <1>7, <1>8, <1>9 DEF DestroyInner

LEMMA NextRoundShape ==
    ASSUME TypeInv, NextRound
    PROVE  /\ Top.pc = "inner" /\ Top.item \in Things /\ UNCHANGED items
           /\ \E f \in Frames : FrameOK(f) /\ f.pc = "tear" /\ f.item = Top.item /\ f.n = Top.n /\ GoTo(<<f>>)
<1>1. /\ Top.pc = "inner" /\ Top \in Frames /\ Top.item \in Things
  BY TopLemma DEF NextRound, At, TypeInv, FrameOK, IsScript
<1>2. PICK f \in Frames : f = [Top EXCEPT !.pc = "tear"] /\ f.pc = "tear" /\ f.item = Top.item /\ f.n = Top.n
  BY <1>1, ThenLemma DEF Pcs
<1>3. FrameOK(f)
  BY <1>1, <1>2 DEF FrameOK
<1>4. QED
  BY <1>1, <1>2, <1>3 DEF NextRound

LEMMA EndDestroyShape ==
    ASSUME TypeInv, EndDestroy
    PROVE  /\ Top.pc \in Tearing /\ Top.item \in Things /\ UNCHANGED <<own, inside, count>>
           /\ own[Top.item] = Nowhere /\ InnerItems(Top.item) = {}
           /\ life' = [life EXCEPT ![Top.item] = "destroyed"] /\ GoTo(<<>>)
           /\ asked' = IF Top.item \in Coins THEN asked - Top.n * count[Top.item] ELSE asked
  BY TopLemma DEF EndDestroy, At, TypeInv, FrameOK, IsScript, Tearing

LEMMA ScriptReturnsShape ==
    ASSUME TypeInv, ScriptReturns
    PROVE  stack # <<>> /\ Top.pc # "jobs" /\ IsScript(Top) /\ GoTo(<<>>) /\ UNCHANGED items
<1>1. stack # <<>> /\ Top = Head(stack)
  BY DEF ScriptReturns, Top
<1>2. Top.pc # "jobs"
  BY <1>1, TailGood DEF TypeInv, FrameOK
<1>3. QED
  BY <1>1, <1>2 DEF ScriptReturns

LEMMA MoveRefusedShape ==
    ASSUME TypeInv, MoveRefused
    PROVE  /\ Top.pc = "OnItemCheckMove" /\ UNCHANGED <<items, thrown>>
           /\ stack # <<>> /\ Tail(stack) # <<>> /\ stack' = Tail(Tail(stack))
           /\ GoodStack(Tail(stack)) /\ Tail(stack)[1].pc = "checked"
<1>1. Top.pc = "OnItemCheckMove"
  BY DEF MoveRefused, At
<1>2. stack # <<>> /\ Top = stack[1]
  BY <1>1, TopLemma DEF TypeInv
<1>3. QED
  BY <1>1, <1>2, TailGood DEF MoveRefused, TypeInv

-----------------------------------------------------------------------------
(* The types.                                                              *)

LEMMA RemoveGood ==
    ASSUME TypeInv, Top.pc # "jobs", NEW i \in Things, NEW h,
           NEW a \in Frames, FrameOK(a), a.pc # "OnItemCheckMove",
           RemoveItemHolder(i, h, <<a>>)
    PROVE  /\ GoodStack(stack')
           /\ own' \in [Things -> Holders \cup {Nowhere}]
           /\ inside' \in [Holders -> SUBSET Things]
<1>1. GoodStack(stack) /\ DataInv
  BY DEF TypeInv
<1>2. \/ GoTo(<<a>>) \/ GoTo(<<Scr, a>>) \/ Throw
  BY <1>1, RemoveShape
<1>3. Scr \in Frames /\ FrameOK(Scr) /\ ForMove(Scr, a)
  BY ScriptLemma DEF Scr, ForMove
<1>4. GoodStack(stack')
  BY <1>1, <1>2, <1>3, OneFrame, TwoFrames, ThrowGood
<1>5. UNCHANGED own \/ own' = [own EXCEPT ![i] = Nowhere]
  BY <1>1, RemoveShape
<1>6. UNCHANGED inside \/ inside' = [inside EXCEPT ![h] = @ \ {i}]
  BY <1>1, RemoveShape
<1>7. QED
  BY <1>1, <1>4, <1>5, <1>6 DEF DataInv

LEMMA ScriptsType ==
    ASSUME TypeInv, Scripts
    PROVE  /\ GoodStack(stack')
           /\ life' \in [Things -> {"free", "live", "destroying", "destroyed"}]
           /\ own' \in [Things -> Holders \cup {Nowhere}]
           /\ inside' \in [Holders -> SUBSET Things]
           /\ count' \in [Things -> Nat \ {0}]
<1> USE DEF TypeInv
<1>1. Scr \in Frames /\ FrameOK(Scr) /\ Scr.pc = "script"
  BY ScriptLemma DEF Scr
<1>2. ASSUME NEW i \in Things, NEW n \in Counts, NEW to \in Holders, NEW skip \in BOOLEAN,
             MoveItem(i, n, to, skip)
      PROVE  GoodStack(stack') /\ UNCHANGED items
  <2>1. PICK move \in Frames : /\ FrameOK(move) /\ move.pc = "checked"
                               /\ Call(<<move>>) \/ Call(<<Script("OnItemCheckMove"), move>>)
    <3>1. PICK move \in Frames : MoveCalled(move, i, to)
      BY <1>2, MoveShape
    <3>2. QED
      BY <3>1 DEF MoveCalled
  <2>2. PICK c \in Frames : c = Script("OnItemCheckMove") /\ FrameOK(c)
    BY ScriptLemma
  <2>3. Call(<<move>>) \/ Call(<<c, move>>)
    BY <2>1, <2>2
  <2>4. GoodStack(stack')
    BY <2>1, <2>2, <2>3, CallOne, CallTwo DEF ForMove
  <2>5. QED
    BY <1>2, <2>4 DEF MoveItem
<1>3. ASSUME NEW i \in Things, NEW n \in Counts, DestroyItem(i, n)
      PROVE  GoodStack(stack') /\ UNCHANGED <<life, own, inside>> /\ count' \in [Things -> Nat \ {0}]
  <2>1. UNCHANGED <<life, own, inside>>
    BY <1>3, DestroyShape
  <2>2. CASE Call(<<Scr>>) /\ n < count[i] /\ count' = [count EXCEPT ![i] = count[i] - n]
    <3>1. count[i] \in Nat /\ n \in Nat
      BY CountsAssumption DEF DataInv
    <3>2. count[i] - n \in Nat \ {0}
      BY <2>2, <3>1
    <3>3. count' \in [Things -> Nat \ {0}]
      BY <2>2, <3>2 DEF DataInv
    <3>4. GoodStack(stack')
      BY <1>1, <2>2, CallOne
    <3>5. QED
      BY <2>1, <3>3, <3>4
  <2>3. ASSUME NEW d \in Frames, FrameOK(d), d.pc = "destroy", Call(<<d>>), UNCHANGED count
        PROVE  GoodStack(stack') /\ count' \in [Things -> Nat \ {0}]
    BY <2>3, CallOne DEF DataInv
  <2>4. QED
    BY <1>3, <2>1, <2>2, <2>3, DestroyShape
<1>4. ASSUME NEW h \in Holders, NEW n \in Counts, AddItem(h, n)
      PROVE  /\ GoodStack(stack') /\ UNCHANGED <<own, inside>>
             /\ life' \in [Things -> {"free", "live", "destroying", "destroyed"}]
             /\ count' \in [Things -> Nat \ {0}]
  <2>1. UNCHANGED <<own, inside>> /\ n \in Nat \ {0}
    BY <1>4, AddShape, CountsAssumption
  <2>2. ASSUME NEW x \in Things, UNCHANGED life, Call(<<Scr>>), count' = [count EXCEPT ![x] = count[x] + n]
        PROVE  /\ GoodStack(stack')
               /\ life' \in [Things -> {"free", "live", "destroying", "destroyed"}]
               /\ count' \in [Things -> Nat \ {0}]
    <3>1. count[x] + n \in Nat \ {0}
      BY <2>1 DEF DataInv
    <3>2. QED
      BY <1>1, <2>2, <3>1, CallOne DEF DataInv
  <2>3. ASSUME NEW c \in Frames, FrameOK(c), c.pc = "created", Call(<<Scr, c>>),
               life' = [life EXCEPT ![NewItem] = "live"], count' = [count EXCEPT ![NewItem] = n]
        PROVE  /\ GoodStack(stack')
               /\ life' \in [Things -> {"free", "live", "destroying", "destroyed"}]
               /\ count' \in [Things -> Nat \ {0}]
    <3>1. GoodStack(stack')
      BY <1>1, <2>3, CallTwo DEF ForMove
    <3>2. QED
      BY <2>1, <2>3, <3>1 DEF DataInv
  <2>4. Coins \subseteq Things
    BY DEF Things
  <2>5. QED
    BY <1>4, <2>1, <2>2, <2>3, <2>4, AddShape
<1>5. DataInv
  OBVIOUS
<1>6. QED
  BY <1>2, <1>3, <1>4, <1>5 DEF Scripts, DataInv, items

LEMMA EngineType ==
    ASSUME TypeInv, Engine
    PROVE  /\ GoodStack(stack')
           /\ life' \in [Things -> {"free", "live", "destroying", "destroyed"}]
           /\ own' \in [Things -> Holders \cup {Nowhere}]
           /\ inside' \in [Holders -> SUBSET Things]
           /\ count' \in [Things -> Nat \ {0}]
<1> DEFINE Lives == life' \in [Things -> {"free", "live", "destroying", "destroyed"}]
           Places == /\ own' \in [Things -> Holders \cup {Nowhere}]
                     /\ inside' \in [Holders -> SUBSET Things]
           Counted == count' \in [Things -> Nat \ {0}]
<1>1. Scr \in Frames /\ FrameOK(Scr) /\ Scr.pc = "script"
  BY ScriptLemma DEF Scr
<1>2. GoodStack(stack) /\ DataInv
  BY DEF TypeInv
<1>3. UNCHANGED life => Lives
  BY <1>2 DEF DataInv
<1>4. UNCHANGED <<own, inside>> => Places
  BY <1>2 DEF DataInv
<1>5. UNCHANGED count => Counted
  BY <1>2 DEF DataInv
<1>6. \A i, n : n \in Nat \ {0} /\ count' = [count EXCEPT ![i] = n] => Counted
  BY <1>2 DEF DataInv
<1>7. ASSUME NEW i, NEW x \in {"free", "live", "destroying", "destroyed"},
             life' = [life EXCEPT ![i] = x]
      PROVE  Lives
  BY <1>2, <1>7 DEF DataInv
<1> HIDE DEF Lives, Places, Counted
<1> DEFINE Goal == GoodStack(stack') /\ Lives /\ Places /\ Counted
<1>8. CASE ScriptReturns
  <2>1. GoodStack(stack') /\ UNCHANGED items
    BY <1>2, <1>8, ScriptReturnsShape, PopGood
  <2>2. QED
    BY <1>3, <1>4, <1>5, <2>1 DEF items, Lives, Places, Counted
<1>9. CASE MoveRefused
  <2>1. PICK t : t = Tail(stack)
    OBVIOUS
  <2>2. GoodStack(t) /\ t # <<>> /\ stack' = Tail(t) /\ UNCHANGED items
    BY <1>9, <2>1, MoveRefusedShape
  <2>3. GoodStack(stack')
    BY <2>2, TailGood
  <2>4. QED
    BY <1>3, <1>4, <1>5, <2>2, <2>3 DEF items, Lives, Places, Counted
<1>10. CASE MoveWhole
  <2>1. /\ Top.pc = "checked" /\ Top.item \in Things /\ Top.from \in Holders /\ UNCHANGED <<life, count>>
        /\ \E a \in Frames : /\ FrameOK(a) /\ a.pc = "add"
                             /\ RemoveItemHolder(Top.item, Top.from, <<a>>)
    BY <1>10, MoveWholeShape
  <2>2. PICK a \in Frames : /\ FrameOK(a) /\ a.pc = "add"
                            /\ RemoveItemHolder(Top.item, Top.from, <<a>>)
    BY <2>1
  <2>3. GoodStack(stack') /\ Places
    BY <2>1, <2>2, RemoveGood DEF Places
  <2>4. QED
    BY <1>3, <1>5, <2>1, <2>3 DEF Lives, Places, Counted
<1>11. CASE SplitItem
  <2>1. Top.pc = "checked" /\ UNCHANGED <<own, inside>>
    BY <1>11, SplitItemShape
  <2>2. CASE GoTo(<<>>) /\ UNCHANGED <<life, count>>
    BY <1>2, <1>3, <1>4, <1>5, <2>1, <2>2, PopGood DEF Lives, Places, Counted
  <2>3. CASE /\ Top.n \in Nat \ {0}
             /\ life' = [life EXCEPT ![NewItem] = "live"]
             /\ count' = [count EXCEPT ![NewItem] = Top.n]
             /\ \E f \in Frames : FrameOK(f) /\ f.pc = "split" /\ GoTo(<<Scr, f>>)
    <3>1. GoodStack(stack')
      BY <1>1, <1>2, <2>1, <2>3, TwoFrames DEF ForMove
    <3>2. Lives /\ Counted
      BY <1>6, <1>7, <2>3
    <3>3. QED
      BY <1>4, <2>1, <3>1, <3>2 DEF Lives, Places, Counted
  <2>4. QED
    BY <1>11, <2>2, <2>3, SplitItemShape
<1>12. CASE SplitDone
  <2>1. Top.pc = "split" /\ Top.n \in Nat \ {0} /\ UNCHANGED <<life, own, inside>>
    BY <1>12, SplitDoneShape
  <2>2. Counted
    BY <1>5, <1>6, <1>12, SplitDoneShape
  <2>3. \/ GoTo(<<>>)
        \/ \E a \in Frames : FrameOK(a) /\ a.pc = "add" /\ GoTo(<<Scr, a>>)
        \/ Throw
    BY <1>12, SplitDoneShape
  <2>4. GoodStack(stack')
    BY <1>1, <1>2, <2>1, <2>3, PopGood, TwoFrames, ThrowGood DEF ForMove
  <2>5. QED
    BY <1>3, <1>4, <2>1, <2>2, <2>4 DEF Lives, Places, Counted
<1>13. CASE Created
  <2>1. Top.pc = "created" /\ UNCHANGED items
    BY <1>13, CreatedShape
  <2>2. GoTo(<<>>) \/ \E a \in Frames : FrameOK(a) /\ a.pc = "add" /\ GoTo(<<a>>)
    BY <1>13, CreatedShape
  <2>3. GoodStack(stack')
    BY <1>2, <2>1, <2>2, PopGood, OneFrame
  <2>4. QED
    BY <1>3, <1>4, <1>5, <2>1, <2>3 DEF items, Lives, Places, Counted
<1>14. CASE Add
  <2>1. /\ Top.pc = "add" /\ Top.item \in Things /\ Top.to \in Holders /\ UNCHANGED <<life, count>>
    BY <1>14, PutShape
  <2>2. \/ \E d \in Frames, m \in Frames : /\ FrameOK(d) /\ d.pc = "destroy"
                                           /\ FrameOK(m) /\ m.pc = "merge" /\ GoTo(<<d, m>>)
        \/ GoTo(<<>>) \/ GoTo(<<Scr>>) \/ Throw
    BY <1>14, PutShape
  <2>3. GoodStack(stack')
    BY <1>1, <1>2, <2>1, <2>2, PopGood, OneFrame, TwoFrames, ThrowGood DEF ForMove
  <2>4. UNCHANGED own \/ own' = [own EXCEPT ![Top.item] = Top.to]
    BY <1>14, PutShape
  <2>5. UNCHANGED inside \/ inside' = [inside EXCEPT ![Top.to] = @ \cup {Top.item}]
    BY <1>14, PutShape
  <2>6. own' \in [Things -> Holders \cup {Nowhere}]
    BY <1>2, <2>1, <2>4 DEF DataInv
  <2>7. inside' \in [Holders -> SUBSET Things]
    BY <1>2, <2>1, <2>5 DEF DataInv
  <2>8. QED
    BY <1>3, <1>5, <2>1, <2>3, <2>6, <2>7 DEF Lives, Places, Counted
<1>15. CASE Merge
  <2>1. /\ Top.pc = "merge" /\ Top.item \in Things /\ Top.n \in Nat /\ UNCHANGED <<life, own, inside>>
        /\ count' = [count EXCEPT ![Top.item] = count[Top.item] + Top.n] /\ GoTo(<<Scr>>)
    BY <1>15, MergeShape
  <2>2. count[Top.item] + Top.n \in Nat \ {0}
    BY <1>2, <2>1 DEF DataInv
  <2>3. GoodStack(stack')
    BY <1>1, <1>2, <2>1, OneFrame
  <2>4. QED
    BY <1>3, <1>4, <1>6, <2>1, <2>2, <2>3 DEF Lives, Places, Counted
<1>16. CASE BeginDestroy
  <2>1. Top.pc = "destroy" /\ UNCHANGED <<own, inside, count>>
    BY <1>16, BeginDestroyShape
  <2>2. Lives
    BY <1>3, <1>7, <1>16, BeginDestroyShape
  <2>3. GoTo(<<>>) \/ \E f \in Frames : FrameOK(f) /\ f.pc = "tear" /\ GoTo(<<Scr, f>>)
    BY <1>16, BeginDestroyShape
  <2>4. GoodStack(stack')
    BY <1>1, <1>2, <2>1, <2>3, PopGood, TwoFrames DEF ForMove
  <2>5. QED
    BY <1>4, <1>5, <2>1, <2>2, <2>4 DEF Lives, Places, Counted
<1>17. CASE TearOff
  <2>1. /\ Top.pc = "tear" /\ Top.item \in Things /\ UNCHANGED <<life, count>>
        /\ \E a \in Frames : /\ FrameOK(a) /\ a.pc = "inner"
                             /\ RemoveItemHolder(Top.item, GetItemHolder(Top.item), <<a>>)
    BY <1>17, TearOffShape
  <2>2. PICK h : h = GetItemHolder(Top.item)
    OBVIOUS
  <2>3. PICK a \in Frames : FrameOK(a) /\ a.pc = "inner" /\ RemoveItemHolder(Top.item, h, <<a>>)
    BY <2>1, <2>2
  <2>4. GoodStack(stack') /\ Places
    BY <2>1, <2>3, RemoveGood DEF Places
  <2>5. QED
    BY <1>3, <1>5, <2>1, <2>4 DEF Lives, Places, Counted
<1>18. CASE DestroyInner
  <2>1. Top.pc # "jobs" /\ UNCHANGED items
    BY <1>18, DestroyInnerShape DEF Tearing
  <2>2. \E d \in Frames, f \in Frames : /\ FrameOK(d) /\ d.pc = "destroy"
                                        /\ FrameOK(f) /\ f.pc = "inner" /\ GoTo(<<d, f>>)
    BY <1>18, DestroyInnerShape
  <2>3. GoodStack(stack')
    BY <1>2, <2>1, <2>2, TwoFrames DEF ForMove
  <2>4. QED
    BY <1>3, <1>4, <1>5, <2>1, <2>3 DEF items, Lives, Places, Counted
<1>19. CASE NextRound
  <2>1. /\ Top.pc = "inner" /\ UNCHANGED items
        /\ \E f \in Frames : FrameOK(f) /\ f.pc = "tear" /\ GoTo(<<f>>)
    BY <1>19, NextRoundShape
  <2>2. GoodStack(stack')
    BY <1>2, <2>1, OneFrame
  <2>3. QED
    BY <1>3, <1>4, <1>5, <2>1, <2>2 DEF items, Lives, Places, Counted
<1>20. CASE EndDestroy
  <2>1. /\ Top.pc # "jobs" /\ UNCHANGED <<own, inside, count>>
        /\ life' = [life EXCEPT ![Top.item] = "destroyed"] /\ GoTo(<<>>)
    BY <1>20, EndDestroyShape DEF Tearing
  <2>2. GoodStack(stack')
    BY <1>2, <2>1, PopGood
  <2>3. QED
    BY <1>4, <1>5, <1>7, <2>1, <2>2 DEF Lives, Places, Counted
<1>21. QED
  BY <1>8, <1>9, <1>10, <1>11, <1>12, <1>13, <1>14, <1>15, <1>16, <1>17, <1>18, <1>19, <1>20 DEF Engine

LEMMA ThrownLemma ==
    ASSUME Next
    PROVE  thrown' = TRUE \/ UNCHANGED thrown
<1>1. (\E frames : GoTo(frames) \/ Call(frames)) => UNCHANGED thrown
  BY DEF GoTo, Call
<1>2. Throw => thrown' = TRUE
  BY DEF Throw
<1>3. ASSUME NEW i, NEW h, NEW rest, RemoveItemHolder(i, h, rest)
      PROVE  Throw \/ \E frames : GoTo(frames)
  BY <1>3 DEF RemoveItemHolder
<1>4. CASE Scripts
  BY <1>1, <1>4 DEF Scripts, MoveItem, DestroyItem, AddItem
<1>5. CASE Engine
  <2>1. CASE MoveRefused
    BY <2>1 DEF MoveRefused
  <2>2. CASE MoveWhole \/ TearOff
    BY <1>1, <1>2, <1>3, <2>2 DEF MoveWhole, TearOff
  <2>3. CASE Add
    BY <1>1, <1>2, <2>3 DEF Add, AddItemTo
  <2>4. CASE ScriptReturns \/ SplitItem \/ SplitDone \/ Created \/ Merge
    BY <1>1, <1>2, <2>4 DEF ScriptReturns, SplitItem, SplitDone, Created, Merge
  <2>5. CASE BeginDestroy \/ DestroyInner \/ NextRound \/ EndDestroy
    BY <1>1, <2>5 DEF BeginDestroy, DestroyInner, NextRound, EndDestroy
  <2>6. QED
    BY <1>5, <2>1, <2>2, <2>3, <2>4, <2>5 DEF Engine
<1>6. QED
  BY <1>4, <1>5 DEF Next

LEMMA InitType ==
    ASSUME Init
    PROVE  TypeInv
<1>1. life \in [Things -> {"free", "live", "destroying", "destroyed"}]
  BY DEF Init
<1>2. own \in [Things -> Holders \cup {Nowhere}]
  BY StartAssumption DEF Init
<1>3. inside \in [Holders -> SUBSET Things]
  BY DEF Init
<1>4. count \in [Things -> Nat \ {0}]
  BY StartAssumption DEF Init
<1>5. thrown \in BOOLEAN /\ broken \in BOOLEAN /\ stack = <<>>
  BY DEF Init
<1>6. GoodStack(stack)
  BY <1>5, EmptyGood
<1>7. QED
  BY <1>1, <1>2, <1>3, <1>4, <1>5, <1>6 DEF TypeInv, DataInv

LEMMA NextType ==
    ASSUME TypeInv, [Next]_vars
    PROVE  TypeInv'
<1>1. CASE UNCHANGED vars
  BY <1>1 DEF TypeInv, DataInv, vars, items, GoodStack
<1>2. CASE Next
  <2>1. thrown' \in BOOLEAN
    BY <1>2, ThrownLemma DEF TypeInv, DataInv
  <2>2. broken' \in BOOLEAN
    <3>1. broken' = (broken \/ Touches)
      BY <1>2 DEF Next, Watch
    <3>2. QED
      BY <3>1, Zenon DEF TypeInv, DataInv
  <2>3. /\ GoodStack(stack')
        /\ life' \in [Things -> {"free", "live", "destroying", "destroyed"}]
        /\ own' \in [Things -> Holders \cup {Nowhere}]
        /\ inside' \in [Holders -> SUBSET Things]
        /\ count' \in [Things -> Nat \ {0}]
    BY <1>2, ScriptsType, EngineType DEF Next
  <2>4. QED
    BY <2>1, <2>2, <2>3 DEF TypeInv, DataInv, GoodStack
<1>3. QED
  BY <1>1, <1>2

(* Whatever scripts do, every variable has its type and every call under   *)
(* way has what its function goes on with: no count becomes 0 or negative. *)
THEOREM TypeTheorem == Spec => []TypeOK
<1>1. Init => TypeInv
  BY InitType
<1>2. TypeInv /\ [Next]_vars => TypeInv'
  BY NextType
<1>3. TypeInv => TypeOK
  BY DEF TypeInv, DataInv, GoodStack, Frames, TypeOK
<1>4. QED
  BY <1>1, <1>2, <1>3, PTL DEF Spec

-----------------------------------------------------------------------------
(* What a call under way has been promised: that the items and holders it  *)
(* goes on with are there, and where the item is.                          *)
Alive(h, l) == h \in Things => l[h] \in {"live", "destroying"}

Promise(f, l, o) ==
    /\ f.pc = "checked" => Alive(f.item, l) /\ Alive(f.to, l) /\ o[f.item] = f.from
    /\ f.pc = "split" => /\ Alive(f.item, l) /\ Alive(f.to, l)
                         /\ o[f.from] = Nowhere /\ l[f.from] # "free"
    /\ f.pc = "created" => Alive(f.to, l) /\ o[f.item] = Nowhere /\ l[f.item] # "free"
    /\ f.pc = "add" => Alive(f.item, l) /\ Alive(f.to, l) /\ o[f.item] = Nowhere
    /\ f.pc = "merge" => Alive(f.item, l)
    /\ f.pc \in Tearing => l[f.item] = "destroying"

Promises(s, l, o) == \A k \in 1..Len(s) : Promise(s[k], l, o)

(* The items that the call has to put somewhere, those it has to destroy   *)
(* and those that it is destroying.                                        *)
Owes(f) == IF f.pc \in {"add", "created"} THEN {f.item} ELSE IF f.pc = "split" THEN {f.from} ELSE {}
Dooms(f) == IF f.pc = "destroy" THEN {f.item} ELSE {}
Tears(f) == IF f.pc \in Tearing THEN {f.item} ELSE {}
Owed(s) == UNION {Owes(s[k]) : k \in 1..Len(s)}
Doomed(s) == UNION {Dooms(s[k]) : k \in 1..Len(s)}
Torn(s) == UNION {Tears(s[k]) : k \in 1..Len(s)}

(* Between two calls there is a callback, but for what DestroyItem calls   *)
(* itself: for what is inside a bag, and for coins that join others.       *)
Behind(a, b) ==
    \/ IsScript(a) \/ IsScript(b)
    \/ a.pc \in Ending /\ b.pc = "inner" /\ b.item \in Bags
    \/ a.pc \in Ending /\ b.pc = "merge" /\ a.item \in Coins /\ a.item # b.item

(* No two calls put or destroy the same item.                              *)
Chain(s) ==
    /\ \A k \in 1..(Len(s) - 1) : Behind(s[k], s[k + 1])
    /\ \A j, k \in 1..Len(s) : \A i : i \in Owes(s[j]) /\ i \in Owes(s[k]) => j = k
    /\ \A j, k \in 1..Len(s) : \A i : i \in Tears(s[j]) /\ i \in Tears(s[k]) => j = k

(* Somebody takes care of each item that is nowhere or half destroyed.     *)
Covers(s, l, o) ==
    \A i \in Things : /\ l[i] = "live" /\ o[i] = Nowhere => i \in Owed(s) \cup Doomed(s)
                      /\ l[i] = "destroying" => i \in Torn(s)

PlaceInv(l, o, d) ==
    /\ \A h \in Holders, i \in Things : i \in d[h] <=> o[i] = h
    /\ \A i \in Things : l[i] \in {"free", "destroyed"} => o[i] = Nowhere
    /\ \A i \in Things : o[i] \in Bags => l[o[i]] # "destroyed"

Kept(s, l, o) == Promises(s, l, o) /\ Chain(s)

Sound ==
    /\ thrown = FALSE
    /\ PlaceInv(life, own, inside)
    /\ Kept(stack, life, own)
    /\ Covers(stack, life, own)

IInv == TypeInv /\ (~broken => Sound)

-----------------------------------------------------------------------------
(* One frame more and one frame less.                                      *)
Push(a, t) == <<a>> \o t

LEMMA PushLemma ==
    ASSUME NEW a \in Frames, NEW t \in Seq(Frames)
    PROVE  /\ Push(a, t) \in Seq(Frames) /\ Push(a, t) # <<>>
           /\ Len(t) \in Nat /\ Len(Push(a, t)) = Len(t) + 1
           /\ Push(a, t)[1] = a /\ \A k \in 1..Len(t) : Push(a, t)[k + 1] = t[k]
<1>1. <<a>> \in Seq(Frames) /\ Len(<<a>>) = 1 /\ <<a>>[1] = a /\ Len(t) \in Nat
  BY LenProperties
<1>2. PICK u \in Seq(Frames) : u = <<a>> /\ Len(u) = 1 /\ u[1] = a
  BY <1>1
<1> DEFINE r == u \o t
<1>3. /\ r \in Seq(Frames) /\ Len(r) = 1 + Len(t)
      /\ \A i \in 1..(1 + Len(t)) : r[i] = IF i <= 1 THEN u[i] ELSE t[i - 1]
  BY <1>1, <1>2, ConcatProperties
<1> HIDE DEF r
<1>4. r[1] = a /\ \A k \in 1..Len(t) : r[k + 1] = t[k]
  BY <1>1, <1>2, <1>3
<1>5. r # <<>>
  BY <1>1, <1>3
<1>6. Push(a, t) = r
  BY <1>2 DEF Push, r
<1>7. QED
  BY <1>1, <1>3, <1>4, <1>5, <1>6

LEMMA PushTwo ==
    ASSUME NEW a \in Frames, NEW b \in Frames, NEW t \in Seq(Frames)
    PROVE  <<a, b>> \o t = Push(a, Push(b, t))
<1>1. /\ <<a, b>> \in Seq(Frames) /\ Len(<<a, b>>) = 2 /\ <<a, b>>[1] = a /\ <<a, b>>[2] = b
      /\ Len(t) \in Nat
  BY LenProperties
<1>2. PICK u \in Seq(Frames) : u = <<a, b>> /\ Len(u) = 2 /\ u[1] = a /\ u[2] = b
  BY <1>1
<1> DEFINE r == u \o t
           q == Push(b, t)
           p == Push(a, q)
<1>3. /\ r \in Seq(Frames) /\ Len(r) = 2 + Len(t)
      /\ \A i \in 1..(2 + Len(t)) : r[i] = IF i <= 2 THEN u[i] ELSE t[i - 2]
  BY <1>1, <1>2, ConcatProperties
<1>4. q \in Seq(Frames) /\ Len(q) = Len(t) + 1 /\ q[1] = b /\ \A k \in 1..Len(t) : q[k + 1] = t[k]
  BY PushLemma
<1> HIDE DEF q
<1>5. p \in Seq(Frames) /\ Len(p) = Len(q) + 1 /\ p[1] = a /\ \A k \in 1..Len(q) : p[k + 1] = q[k]
  BY <1>4, PushLemma
<1> HIDE DEF p, r
<1>6. ASSUME NEW k \in 1..Len(r) PROVE r[k] = p[k]
  <2>1. CASE k = 1
    BY <1>1, <1>2, <1>3, <1>5, <2>1
  <2>2. CASE k = 2
    <3>1. p[1 + 1] = q[1] /\ r[2] = b
      BY <1>1, <1>2, <1>3, <1>4, <1>5
    <3>2. QED
      BY <1>4, <2>2, <3>1
  <2>3. CASE k > 2
    <3>1. PICK j \in 1..Len(t) : j = k - 2 /\ k = (j + 1) + 1
      BY <1>1, <1>3, <2>3
    <3>2. p[(j + 1) + 1] = q[j + 1] /\ q[j + 1] = t[j] /\ r[k] = t[j]
      BY <1>1, <1>3, <1>4, <1>5, <2>3, <3>1
    <3>3. QED
      BY <3>1, <3>2
  <2>4. QED
    BY <1>1, <1>3, <2>1, <2>2, <2>3
<1>7. Len(r) = Len(p)
  BY <1>1, <1>3, <1>4, <1>5
<1>8. r = p
  BY <1>3, <1>5, <1>6, <1>7, SeqEqual
<1>9. QED
  BY <1>2, <1>8 DEF r, p, q

LEMMA PushSound ==
    ASSUME NEW a \in Frames, NEW t \in Seq(Frames), NEW l, NEW o,
           Kept(t, l, o), Promise(a, l, o), t # <<>> => Behind(a, t[1]),
           \A i : ~(i \in Owes(a) /\ i \in Owed(t)), \A i : ~(i \in Tears(a) /\ i \in Torn(t))
    PROVE  Kept(Push(a, t), l, o)
<1> DEFINE r == Push(a, t)
<1>1. /\ Len(t) \in Nat /\ Len(r) = Len(t) + 1 /\ r[1] = a /\ \A k \in 1..Len(t) : r[k + 1] = t[k]
  BY PushLemma
<1> HIDE DEF r
<1>2. ASSUME NEW k \in 1..Len(r)
      PROVE  (k = 1 /\ r[k] = a) \/ \E j \in 1..Len(t) : k = j + 1 /\ r[k] = t[j]
  <2>1. CASE k = 1
    BY <1>1, <2>1
  <2>2. CASE k # 1
    <3>1. PICK j \in 1..Len(t) : k = j + 1
      <4>1. k - 1 \in 1..Len(t) /\ k = (k - 1) + 1
        BY <1>1, <2>2
      <4>2. QED
        BY <4>1
    <3>2. QED
      BY <1>1, <3>1
  <2>3. QED
    BY <2>1, <2>2
<1>3. Promises(r, l, o)
  BY <1>2 DEF Promises, Kept
<1>4. ASSUME NEW k \in 1..(Len(r) - 1) PROVE Behind(r[k], r[k + 1])
  <2>1. CASE k = 1
    <3>1. r[k] = a /\ r[k + 1] = t[1] /\ t # <<>>
      BY <1>1, <2>1
    <3>2. QED
      BY <3>1
  <2>2. CASE k # 1
    <3>1. PICK j \in 1..(Len(t) - 1) : k = j + 1
      <4>1. k - 1 \in 1..(Len(t) - 1) /\ k = (k - 1) + 1
        BY <1>1, <2>2
      <4>2. QED
        BY <4>1
    <3>2. r[k] = t[j] /\ r[k + 1] = t[j + 1]
      BY <1>1, <3>1
    <3>3. QED
      BY <3>2 DEF Kept, Chain
  <2>3. QED
    BY <2>1, <2>2
<1>5. \A k \in 1..Len(t) : \A i : (i \in Owes(t[k]) => i \in Owed(t)) /\ (i \in Tears(t[k]) => i \in Torn(t))
  BY DEF Owed, Torn
<1>6. ASSUME NEW j \in 1..Len(r), NEW k \in 1..Len(r), NEW i, i \in Owes(r[j]), i \in Owes(r[k])
      PROVE  j = k
  BY <1>2, <1>5, <1>6 DEF Kept, Chain
<1>7. ASSUME NEW j \in 1..Len(r), NEW k \in 1..Len(r), NEW i, i \in Tears(r[j]), i \in Tears(r[k])
      PROVE  j = k
  BY <1>2, <1>5, <1>7 DEF Kept, Chain
<1>8. Chain(r)
  BY <1>4, <1>6, <1>7 DEF Chain
<1>9. QED
  BY <1>3, <1>8 DEF Kept, r

LEMMA PushSets ==
    ASSUME NEW a \in Frames, NEW t \in Seq(Frames)
    PROVE  /\ Owed(Push(a, t)) = Owes(a) \cup Owed(t)
           /\ Doomed(Push(a, t)) = Dooms(a) \cup Doomed(t)
           /\ Torn(Push(a, t)) = Tears(a) \cup Torn(t)
<1> DEFINE r == Push(a, t)
<1>1. /\ Len(t) \in Nat /\ Len(r) = Len(t) + 1 /\ r[1] = a /\ \A k \in 1..Len(t) : r[k + 1] = t[k]
  BY PushLemma
<1> HIDE DEF r
<1>2. 1 \in 1..Len(r) /\ \A k \in 1..Len(t) : k + 1 \in 1..Len(r)
  BY <1>1
<1>3. \A k \in 1..Len(r) : r[k] = a \/ \E j \in 1..Len(t) : r[k] = t[j]
  <2>1. \A k \in 1..Len(r) : k = 1 \/ (k - 1 \in 1..Len(t) /\ k = (k - 1) + 1)
    BY <1>1
  <2>2. QED
    BY <1>1, <2>1
<1>4. Owed(r) = Owes(a) \cup Owed(t)
  BY <1>1, <1>2, <1>3 DEF Owed
<1>5. Doomed(r) = Dooms(a) \cup Doomed(t)
  BY <1>1, <1>2, <1>3 DEF Doomed
<1>6. Torn(r) = Tears(a) \cup Torn(t)
  BY <1>1, <1>2, <1>3 DEF Torn
<1>7. QED
  BY <1>4, <1>5, <1>6 DEF r

LEMMA PopSound ==
    ASSUME NEW s \in Seq(Frames), s # <<>>, NEW l, NEW o, Kept(s, l, o)
    PROVE  /\ Kept(Tail(s), l, o) /\ Promise(s[1], l, o)
           /\ Tail(s) # <<>> => Behind(s[1], Tail(s)[1])
           /\ \A i : ~(i \in Owes(s[1]) /\ i \in Owed(Tail(s)))
           /\ \A i : ~(i \in Tears(s[1]) /\ i \in Torn(Tail(s)))
<1> DEFINE t == Tail(s)
<1>1. /\ Len(s) \in Nat /\ Len(s) # 0 /\ t \in Seq(Frames) /\ Len(t) = Len(s) - 1
      /\ \A k \in 1..Len(t) : t[k] = s[k + 1]
  BY LenProperties, EmptySeq, HeadTailProperties
<1> HIDE DEF t
<1>2. 1 \in 1..Len(s) /\ \A k \in 1..Len(t) : k + 1 \in 1..Len(s) /\ k + 1 # 1
  BY <1>1
<1>3. Promises(t, l, o) /\ Promise(s[1], l, o)
  BY <1>1, <1>2 DEF Kept, Promises
<1>4. ASSUME NEW k \in 1..(Len(t) - 1) PROVE Behind(t[k], t[k + 1])
  <2>1. t[k] = s[k + 1] /\ t[k + 1] = s[(k + 1) + 1] /\ k + 1 \in 1..(Len(s) - 1)
    BY <1>1
  <2>2. QED
    BY <2>1 DEF Kept, Chain
<1>5. ASSUME t # <<>> PROVE Behind(s[1], t[1])
  <2>1. Len(t) # 0
    BY <1>1, <1>5, EmptySeq
  <2>2. t[1] = s[1 + 1] /\ 1 \in 1..(Len(s) - 1)
    BY <1>1, <2>1
  <2>3. QED
    BY <2>2 DEF Kept, Chain
<1>6. ASSUME NEW j \in 1..Len(t), NEW k \in 1..Len(t), NEW i, i \in Owes(t[j]), i \in Owes(t[k])
      PROVE  j = k
  <2>1. j + 1 = k + 1
    BY <1>1, <1>2, <1>6 DEF Kept, Chain
  <2>2. QED
    BY <2>1
<1>7. ASSUME NEW j \in 1..Len(t), NEW k \in 1..Len(t), NEW i, i \in Tears(t[j]), i \in Tears(t[k])
      PROVE  j = k
  <2>1. j + 1 = k + 1
    BY <1>1, <1>2, <1>7 DEF Kept, Chain
  <2>2. QED
    BY <2>1
<1>8. ASSUME NEW i, i \in Owes(s[1]), i \in Owed(t) PROVE FALSE
  <2>1. PICK k \in 1..Len(t) : i \in Owes(t[k])
    BY <1>8 DEF Owed
  <2>2. i \in Owes(s[k + 1]) /\ k + 1 \in 1..Len(s) /\ k + 1 # 1
    BY <1>1, <1>2, <2>1
  <2>3. QED
    BY <1>2, <1>8, <2>2 DEF Kept, Chain
<1>9. ASSUME NEW i, i \in Tears(s[1]), i \in Torn(t) PROVE FALSE
  <2>1. PICK k \in 1..Len(t) : i \in Tears(t[k])
    BY <1>9 DEF Torn
  <2>2. i \in Tears(s[k + 1]) /\ k + 1 \in 1..Len(s) /\ k + 1 # 1
    BY <1>1, <1>2, <2>1
  <2>3. QED
    BY <1>2, <1>9, <2>2 DEF Kept, Chain
<1>10. QED
  BY <1>3, <1>4, <1>5, <1>6, <1>7, <1>8, <1>9 DEF Kept, Chain, t

LEMMA PopSets ==
    ASSUME NEW s \in Seq(Frames), s # <<>>
    PROVE  /\ Owed(s) = Owes(s[1]) \cup Owed(Tail(s))
           /\ Doomed(s) = Dooms(s[1]) \cup Doomed(Tail(s))
           /\ Torn(s) = Tears(s[1]) \cup Torn(Tail(s))
<1> DEFINE t == Tail(s)
<1>1. /\ Len(s) \in Nat /\ Len(s) # 0 /\ t \in Seq(Frames) /\ Len(t) = Len(s) - 1
      /\ \A k \in 1..Len(t) : t[k] = s[k + 1]
  BY LenProperties, EmptySeq, HeadTailProperties
<1> HIDE DEF t
<1>2. 1 \in 1..Len(s) /\ \A k \in 1..Len(t) : k + 1 \in 1..Len(s)
  BY <1>1
<1>3. \A k \in 1..Len(s) : s[k] = s[1] \/ \E j \in 1..Len(t) : s[k] = t[j]
  <2>1. \A k \in 1..Len(s) : k = 1 \/ (k - 1 \in 1..Len(t) /\ k = (k - 1) + 1)
    BY <1>1
  <2>2. QED
    BY <1>1, <2>1
<1>4. Owed(s) = Owes(s[1]) \cup Owed(t)
  BY <1>1, <1>2, <1>3 DEF Owed
<1>5. Doomed(s) = Dooms(s[1]) \cup Doomed(t)
  BY <1>1, <1>2, <1>3 DEF Doomed
<1>6. Torn(s) = Tears(s[1]) \cup Torn(t)
  BY <1>1, <1>2, <1>3 DEF Torn
<1>7. QED
  BY <1>4, <1>5, <1>6 DEF t

-----------------------------------------------------------------------------
(* What a change of an item does to the promises made to the calls under   *)
(* way.                                                                    *)
LifeType(l) == l \in [Things -> {"free", "live", "destroying", "destroyed"}]
OwnType(o) == o \in [Things -> Holders \cup {Nowhere}]

LEMMA NewKept ==
    ASSUME NEW s \in Seq(Frames), \A k \in 1..Len(s) : FrameOK(s[k]),
           NEW l, LifeType(l), NEW o, Kept(s, l, o),
           NEW x \in Things, l[x] = "free", NEW m, m = [l EXCEPT ![x] = "live"]
    PROVE  Kept(s, m, o) /\ x \notin Owed(s)
<1>1. \A h : Alive(h, l) => Alive(h, m)
  BY DEF Alive, LifeType
<1>2. \A i \in Things : m[i] = l[i] \/ (i = x /\ m[i] = "live")
  BY DEF LifeType
<1>3. ASSUME NEW k \in 1..Len(s) PROVE Promise(s[k], m, o) /\ x \notin Owes(s[k])
  <2>1. Promise(s[k], l, o) /\ FrameOK(s[k])
    BY DEF Kept, Promises
  <2>2. CASE IsScript(s[k])
    BY <2>2 DEF IsScript, Promise, Owes, Tearing
  <2>3. CASE ~IsScript(s[k])
    <3>1. s[k].item \in Things /\ (s[k].pc = "split" => s[k].from \in Things)
      BY <2>1, <2>3 DEF FrameOK
    <3>2. Promise(s[k], m, o)
      BY <1>1, <1>2, <2>1, <3>1 DEF Promise, Tearing
    <3>3. ~(Alive(x, l))
      BY DEF Alive
    <3>4. x \notin Owes(s[k])
      BY <2>1, <3>3 DEF Promise, Owes
    <3>5. QED
      BY <3>2, <3>4
  <2>4. QED
    BY <2>2, <2>3
<1>4. QED
  BY <1>3 DEF Kept, Promises, Owed

LEMMA BeginKept ==
    ASSUME NEW s \in Seq(Frames), \A k \in 1..Len(s) : FrameOK(s[k]),
           NEW l, LifeType(l), NEW o, Kept(s, l, o),
           NEW x \in Things, l[x] = "live", NEW m, m = [l EXCEPT ![x] = "destroying"]
    PROVE  Kept(s, m, o) /\ x \notin Torn(s)
<1>1. \A h : Alive(h, l) => Alive(h, m)
  BY DEF Alive, LifeType
<1>2. \A i \in Things : m[i] = l[i] \/ (i = x /\ m[i] = "destroying")
  BY DEF LifeType
<1>3. ASSUME NEW k \in 1..Len(s) PROVE Promise(s[k], m, o) /\ x \notin Tears(s[k])
  <2>1. Promise(s[k], l, o) /\ FrameOK(s[k])
    BY DEF Kept, Promises
  <2>2. CASE IsScript(s[k])
    BY <2>2 DEF IsScript, Promise, Tears, Tearing
  <2>3. CASE ~IsScript(s[k])
    <3>1. s[k].item \in Things /\ (s[k].pc = "split" => s[k].from \in Things)
      BY <2>1, <2>3 DEF FrameOK
    <3>2. Promise(s[k], m, o)
      BY <1>1, <1>2, <2>1, <3>1 DEF Promise, Tearing
    <3>3. x \notin Tears(s[k])
      BY <2>1 DEF Promise, Tears
    <3>4. QED
      BY <3>2, <3>3
  <2>4. QED
    BY <2>2, <2>3
<1>4. QED
  BY <1>3 DEF Kept, Promises, Torn

LEMMA PutKept ==
    ASSUME NEW s \in Seq(Frames), \A k \in 1..Len(s) : FrameOK(s[k]),
           NEW l, NEW o, OwnType(o), Kept(s, l, o),
           NEW x \in Things, o[x] = Nowhere, x \notin Owed(s), NEW h, NEW p, p = [o EXCEPT ![x] = h]
    PROVE  Kept(s, l, p)
<1>1. \A i \in Things : i # x => p[i] = o[i]
  BY DEF OwnType
<1>2. ASSUME NEW k \in 1..Len(s) PROVE Promise(s[k], l, p)
  <2>1. Promise(s[k], l, o) /\ FrameOK(s[k]) /\ x \notin Owes(s[k])
    BY DEF Kept, Promises, Owed
  <2>2. CASE IsScript(s[k])
    BY <2>2 DEF IsScript, Promise, Tearing
  <2>3. CASE ~IsScript(s[k])
    <3>1. /\ s[k].item \in Things /\ (s[k].pc = "split" => s[k].from \in Things)
          /\ s[k].pc = "checked" => s[k].from \in Holders
      BY <2>1, <2>3 DEF FrameOK
    <3>2. s[k].pc = "checked" => s[k].item # x
      BY <2>1, <3>1, KindsAssumption DEF Promise
    <3>3. s[k].pc \in {"created", "add"} => s[k].item # x
      BY <2>1 DEF Owes
    <3>4. s[k].pc = "split" => s[k].from # x
      BY <2>1 DEF Owes
    <3>5. QED
      BY <1>1, <2>1, <3>1, <3>2, <3>3, <3>4 DEF Promise
  <2>4. QED
    BY <2>2, <2>3
<1>3. QED
  BY <1>2 DEF Kept, Promises

LEMMA ClearKept ==
    ASSUME NEW s \in Seq(Frames), \A k \in 1..Len(s) : FrameOK(s[k]),
           NEW l, NEW o, OwnType(o), Kept(s, l, o),
           NEW x \in Things, o[x] # Nowhere, NEW p, p = [o EXCEPT ![x] = Nowhere],
           \A k \in 1..Len(s) : s[k].pc = "checked" => s[k].item # x
    PROVE  Kept(s, l, p) /\ x \notin Owed(s)
<1>1. \A i \in Things : i # x => p[i] = o[i]
  BY DEF OwnType
<1>2. ASSUME NEW k \in 1..Len(s) PROVE Promise(s[k], l, p) /\ x \notin Owes(s[k])
  <2>1. Promise(s[k], l, o) /\ FrameOK(s[k])
    BY DEF Kept, Promises
  <2>2. CASE IsScript(s[k])
    BY <2>2 DEF IsScript, Promise, Tearing, Owes
  <2>3. CASE ~IsScript(s[k])
    <3>1. s[k].item \in Things /\ (s[k].pc = "split" => s[k].from \in Things)
      BY <2>1, <2>3 DEF FrameOK
    <3>2. x \notin Owes(s[k])
      BY <2>1 DEF Owes, Promise
    <3>3. s[k].pc \in {"created", "add"} => s[k].item # x
      BY <3>2 DEF Owes
    <3>4. s[k].pc = "split" => s[k].from # x
      BY <3>2 DEF Owes
    <3>5. Promise(s[k], l, p)
      BY <1>1, <2>1, <3>1, <3>3, <3>4 DEF Promise
    <3>6. QED
      BY <3>2, <3>5
  <2>4. QED
    BY <2>2, <2>3
<1>3. QED
  BY <1>2 DEF Kept, Promises, Owed

(* The entities that a call must find alive when it goes on.               *)
Needs(f) ==
    IF f.pc \in {"checked", "split", "add"} THEN {f.item, f.to}
    ELSE IF f.pc = "created" THEN {f.to}
    ELSE IF f.pc = "merge" THEN {f.item} ELSE {}

LEMMA EndKept ==
    ASSUME NEW s \in Seq(Frames), \A k \in 1..Len(s) : FrameOK(s[k]),
           NEW l, LifeType(l), NEW o, Kept(s, l, o),
           NEW x \in Things, x \notin Torn(s), NEW m, m = [l EXCEPT ![x] = "destroyed"],
           \A k \in 1..Len(s) : x \notin Needs(s[k])
    PROVE  Kept(s, m, o)
<1>1. \A h : Alive(h, l) /\ h # x => Alive(h, m)
  BY DEF Alive, LifeType
<1>2. \A i \in Things : (i # x => m[i] = l[i]) /\ (l[i] # "free" => m[i] # "free")
  BY DEF LifeType
<1>3. ASSUME NEW k \in 1..Len(s) PROVE Promise(s[k], m, o)
  <2>1. Promise(s[k], l, o) /\ FrameOK(s[k]) /\ x \notin Tears(s[k]) /\ x \notin Needs(s[k])
    BY DEF Kept, Promises, Torn
  <2>2. CASE IsScript(s[k])
    BY <2>2 DEF IsScript, Promise, Tearing
  <2>3. CASE ~IsScript(s[k])
    <3>1. s[k].item \in Things /\ (s[k].pc = "split" => s[k].from \in Things)
      BY <2>1, <2>3 DEF FrameOK
    <3>2. s[k].pc \in {"checked", "split", "add"} => s[k].item # x /\ s[k].to # x
      BY <2>1 DEF Needs
    <3>3. (s[k].pc = "created" => s[k].to # x) /\ (s[k].pc = "merge" => s[k].item # x)
      BY <2>1 DEF Needs
    <3>4. s[k].pc \in Tearing => s[k].item # x
      BY <2>1 DEF Tears
    <3>5. QED
      BY <1>1, <1>2, <2>1, <3>1, <3>2, <3>3, <3>4 DEF Promise
  <2>4. QED
    BY <2>2, <2>3
<1>4. QED
  BY <1>3 DEF Kept, Promises

-----------------------------------------------------------------------------
(* What scripts leave alone: a call under way other than the innermost one *)
(* has a callback above it, so that nobody touches what it relies on.  The *)
(* loop over what is inside a bag relies on nothing; coins that join       *)
(* others are destroyed next, and are not those that they join.            *)
LEMMA HeldLemma ==
    ASSUME GoodStack(stack), Chain(stack), NEW k \in 2..Len(stack), ~IsScript(stack[k])
    PROVE  \/ Held(stack[k]) \subseteq HeldBelow
           \/ stack[k].pc = "inner"
           \/ stack[k].pc = "merge" /\ stack[1].item # stack[k].item
<1>1. stack \in Seq(Frames) /\ Len(stack) \in Nat
  BY LenProperties DEF GoodStack
<1>2. ASSUME NEW j \in 1..(k - 1), IsScript(stack[j])
      PROVE  Held(stack[k]) \subseteq HeldBelow
  <2>1. Callback \in 1..Len(stack) /\ Callback <= j
    BY <1>1, <1>2, CallbackLemma
  <2>2. Callback # 0 /\ k \in (Callback + 1)..Len(stack)
    BY <1>1, <2>1
  <2>3. HeldBelow = UNION {Held(stack[n]) : n \in (Callback + 1)..Len(stack)}
    BY <2>2 DEF HeldBelow
  <2>4. QED
    BY <2>2, <2>3
<1>3. k - 1 \in 1..(Len(stack) - 1) /\ (k - 1) + 1 = k /\ k - 1 \in 1..(k - 1)
  BY <1>1
<1>4. Behind(stack[k - 1], stack[k])
  BY <1>3 DEF Chain
<1>5. CASE IsScript(stack[k - 1])
  BY <1>2, <1>3, <1>5
<1>6. CASE stack[k].pc = "inner"
  BY <1>6
<1>7. CASE /\ stack[k - 1].pc \in Ending /\ stack[k].pc = "merge" /\ stack[k - 1].item \in Coins
           /\ stack[k - 1].item # stack[k].item
  <2>1. CASE k = 2
    BY <1>7, <2>1
  <2>2. CASE k # 2
    <3>1. /\ k - 2 \in 1..(Len(stack) - 1) /\ (k - 2) + 1 = k - 1 /\ k - 2 \in 1..(k - 1)
      BY <1>1, <2>2
    <3>2. Behind(stack[k - 2], stack[k - 1])
      BY <3>1 DEF Chain
    <3>3. ~IsScript(stack[k - 1]) /\ stack[k - 1].pc # "merge"
      BY <1>7 DEF IsScript, Ending
    <3>4. stack[k - 1].item \notin Bags
      BY <1>7, KindsAssumption
    <3>5. IsScript(stack[k - 2])
      BY <3>2, <3>3, <3>4 DEF Behind
    <3>6. QED
      BY <1>2, <3>1, <3>5
  <2>3. QED
    BY <2>1, <2>2
<1>8. QED
  BY <1>4, <1>5, <1>6, <1>7 DEF Behind

LEMMA OwnLemma ==
    ASSUME GoodStack(stack), Chain(stack), ~Touches, NEW k \in 2..Len(stack), NEW i \in Things,
           own'[i] # own[i], stack[k].pc = "checked"
    PROVE  stack[k].item # i
<1>1. ~IsScript(stack[k]) /\ stack[k].pc # "inner" /\ stack[k].pc # "merge"
  BY DEF IsScript
<1>2. Held(stack[k]) \subseteq HeldBelow
  BY <1>1, HeldLemma
<1>3. <<stack[k].item, "own">> \in Held(stack[k])
  BY DEF Held
<1>4. <<stack[k].item, "own">> \in HeldBelow
  BY <1>2, <1>3
<1>5. PICK held \in HeldBelow : held = <<stack[k].item, "own">>
  BY <1>4
<1>6. ~(held[2] = "own" /\ own'[held[1]] # own[held[1]])
  BY DEF Touches
<1>7. held[1] = stack[k].item /\ held[2] = "own"
  BY <1>5
<1>8. QED
  BY <1>6, <1>7

LEMMA LifeLemma ==
    ASSUME GoodStack(stack), Chain(stack), ~Touches, NEW k \in 2..Len(stack), NEW i \in Things,
           life'[i] # life[i], i = stack[1].item
    PROVE  i \notin Needs(stack[k])
<1> SUFFICES ASSUME i \in Needs(stack[k]) PROVE FALSE
  OBVIOUS
<1>1. stack[k].pc \in {"checked", "split", "add", "created", "merge"}
  BY DEF Needs
<1>2. ~IsScript(stack[k]) /\ stack[k].pc # "inner"
  BY <1>1 DEF IsScript
<1>3. ~(stack[k].pc = "merge" /\ stack[1].item # stack[k].item)
  BY DEF Needs
<1>4. Held(stack[k]) \subseteq HeldBelow
  BY <1>2, <1>3, HeldLemma
<1>5. i \in Uses(stack[k])
  BY <1>1 DEF Needs, Uses
<1>6. <<i, "life">> \in Held(stack[k])
  BY <1>5 DEF Held
<1>7. PICK held \in HeldBelow : held = <<i, "life">>
  BY <1>4, <1>6
<1>8. ~(held[2] = "life" /\ life'[held[1]] # life[held[1]])
  BY DEF Touches
<1>9. held[1] = i /\ held[2] = "life"
  BY <1>7
<1>10. QED
  BY <1>8, <1>9

-----------------------------------------------------------------------------
(* The steps keep all of this.                                             *)
SoundAfter ==
    /\ thrown' = FALSE
    /\ PlaceInv(life', own', inside')
    /\ Kept(stack', life', own')
    /\ Covers(stack', life', own')

LEMMA PoppedLemma ==
    ASSUME TypeInv, Sound, Top.pc # "jobs", NEW t, t = Tail(stack)
    PROVE  /\ t \in Seq(Frames)
           /\ \A k \in 1..Len(t) : FrameOK(t[k]) /\ t[k] = stack[k + 1] /\ k + 1 \in 2..Len(stack)
           /\ Top \in Frames /\ FrameOK(Top) /\ Top = stack[1]
           /\ Kept(t, life, own) /\ Promise(Top, life, own)
           /\ t # <<>> => Behind(Top, t[1])
           /\ \A i : ~(i \in Owes(Top) /\ i \in Owed(t))
           /\ \A i : ~(i \in Tears(Top) /\ i \in Torn(t))
           /\ Owed(stack) = Owes(Top) \cup Owed(t)
           /\ Doomed(stack) = Dooms(Top) \cup Doomed(t)
           /\ Torn(stack) = Tears(Top) \cup Torn(t)
<1>1. GoodStack(stack) /\ stack # <<>> /\ Top = stack[1] /\ Top \in Frames /\ FrameOK(Top)
  BY TopLemma DEF TypeInv
<1>2. GoodStack(t) /\ Len(t) = Len(stack) - 1 /\ \A k \in 1..Len(t) : t[k] = stack[k + 1]
  BY <1>1, TailGood
<1>3. t \in Seq(Frames) /\ stack \in Seq(Frames) /\ Len(stack) \in Nat /\ Len(t) \in Nat
  BY <1>1, <1>2, LenProperties DEF GoodStack
<1>4. \A k \in 1..Len(t) : FrameOK(t[k]) /\ t[k] = stack[k + 1] /\ k + 1 \in 2..Len(stack)
  BY <1>2, <1>3 DEF GoodStack
<1>5. Kept(stack, life, own)
  BY DEF Sound
<1>6. /\ Kept(t, life, own) /\ Promise(Top, life, own)
      /\ t # <<>> => Behind(Top, t[1])
      /\ \A i : ~(i \in Owes(Top) /\ i \in Owed(t))
      /\ \A i : ~(i \in Tears(Top) /\ i \in Torn(t))
  BY <1>1, <1>3, <1>5, PopSound
<1>7. /\ Owed(stack) = Owes(Top) \cup Owed(t)
      /\ Doomed(stack) = Dooms(Top) \cup Doomed(t)
      /\ Torn(stack) = Tears(Top) \cup Torn(t)
  BY <1>1, <1>3, PopSets
<1>8. QED
  BY <1>1, <1>3, <1>4, <1>6, <1>7

LEMMA ScrLemma ==
    /\ Scr \in Frames /\ FrameOK(Scr) /\ IsScript(Scr) /\ Scr.pc = "script"
    /\ Owes(Scr) = {} /\ Dooms(Scr) = {} /\ Tears(Scr) = {}
    /\ \A l, o : Promise(Scr, l, o)
    /\ \A f : Behind(Scr, f) /\ Behind(f, Scr)
<1>1. Scr \in Frames /\ FrameOK(Scr) /\ Scr.pc = "script"
  BY ScriptLemma DEF Scr
<1>2. QED
  BY <1>1 DEF IsScript, Owes, Dooms, Tears, Tearing, Promise, Behind

LEMMA ScrPush ==
    ASSUME NEW t \in Seq(Frames), NEW l, NEW o, Kept(t, l, o)
    PROVE  /\ Push(Scr, t) \in Seq(Frames) /\ Kept(Push(Scr, t), l, o)
           /\ Owed(Push(Scr, t)) = Owed(t) /\ Doomed(Push(Scr, t)) = Doomed(t)
           /\ Torn(Push(Scr, t)) = Torn(t)
<1>1. Push(Scr, t) \in Seq(Frames)
  BY ScrLemma, PushLemma
<1>2. Kept(Push(Scr, t), l, o)
  BY ScrLemma, PushSound
<1>3. /\ Owed(Push(Scr, t)) = Owes(Scr) \cup Owed(t)
      /\ Doomed(Push(Scr, t)) = Dooms(Scr) \cup Doomed(t)
      /\ Torn(Push(Scr, t)) = Tears(Scr) \cup Torn(t)
  BY ScrLemma, PushSets
<1>4. QED
  BY <1>1, <1>2, <1>3, ScrLemma

LEMMA NoStep ==
    ASSUME NEW t \in Seq(Frames), t = Tail(stack), GoTo(<<>>)
    PROVE  stack' = t /\ thrown' = thrown
<1>1. stack' = <<>> \o t /\ thrown' = thrown
  BY DEF GoTo
<1>2. <<>> \o t = t
  BY ConcatEmptySeq
<1>3. QED
  BY <1>1, <1>2

LEMMA OneStep ==
    ASSUME NEW t \in Seq(Frames), t = Tail(stack), NEW a \in Frames,
           GoTo(<<a>>) \/ GoTo(<<Scr, a>>),
           NEW l, NEW o, Kept(t, l, o), Promise(a, l, o), t # <<>> => Behind(a, t[1]),
           \A i : ~(i \in Owes(a) /\ i \in Owed(t)), \A i : ~(i \in Tears(a) /\ i \in Torn(t))
    PROVE  /\ Kept(stack', l, o) /\ thrown' = thrown
           /\ Owed(stack') = Owes(a) \cup Owed(t)
           /\ Doomed(stack') = Dooms(a) \cup Doomed(t)
           /\ Torn(stack') = Tears(a) \cup Torn(t)
<1>1. PICK r : r = Push(a, t)
  OBVIOUS
<1>2. /\ r \in Seq(Frames) /\ Kept(r, l, o)
      /\ Owed(r) = Owes(a) \cup Owed(t) /\ Doomed(r) = Dooms(a) \cup Doomed(t)
      /\ Torn(r) = Tears(a) \cup Torn(t)
  BY <1>1, PushLemma, PushSound, PushSets
<1>3. CASE GoTo(<<a>>)
  <2>1. stack' = r /\ thrown' = thrown
    BY <1>1, <1>3 DEF GoTo, Push
  <2>2. QED
    BY <1>2, <2>1
<1>4. CASE GoTo(<<Scr, a>>)
  <2>1. stack' = <<Scr, a>> \o t /\ thrown' = thrown
    BY <1>4 DEF GoTo
  <2>2. <<Scr, a>> \o t = Push(Scr, r)
    BY <1>1, PushTwo, ScrLemma
  <2>3. /\ Kept(Push(Scr, r), l, o)
        /\ Owed(Push(Scr, r)) = Owed(r) /\ Doomed(Push(Scr, r)) = Doomed(r)
        /\ Torn(Push(Scr, r)) = Torn(r)
    BY <1>2, ScrPush
  <2>4. QED
    BY <1>2, <2>1, <2>2, <2>3
<1>5. QED
  BY <1>3, <1>4

(* DestroyItem for another item, before the call goes on.                  *)
LEMMA DoomStep ==
    ASSUME NEW t \in Seq(Frames), t = Tail(stack), NEW d \in Frames, d.pc = "destroy",
           NEW a \in Frames, GoTo(<<d, a>>), Behind(d, a),
           NEW l, NEW o, Kept(t, l, o), Promise(a, l, o), t # <<>> => Behind(a, t[1]),
           \A i : ~(i \in Owes(a) /\ i \in Owed(t)), \A i : ~(i \in Tears(a) /\ i \in Torn(t))
    PROVE  /\ Kept(stack', l, o) /\ thrown' = thrown
           /\ Owed(stack') = Owes(a) \cup Owed(t)
           /\ Doomed(stack') = {d.item} \cup Dooms(a) \cup Doomed(t)
           /\ Torn(stack') = Tears(a) \cup Torn(t)
<1>1. PICK r : r = Push(a, t)
  OBVIOUS
<1>2. /\ r \in Seq(Frames) /\ Kept(r, l, o) /\ r[1] = a
      /\ Owed(r) = Owes(a) \cup Owed(t) /\ Doomed(r) = Dooms(a) \cup Doomed(t)
      /\ Torn(r) = Tears(a) \cup Torn(t)
  BY <1>1, PushLemma, PushSound, PushSets
<1>3. Owes(d) = {} /\ Tears(d) = {} /\ Dooms(d) = {d.item} /\ Promise(d, l, o)
  BY DEF Owes, Tears, Dooms, Tearing, Promise
<1>4. stack' = <<d, a>> \o t /\ thrown' = thrown
  BY DEF GoTo
<1>5. <<d, a>> \o t = Push(d, r)
  BY <1>1, PushTwo
<1>6. Kept(Push(d, r), l, o)
  BY <1>2, <1>3, PushSound
<1>7. /\ Owed(Push(d, r)) = Owes(d) \cup Owed(r)
      /\ Doomed(Push(d, r)) = Dooms(d) \cup Doomed(r)
      /\ Torn(Push(d, r)) = Tears(d) \cup Torn(r)
  BY <1>2, PushSets
<1>8. QED
  BY <1>2, <1>3, <1>4, <1>5, <1>6, <1>7

(* Below an operation other than DestroyItem there is a callback.          *)
LEMMA BelowLemma ==
    ASSUME NEW a, NEW b, NEW f, Behind(a, b)
    PROVE  /\ ~IsScript(a) /\ a.pc \notin Ending => Behind(f, b)
           /\ ~IsScript(a) /\ f.pc \in Ending /\ f.item = a.item => Behind(f, b)
  BY DEF Behind

-----------------------------------------------------------------------------
(* An item leaves its holder.                                              *)
LEMMA LeaveLemma ==
    ASSUME TypeInv, Sound, Top.pc # "jobs", ~Touches, ~IsScript(Top),
           UNCHANGED life, NEW i \in Things, own[i] \in Holders,
           NEW a \in Frames, RemoveItemHolder(i, own[i], <<a>>)
    PROVE  /\ GoTo(<<a>>) \/ GoTo(<<Scr, a>>)
           /\ own' = [own EXCEPT ![i] = Nowhere]
           /\ PlaceInv(life', own', inside')
           /\ Kept(Tail(stack), life', own')
           /\ i \notin Owed(Tail(stack))
<1>1. DataInv /\ GoodStack(stack) /\ PlaceInv(life, own, inside) /\ own[i] # Nowhere
  BY KindsAssumption DEF TypeInv, Sound
<1>2. i \in inside[own[i]]
  BY <1>1 DEF PlaceInv
<1>3. PICK h \in Holders : h = own[i]
  OBVIOUS
<1>4. /\ own' = [own EXCEPT ![i] = Nowhere] /\ inside' = [inside EXCEPT ![h] = @ \ {i}]
      /\ GoTo(<<a>>) \/ GoTo(<<Scr, a>>)
  BY <1>1, <1>2, <1>3, RemoveShape
<1>5. PlaceInv(life', own', inside')
  <2>1. \A j \in Things : own'[j] = IF j = i THEN Nowhere ELSE own[j]
    BY <1>1, <1>4 DEF DataInv
  <2>2. \A g \in Holders : inside'[g] = IF g = h THEN inside[h] \ {i} ELSE inside[g]
    BY <1>1, <1>4 DEF DataInv
  <2>3. Nowhere \notin Holders /\ Nowhere \notin Bags
    BY KindsAssumption DEF Holders
  <2>4. \A g \in Holders, j \in Things : j \in inside'[g] <=> own'[j] = g
    BY <1>1, <1>3, <2>1, <2>2, <2>3 DEF PlaceInv
  <2>5. QED
    BY <1>1, <2>1, <2>3, <2>4 DEF PlaceInv
<1>6. PICK t : t = Tail(stack)
  OBVIOUS
<1>7. /\ t \in Seq(Frames)
      /\ \A k \in 1..Len(t) : FrameOK(t[k]) /\ t[k] = stack[k + 1] /\ k + 1 \in 2..Len(stack)
      /\ Kept(t, life, own)
  BY <1>6, PoppedLemma
<1>8. own'[i] # own[i]
  BY <1>1, <1>4 DEF DataInv
<1>9. Chain(stack)
  BY DEF Sound, Kept
<1>10. \A k \in 1..Len(t) : t[k].pc = "checked" => t[k].item # i
  BY <1>1, <1>7, <1>8, <1>9, OwnLemma
<1>11. OwnType(own)
  BY <1>1 DEF DataInv, OwnType
<1>12. Kept(t, life, own') /\ i \notin Owed(t)
  BY <1>1, <1>4, <1>7, <1>10, <1>11, ClearKept
<1>13. QED
  BY <1>4, <1>5, <1>6, <1>12

-----------------------------------------------------------------------------
(* MoveItem and SplitItem.                                                 *)

LEMMA MoveWholeSound ==
    ASSUME TypeInv, Sound, MoveWhole, ~Touches
    PROVE  SoundAfter
<1>1. PICK t : t = Tail(stack)
  OBVIOUS
<1>2. /\ Top.pc = "checked" /\ Top.item \in Things /\ Top.from \in Holders /\ Top.to \in Holders
      /\ UNCHANGED <<life, count>>
      /\ \E a \in Frames : /\ FrameOK(a) /\ a.pc = "add" /\ a.item = Top.item /\ a.to = Top.to
                           /\ RemoveItemHolder(Top.item, Top.from, <<a>>)
  BY MoveWholeShape
<1>3. PICK a \in Frames : /\ FrameOK(a) /\ a.pc = "add" /\ a.item = Top.item /\ a.to = Top.to
                          /\ RemoveItemHolder(Top.item, Top.from, <<a>>)
  BY <1>2
<1>4. /\ t \in Seq(Frames) /\ Promise(Top, life, own)
      /\ t # <<>> => Behind(Top, t[1])
      /\ Owed(stack) = Owes(Top) \cup Owed(t)
      /\ Doomed(stack) = Dooms(Top) \cup Doomed(t)
      /\ Torn(stack) = Tears(Top) \cup Torn(t)
  BY <1>1, <1>2, PoppedLemma
<1>5. own[Top.item] = Top.from /\ Alive(Top.item, life) /\ Alive(Top.to, life)
  BY <1>2, <1>4 DEF Promise
<1>6. ~IsScript(Top) /\ Top.pc \notin Ending
  BY <1>2 DEF IsScript, Ending
<1>7. RemoveItemHolder(Top.item, own[Top.item], <<a>>)
  BY <1>3, <1>5
<1>8. /\ GoTo(<<a>>) \/ GoTo(<<Scr, a>>)
      /\ own' = [own EXCEPT ![Top.item] = Nowhere]
      /\ PlaceInv(life', own', inside')
      /\ Kept(t, life', own') /\ Top.item \notin Owed(t)
  BY <1>1, <1>2, <1>5, <1>6, <1>7, LeaveLemma
<1>9. \A j \in Things : own'[j] = IF j = Top.item THEN Nowhere ELSE own[j]
  BY <1>8 DEF TypeInv, DataInv
<1>10. Promise(a, life', own')
  BY <1>2, <1>3, <1>5, <1>9 DEF Promise, Tearing
<1>11. Owes(a) = {Top.item} /\ Tears(a) = {} /\ Dooms(a) = {}
  BY <1>3 DEF Owes, Tears, Tearing, Dooms
<1>12. t # <<>> => Behind(a, t[1])
  BY <1>4, <1>6, BelowLemma
<1>13. /\ Kept(stack', life', own') /\ thrown' = thrown
       /\ Owed(stack') = Owes(a) \cup Owed(t)
       /\ Doomed(stack') = Dooms(a) \cup Doomed(t)
       /\ Torn(stack') = Tears(a) \cup Torn(t)
  BY <1>1, <1>4, <1>8, <1>10, <1>11, <1>12, OneStep
<1>14. Owes(Top) = {} /\ Tears(Top) = {} /\ Dooms(Top) = {}
  BY <1>2 DEF Owes, Tears, Tearing, Dooms
<1>15. Covers(stack', life', own')
  BY <1>2, <1>4, <1>9, <1>11, <1>13, <1>14 DEF Covers, Sound
<1>16. QED
  BY <1>8, <1>13, <1>15 DEF SoundAfter, Sound

LEMMA SplitItemSound ==
    ASSUME TypeInv, Sound, SplitItem
    PROVE  SoundAfter
<1>1. PICK t : t = Tail(stack)
  OBVIOUS
<1>2. /\ Top.pc = "checked" /\ Top.item \in Things /\ Top.to \in Holders /\ UNCHANGED <<own, inside>>
  BY SplitItemShape
<1>3. /\ t \in Seq(Frames) /\ Promise(Top, life, own) /\ Kept(t, life, own)
      /\ \A k \in 1..Len(t) : FrameOK(t[k])
      /\ t # <<>> => Behind(Top, t[1])
      /\ Owed(stack) = Owes(Top) \cup Owed(t)
      /\ Doomed(stack) = Dooms(Top) \cup Doomed(t)
      /\ Torn(stack) = Tears(Top) \cup Torn(t)
  BY <1>1, <1>2, PoppedLemma
<1>4. Owes(Top) = {} /\ Tears(Top) = {} /\ Dooms(Top) = {} /\ ~IsScript(Top) /\ Top.pc \notin Ending
  BY <1>2 DEF Owes, Tears, Tearing, Dooms, IsScript, Ending
<1>5. CASE GoTo(<<>>) /\ UNCHANGED <<life, count>>
  <2>1. stack' = t /\ thrown' = thrown
    BY <1>1, <1>3, <1>5, NoStep
  <2>2. Covers(t, life, own)
    BY <1>3, <1>4 DEF Covers, Sound
  <2>3. QED
    BY <1>2, <1>3, <1>5, <2>1, <2>2 DEF SoundAfter, Sound
<1>6. CASE /\ Free # {} /\ life' = [life EXCEPT ![NewItem] = "live"]
           /\ \E f \in Frames : /\ FrameOK(f) /\ f.pc = "split" /\ f.item = Top.item
                                /\ f.to = Top.to /\ f.from = NewItem /\ GoTo(<<Scr, f>>)
  <2>1. PICK x \in Things : x = NewItem /\ life[x] = "free"
    BY <1>6, NewItemLemma
  <2>2. PICK f \in Frames : /\ FrameOK(f) /\ f.pc = "split" /\ f.item = Top.item
                            /\ f.to = Top.to /\ f.from = x /\ GoTo(<<Scr, f>>)
    BY <1>6, <2>1
  <2>3. life' = [life EXCEPT ![x] = "live"]
    BY <1>6, <2>1
  <2>4. LifeType(life)
    BY DEF LifeType, TypeInv, DataInv
  <2>5. Kept(t, life', own) /\ x \notin Owed(t)
    BY <1>3, <2>1, <2>3, <2>4, NewKept
  <2>6. \A j \in Things : life'[j] = IF j = x THEN "live" ELSE life[j]
    BY <2>3, <2>4 DEF LifeType
  <2>7. own[x] = Nowhere
    BY <2>1 DEF Sound, PlaceInv
  <2>8. \A h : Alive(h, life) => Alive(h, life')
    BY <2>6 DEF Alive
  <2>9. Promise(f, life', own)
    BY <1>2, <1>3, <2>2, <2>6, <2>7, <2>8 DEF Promise, Tearing
  <2>10. Owes(f) = {x} /\ Tears(f) = {} /\ Dooms(f) = {}
    BY <2>2 DEF Owes, Tears, Tearing, Dooms
  <2>11. t # <<>> => Behind(f, t[1])
    BY <1>3, <1>4, BelowLemma
  <2>12. /\ Kept(stack', life', own) /\ thrown' = thrown
         /\ Owed(stack') = Owes(f) \cup Owed(t)
         /\ Doomed(stack') = Dooms(f) \cup Doomed(t)
         /\ Torn(stack') = Tears(f) \cup Torn(t)
    BY <1>1, <1>3, <2>2, <2>5, <2>9, <2>10, <2>11, OneStep
  <2>13. PlaceInv(life', own, inside)
    BY <2>6 DEF Sound, PlaceInv, Holders, Things
  <2>14. Covers(stack', life', own)
    BY <1>3, <1>4, <2>6, <2>10, <2>12 DEF Covers, Sound
  <2>15. QED
    BY <1>2, <2>12, <2>13, <2>14 DEF SoundAfter, Sound
<1>7. QED
  BY <1>5, <1>6, SplitItemShape

LEMMA SplitDoneSound ==
    ASSUME TypeInv, Sound, SplitDone
    PROVE  SoundAfter
<1>1. PICK t : t = Tail(stack)
  OBVIOUS
<1>2. /\ Top.pc = "split" /\ Top.item \in Things /\ Top.from \in Things /\ Top.to \in Holders
      /\ UNCHANGED <<life, own, inside>>
  BY SplitDoneShape
<1>3. /\ t \in Seq(Frames) /\ Promise(Top, life, own) /\ Kept(t, life, own)
      /\ t # <<>> => Behind(Top, t[1])
      /\ \A i : ~(i \in Owes(Top) /\ i \in Owed(t))
      /\ Owed(stack) = Owes(Top) \cup Owed(t)
      /\ Doomed(stack) = Dooms(Top) \cup Doomed(t)
      /\ Torn(stack) = Tears(Top) \cup Torn(t)
  BY <1>1, <1>2, PoppedLemma
<1>4. Owes(Top) = {Top.from} /\ Tears(Top) = {} /\ Dooms(Top) = {} /\ ~IsScript(Top) /\ Top.pc \notin Ending
  BY <1>2 DEF Owes, Tears, Tearing, Dooms, IsScript, Ending
<1>5. own[Top.from] = Nowhere /\ life[Top.from] # "free" /\ Alive(Top.to, life)
  BY <1>2, <1>3 DEF Promise
<1>6. CASE life[Top.from] = "destroyed" /\ GoTo(<<>>)
  <2>1. stack' = t /\ thrown' = thrown
    BY <1>1, <1>3, <1>6, NoStep
  <2>2. Covers(t, life, own)
    BY <1>3, <1>4, <1>6 DEF Covers, Sound
  <2>3. QED
    BY <1>2, <1>3, <2>1, <2>2 DEF SoundAfter, Sound
<1>7. CASE /\ life[Top.from] # "destroyed"
           /\ \E a \in Frames : /\ FrameOK(a) /\ a.pc = "add" /\ a.item = Top.from /\ a.to = Top.to
                                /\ GoTo(<<Scr, a>>)
  <2>1. PICK a \in Frames : /\ FrameOK(a) /\ a.pc = "add" /\ a.item = Top.from /\ a.to = Top.to
                            /\ GoTo(<<Scr, a>>)
    BY <1>7
  <2>2. Alive(Top.from, life)
    BY <1>2, <1>5, <1>7 DEF Alive, TypeInv, DataInv
  <2>3. Promise(a, life, own)
    BY <1>5, <2>1, <2>2 DEF Promise, Tearing
  <2>4. Owes(a) = {Top.from} /\ Tears(a) = {} /\ Dooms(a) = {}
    BY <2>1 DEF Owes, Tears, Tearing, Dooms
  <2>5. t # <<>> => Behind(a, t[1])
    BY <1>3, <1>4, BelowLemma
  <2>6. /\ Kept(stack', life, own) /\ thrown' = thrown
        /\ Owed(stack') = Owes(a) \cup Owed(t)
        /\ Doomed(stack') = Dooms(a) \cup Doomed(t)
        /\ Torn(stack') = Tears(a) \cup Torn(t)
    BY <1>1, <1>3, <1>4, <2>1, <2>3, <2>4, <2>5, OneStep
  <2>7. Covers(stack', life, own)
    BY <1>3, <1>4, <2>4, <2>6 DEF Covers, Sound
  <2>8. QED
    BY <1>2, <2>6, <2>7 DEF SoundAfter, Sound
<1>8. QED
  BY <1>5, <1>6, <1>7, SplitDoneShape

LEMMA CreatedSound ==
    ASSUME TypeInv, Sound, Created
    PROVE  SoundAfter
<1>1. PICK t : t = Tail(stack)
  OBVIOUS
<1>2. Top.pc = "created" /\ Top.item \in Things /\ Top.to \in Holders /\ UNCHANGED <<life, own, inside>>
  BY CreatedShape DEF items
<1>3. /\ t \in Seq(Frames) /\ Promise(Top, life, own) /\ Kept(t, life, own)
      /\ t # <<>> => Behind(Top, t[1])
      /\ \A i : ~(i \in Owes(Top) /\ i \in Owed(t))
      /\ Owed(stack) = Owes(Top) \cup Owed(t)
      /\ Doomed(stack) = Dooms(Top) \cup Doomed(t)
      /\ Torn(stack) = Tears(Top) \cup Torn(t)
  BY <1>1, <1>2, PoppedLemma
<1>4. Owes(Top) = {Top.item} /\ Tears(Top) = {} /\ Dooms(Top) = {} /\ ~IsScript(Top) /\ Top.pc \notin Ending
  BY <1>2 DEF Owes, Tears, Tearing, Dooms, IsScript, Ending
<1>5. own[Top.item] = Nowhere /\ life[Top.item] # "free" /\ Alive(Top.to, life)
  BY <1>2, <1>3 DEF Promise
<1>6. CASE life[Top.item] = "destroyed" /\ GoTo(<<>>)
  <2>1. stack' = t /\ thrown' = thrown
    BY <1>1, <1>3, <1>6, NoStep
  <2>2. Covers(t, life, own)
    BY <1>3, <1>4, <1>6 DEF Covers, Sound
  <2>3. QED
    BY <1>2, <1>3, <2>1, <2>2 DEF SoundAfter, Sound
<1>7. CASE /\ life[Top.item] # "destroyed"
           /\ \E a \in Frames : /\ FrameOK(a) /\ a.pc = "add" /\ a.item = Top.item /\ a.to = Top.to
                                /\ GoTo(<<a>>)
  <2>1. PICK a \in Frames : /\ FrameOK(a) /\ a.pc = "add" /\ a.item = Top.item /\ a.to = Top.to
                            /\ GoTo(<<a>>)
    BY <1>7
  <2>2. Alive(Top.item, life)
    BY <1>2, <1>5, <1>7 DEF Alive, TypeInv, DataInv
  <2>3. Promise(a, life, own)
    BY <1>5, <2>1, <2>2 DEF Promise, Tearing
  <2>4. Owes(a) = {Top.item} /\ Tears(a) = {} /\ Dooms(a) = {}
    BY <2>1 DEF Owes, Tears, Tearing, Dooms
  <2>5. t # <<>> => Behind(a, t[1])
    BY <1>3, <1>4, BelowLemma
  <2>6. /\ Kept(stack', life, own) /\ thrown' = thrown
        /\ Owed(stack') = Owes(a) \cup Owed(t)
        /\ Doomed(stack') = Dooms(a) \cup Doomed(t)
        /\ Torn(stack') = Tears(a) \cup Torn(t)
    BY <1>1, <1>3, <1>4, <2>1, <2>3, <2>4, <2>5, OneStep
  <2>7. Covers(stack', life, own)
    BY <1>3, <1>4, <2>4, <2>6 DEF Covers, Sound
  <2>8. QED
    BY <1>2, <2>6, <2>7 DEF SoundAfter, Sound
<1>8. QED
  BY <1>6, <1>7, CreatedShape

LEMMA AddSound ==
    ASSUME TypeInv, Sound, Add
    PROVE  SoundAfter
<1>1. PICK t : t = Tail(stack)
  OBVIOUS
<1>2. Top.pc = "add" /\ Top.item \in Things /\ Top.to \in Holders /\ UNCHANGED <<life, count>>
  BY PutShape
<1>3. /\ t \in Seq(Frames) /\ Promise(Top, life, own) /\ Kept(t, life, own)
      /\ \A k \in 1..Len(t) : FrameOK(t[k])
      /\ t # <<>> => Behind(Top, t[1])
      /\ \A i : ~(i \in Owes(Top) /\ i \in Owed(t))
      /\ Owed(stack) = Owes(Top) \cup Owed(t)
      /\ Doomed(stack) = Dooms(Top) \cup Doomed(t)
      /\ Torn(stack) = Tears(Top) \cup Torn(t)
  BY <1>1, <1>2, PoppedLemma
<1>4. Owes(Top) = {Top.item} /\ Tears(Top) = {} /\ Dooms(Top) = {} /\ ~IsScript(Top) /\ Top.pc \notin Ending
  BY <1>2 DEF Owes, Tears, Tearing, Dooms, IsScript, Ending
<1>5. own[Top.item] = Nowhere /\ Alive(Top.item, life) /\ Alive(Top.to, life)
  BY <1>2, <1>3 DEF Promise
<1>6. PlaceInv(life, own, inside) /\ OwnType(own) /\ Nowhere \notin Holders /\ Nowhere \notin Bags
  BY KindsAssumption DEF Sound, TypeInv, DataInv, OwnType, Holders
<1>7. Top.item \notin inside[Top.to]
  BY <1>2, <1>5, <1>6 DEF PlaceInv
<1>8. CASE /\ UNCHANGED <<own, inside>>
           /\ \E d \in Frames, m \in Frames :
                /\ FrameOK(d) /\ d.pc = "destroy" /\ d.item = Top.item
                /\ FrameOK(m) /\ m.pc = "merge" /\ m.item \in inside[Top.to] \cap Coins
                /\ Top.item \in Coins
                /\ GoTo(<<d, m>>)
  <2>1. PICK d \in Frames, m \in Frames :
                /\ FrameOK(d) /\ d.pc = "destroy" /\ d.item = Top.item
                /\ FrameOK(m) /\ m.pc = "merge" /\ m.item \in inside[Top.to] \cap Coins
                /\ Top.item \in Coins
                /\ GoTo(<<d, m>>)
    BY <1>8
  <2>2. m.item \in Things /\ own[m.item] = Top.to
    BY <1>2, <1>6, <2>1 DEF PlaceInv, Things
  <2>3. life[m.item] \in {"live", "destroying"}
    BY <1>2, <1>6, <2>2 DEF PlaceInv, TypeInv, DataInv
  <2>4. Promise(m, life, own)
    BY <2>1, <2>3 DEF Promise, Tearing, Alive
  <2>5. Behind(d, m)
    BY <1>7, <2>1 DEF Behind, Ending
  <2>6. Owes(m) = {} /\ Tears(m) = {} /\ Dooms(m) = {}
    BY <2>1 DEF Owes, Tears, Tearing, Dooms
  <2>7. t # <<>> => Behind(m, t[1])
    BY <1>3, <1>4, BelowLemma
  <2>8. /\ Kept(stack', life, own) /\ thrown' = thrown
        /\ Owed(stack') = Owes(m) \cup Owed(t)
        /\ Doomed(stack') = {d.item} \cup Dooms(m) \cup Doomed(t)
        /\ Torn(stack') = Tears(m) \cup Torn(t)
    BY <1>1, <1>3, <2>1, <2>4, <2>5, <2>6, <2>7, DoomStep
  <2>9. Covers(stack', life, own)
    BY <1>3, <1>4, <2>1, <2>6, <2>8 DEF Covers, Sound
  <2>10. QED
    BY <1>2, <1>6, <1>8, <2>8, <2>9 DEF SoundAfter, Sound
<1>9. CASE /\ own' = [own EXCEPT ![Top.item] = Top.to]
           /\ inside' = [inside EXCEPT ![Top.to] = @ \cup {Top.item}]
           /\ GoTo(<<>>) \/ GoTo(<<Scr>>)
  <2>1. \A j \in Things : own'[j] = IF j = Top.item THEN Top.to ELSE own[j]
    BY <1>6, <1>9 DEF OwnType
  <2>2. \A g \in Holders : inside'[g] = IF g = Top.to THEN inside[Top.to] \cup {Top.item} ELSE inside[g]
    BY <1>9 DEF TypeInv, DataInv
  <2>3. PlaceInv(life, own', inside')
    <3>1. \A g \in Holders, j \in Things : j \in inside'[g] <=> own'[j] = g
      BY <1>2, <1>5, <1>6, <2>1, <2>2 DEF PlaceInv
    <3>2. life[Top.item] \notin {"free", "destroyed"}
      BY <1>2, <1>5 DEF Alive
    <3>3. Top.to \in Bags => life[Top.to] # "destroyed"
      BY <1>5 DEF Alive, Things
    <3>4. QED
      BY <1>6, <2>1, <3>1, <3>2, <3>3 DEF PlaceInv
  <2>4. Top.item \notin Owed(t)
    BY <1>3, <1>4
  <2>5. Kept(t, life, own')
    BY <1>2, <1>3, <1>5, <1>6, <1>9, <2>4, PutKept
  <2>6. /\ Kept(stack', life, own') /\ thrown' = thrown
        /\ Owed(stack') = Owed(t) /\ Doomed(stack') = Doomed(t) /\ Torn(stack') = Torn(t)
    <3>1. CASE GoTo(<<>>)
      BY <1>1, <1>3, <2>5, <3>1, NoStep
    <3>2. CASE GoTo(<<Scr>>)
      <4>1. stack' = Push(Scr, t) /\ thrown' = thrown
        BY <1>1, <3>2 DEF GoTo, Push
      <4>2. QED
        BY <1>3, <2>5, <4>1, ScrPush
    <3>3. QED
      BY <1>9, <3>1, <3>2
  <2>7. Covers(stack', life, own')
    BY <1>2, <1>3, <1>4, <1>6, <2>1, <2>6 DEF Covers, Sound
  <2>8. QED
    BY <1>2, <2>3, <2>6, <2>7 DEF SoundAfter, Sound
<1>10. QED
  BY <1>7, <1>8, <1>9, PutShape

LEMMA MergeSound ==
    ASSUME TypeInv, Sound, Merge
    PROVE  SoundAfter
<1>1. PICK t : t = Tail(stack)
  OBVIOUS
<1>2. Top.pc = "merge" /\ UNCHANGED <<life, own, inside>> /\ GoTo(<<Scr>>)
  BY MergeShape
<1>3. /\ t \in Seq(Frames) /\ Kept(t, life, own)
      /\ Owed(stack) = Owes(Top) \cup Owed(t)
      /\ Doomed(stack) = Dooms(Top) \cup Doomed(t)
      /\ Torn(stack) = Tears(Top) \cup Torn(t)
  BY <1>1, <1>2, PoppedLemma
<1>4. Owes(Top) = {} /\ Tears(Top) = {} /\ Dooms(Top) = {}
  BY <1>2 DEF Owes, Tears, Tearing, Dooms
<1>5. stack' = Push(Scr, t) /\ thrown' = thrown
  BY <1>1, <1>2 DEF GoTo, Push
<1>6. /\ Kept(stack', life, own)
      /\ Owed(stack') = Owed(t) /\ Doomed(stack') = Doomed(t) /\ Torn(stack') = Torn(t)
  BY <1>3, <1>5, ScrPush
<1>7. Covers(stack', life, own)
  BY <1>3, <1>4, <1>6 DEF Covers, Sound
<1>8. QED
  BY <1>2, <1>5, <1>6, <1>7 DEF SoundAfter, Sound

-----------------------------------------------------------------------------
(* DestroyItem.                                                            *)

LEMMA BeginDestroySound ==
    ASSUME TypeInv, Sound, BeginDestroy
    PROVE  SoundAfter
<1>1. PICK t : t = Tail(stack)
  OBVIOUS
<1>2. Top.pc = "destroy" /\ Top.item \in Things /\ UNCHANGED <<own, inside, count>>
  BY BeginDestroyShape
<1>3. /\ t \in Seq(Frames) /\ Kept(t, life, own)
      /\ \A k \in 1..Len(t) : FrameOK(t[k])
      /\ t # <<>> => Behind(Top, t[1])
      /\ Owed(stack) = Owes(Top) \cup Owed(t)
      /\ Doomed(stack) = Dooms(Top) \cup Doomed(t)
      /\ Torn(stack) = Tears(Top) \cup Torn(t)
  BY <1>1, <1>2, PoppedLemma
<1>4. Owes(Top) = {} /\ Tears(Top) = {} /\ Dooms(Top) = {Top.item} /\ ~IsScript(Top)
  BY <1>2 DEF Owes, Tears, Tearing, Dooms, IsScript
<1>5. CASE life[Top.item] # "live" /\ GoTo(<<>>) /\ UNCHANGED life
  <2>1. stack' = t /\ thrown' = thrown
    BY <1>1, <1>3, <1>5, NoStep
  <2>2. Covers(t, life, own)
    BY <1>3, <1>4, <1>5 DEF Covers, Sound
  <2>3. QED
    BY <1>2, <1>3, <1>5, <2>1, <2>2 DEF SoundAfter, Sound
<1>6. CASE /\ life[Top.item] = "live" /\ life' = [life EXCEPT ![Top.item] = "destroying"]
           /\ \E f \in Frames : FrameOK(f) /\ f.pc = "tear" /\ f.item = Top.item /\ GoTo(<<Scr, f>>)
  <2>1. PICK f \in Frames : FrameOK(f) /\ f.pc = "tear" /\ f.item = Top.item /\ GoTo(<<Scr, f>>)
    BY <1>6
  <2>2. LifeType(life)
    BY DEF LifeType, TypeInv, DataInv
  <2>3. Kept(t, life', own) /\ Top.item \notin Torn(t)
    BY <1>2, <1>3, <1>6, <2>2, BeginKept
  <2>4. \A j \in Things : life'[j] = IF j = Top.item THEN "destroying" ELSE life[j]
    BY <1>6, <2>2 DEF LifeType
  <2>5. Promise(f, life', own)
    BY <1>2, <2>1, <2>4 DEF Promise
  <2>6. Owes(f) = {} /\ Tears(f) = {Top.item} /\ Dooms(f) = {}
    BY <2>1 DEF Owes, Tears, Tearing, Dooms
  <2>7. t # <<>> => Behind(f, t[1])
    BY <1>3, <1>4, <2>1, BelowLemma DEF Ending
  <2>8. /\ Kept(stack', life', own) /\ thrown' = thrown
        /\ Owed(stack') = Owes(f) \cup Owed(t)
        /\ Doomed(stack') = Dooms(f) \cup Doomed(t)
        /\ Torn(stack') = Tears(f) \cup Torn(t)
    BY <1>1, <1>3, <2>1, <2>3, <2>5, <2>6, <2>7, OneStep
  <2>9. PlaceInv(life', own, inside)
    BY <1>6, <2>4 DEF Sound, PlaceInv, Things
  <2>10. Covers(stack', life', own)
    BY <1>3, <1>4, <2>4, <2>6, <2>8 DEF Covers, Sound
  <2>11. QED
    BY <1>2, <2>8, <2>9, <2>10 DEF SoundAfter, Sound
<1>7. QED
  BY <1>5, <1>6, BeginDestroyShape

LEMMA TearOffSound ==
    ASSUME TypeInv, Sound, TearOff, ~Touches
    PROVE  SoundAfter
<1>1. PICK t : t = Tail(stack)
  OBVIOUS
<1>2. /\ Top.pc = "tear" /\ Top.item \in Things /\ own[Top.item] # Nowhere /\ UNCHANGED <<life, count>>
      /\ \E f \in Frames : /\ FrameOK(f) /\ f.pc = "inner" /\ f.item = Top.item
                           /\ RemoveItemHolder(Top.item, GetItemHolder(Top.item), <<f>>)
  BY TearOffShape
<1>3. own[Top.item] \in Holders /\ GetItemHolder(Top.item) = own[Top.item]
  BY <1>2 DEF TypeInv, DataInv, Sound, PlaceInv, GetItemHolder
<1>4. PICK f \in Frames : /\ FrameOK(f) /\ f.pc = "inner" /\ f.item = Top.item
                          /\ RemoveItemHolder(Top.item, own[Top.item], <<f>>)
  BY <1>2, <1>3
<1>5. /\ t \in Seq(Frames) /\ Promise(Top, life, own)
      /\ t # <<>> => Behind(Top, t[1])
      /\ \A i : ~(i \in Tears(Top) /\ i \in Torn(t))
      /\ Owed(stack) = Owes(Top) \cup Owed(t)
      /\ Doomed(stack) = Dooms(Top) \cup Doomed(t)
      /\ Torn(stack) = Tears(Top) \cup Torn(t)
  BY <1>1, <1>2, PoppedLemma
<1>6. Owes(Top) = {} /\ Tears(Top) = {Top.item} /\ Dooms(Top) = {} /\ ~IsScript(Top)
  BY <1>2 DEF Owes, Tears, Tearing, Dooms, IsScript
<1>7. life[Top.item] = "destroying"
  BY <1>2, <1>5 DEF Promise, Tearing
<1>8. /\ GoTo(<<f>>) \/ GoTo(<<Scr, f>>)
      /\ own' = [own EXCEPT ![Top.item] = Nowhere]
      /\ PlaceInv(life', own', inside')
      /\ Kept(t, life', own')
  BY <1>1, <1>2, <1>3, <1>4, <1>6, LeaveLemma
<1>9. \A j \in Things : own'[j] = IF j = Top.item THEN Nowhere ELSE own[j]
  BY <1>8 DEF TypeInv, DataInv
<1>10. Promise(f, life', own')
  BY <1>2, <1>4, <1>7 DEF Promise
<1>11. Owes(f) = {} /\ Tears(f) = {Top.item} /\ Dooms(f) = {}
  BY <1>4 DEF Owes, Tears, Tearing, Dooms
<1>12. t # <<>> => Behind(f, t[1])
  BY <1>4, <1>5, <1>6, BelowLemma DEF Ending
<1>13. /\ Kept(stack', life', own') /\ thrown' = thrown
       /\ Owed(stack') = Owes(f) \cup Owed(t)
       /\ Doomed(stack') = Dooms(f) \cup Doomed(t)
       /\ Torn(stack') = Tears(f) \cup Torn(t)
  BY <1>1, <1>5, <1>6, <1>8, <1>10, <1>11, <1>12, OneStep
<1>14. Covers(stack', life', own')
  BY <1>2, <1>5, <1>6, <1>7, <1>9, <1>11, <1>13 DEF Covers, Sound
<1>15. QED
  BY <1>8, <1>13, <1>14 DEF SoundAfter, Sound

LEMMA DestroyInnerSound ==
    ASSUME TypeInv, Sound, DestroyInner
    PROVE  SoundAfter
<1>1. PICK t : t = Tail(stack)
  OBVIOUS
<1>2. Top.pc \in Tearing /\ Top.pc # "jobs" /\ Top.item \in Bags /\ UNCHANGED <<life, own, inside>>
  BY DestroyInnerShape DEF items, Tearing
<1>3. PICK d \in Frames, f \in Frames : /\ FrameOK(d) /\ d.pc = "destroy"
                                        /\ FrameOK(f) /\ f.pc = "inner" /\ f.item = Top.item
                                        /\ GoTo(<<d, f>>)
  BY DestroyInnerShape
<1>4. /\ t \in Seq(Frames) /\ Promise(Top, life, own) /\ Kept(t, life, own)
      /\ t # <<>> => Behind(Top, t[1])
      /\ \A i : ~(i \in Tears(Top) /\ i \in Torn(t))
      /\ Owed(stack) = Owes(Top) \cup Owed(t)
      /\ Doomed(stack) = Dooms(Top) \cup Doomed(t)
      /\ Torn(stack) = Tears(Top) \cup Torn(t)
  BY <1>1, <1>2, PoppedLemma
<1>5. Owes(Top) = {} /\ Tears(Top) = {Top.item} /\ Dooms(Top) = {} /\ ~IsScript(Top)
  BY <1>2 DEF Owes, Tears, Tearing, Dooms, IsScript
<1>6. Owes(f) = {} /\ Tears(f) = {Top.item} /\ Dooms(f) = {}
  BY <1>3 DEF Owes, Tears, Tearing, Dooms
<1>7. Promise(f, life, own)
  BY <1>2, <1>3, <1>4 DEF Promise, Tearing
<1>8. Behind(d, f)
  BY <1>2, <1>3 DEF Behind, Ending
<1>9. t # <<>> => Behind(f, t[1])
  BY <1>3, <1>4, <1>5, BelowLemma DEF Ending
<1>10. /\ Kept(stack', life, own) /\ thrown' = thrown
       /\ Owed(stack') = Owes(f) \cup Owed(t)
       /\ Doomed(stack') = {d.item} \cup Dooms(f) \cup Doomed(t)
       /\ Torn(stack') = Tears(f) \cup Torn(t)
  BY <1>1, <1>3, <1>4, <1>5, <1>6, <1>7, <1>8, <1>9, DoomStep
<1>11. Covers(stack', life, own)
  BY <1>4, <1>5, <1>6, <1>10 DEF Covers, Sound
<1>12. QED
  BY <1>2, <1>10, <1>11 DEF SoundAfter, Sound

LEMMA NextRoundSound ==
    ASSUME TypeInv, Sound, NextRound
    PROVE  SoundAfter
<1>1. PICK t : t = Tail(stack)
  OBVIOUS
<1>2. Top.pc = "inner" /\ Top.item \in Things /\ UNCHANGED <<life, own, inside>>
  BY NextRoundShape DEF items
<1>3. PICK f \in Frames : FrameOK(f) /\ f.pc = "tear" /\ f.item = Top.item /\ GoTo(<<f>>)
  BY NextRoundShape
<1>4. /\ t \in Seq(Frames) /\ Promise(Top, life, own) /\ Kept(t, life, own)
      /\ t # <<>> => Behind(Top, t[1])
      /\ \A i : ~(i \in Tears(Top) /\ i \in Torn(t))
      /\ Owed(stack) = Owes(Top) \cup Owed(t)
      /\ Doomed(stack) = Dooms(Top) \cup Doomed(t)
      /\ Torn(stack) = Tears(Top) \cup Torn(t)
  BY <1>1, <1>2, PoppedLemma
<1>5. Owes(Top) = {} /\ Tears(Top) = {Top.item} /\ Dooms(Top) = {} /\ ~IsScript(Top)
  BY <1>2 DEF Owes, Tears, Tearing, Dooms, IsScript
<1>6. Owes(f) = {} /\ Tears(f) = {Top.item} /\ Dooms(f) = {}
  BY <1>3 DEF Owes, Tears, Tearing, Dooms
<1>7. Promise(f, life, own)
  BY <1>2, <1>3, <1>4 DEF Promise, Tearing
<1>8. t # <<>> => Behind(f, t[1])
  BY <1>3, <1>4, <1>5, BelowLemma DEF Ending
<1>9. /\ Kept(stack', life, own) /\ thrown' = thrown
      /\ Owed(stack') = Owes(f) \cup Owed(t)
      /\ Doomed(stack') = Dooms(f) \cup Doomed(t)
      /\ Torn(stack') = Tears(f) \cup Torn(t)
  BY <1>1, <1>3, <1>4, <1>5, <1>6, <1>7, <1>8, OneStep
<1>10. Covers(stack', life, own)
  BY <1>4, <1>5, <1>6, <1>9 DEF Covers, Sound
<1>11. QED
  BY <1>2, <1>9, <1>10 DEF SoundAfter, Sound

LEMMA EndDestroySound ==
    ASSUME TypeInv, Sound, EndDestroy, ~Touches
    PROVE  SoundAfter
<1>1. PICK t : t = Tail(stack)
  OBVIOUS
<1>2. /\ Top.pc \in Tearing /\ Top.pc # "jobs" /\ Top.item \in Things /\ UNCHANGED <<own, inside, count>>
      /\ own[Top.item] = Nowhere /\ InnerItems(Top.item) = {}
      /\ life' = [life EXCEPT ![Top.item] = "destroyed"] /\ GoTo(<<>>)
  BY EndDestroyShape DEF Tearing
<1>3. /\ t \in Seq(Frames) /\ Promise(Top, life, own) /\ Kept(t, life, own)
      /\ \A k \in 1..Len(t) : FrameOK(t[k]) /\ t[k] = stack[k + 1] /\ k + 1 \in 2..Len(stack)
      /\ Top = stack[1]
      /\ \A i : ~(i \in Tears(Top) /\ i \in Torn(t))
      /\ Owed(stack) = Owes(Top) \cup Owed(t)
      /\ Doomed(stack) = Dooms(Top) \cup Doomed(t)
      /\ Torn(stack) = Tears(Top) \cup Torn(t)
  BY <1>1, <1>2, PoppedLemma
<1>4. Owes(Top) = {} /\ Tears(Top) = {Top.item} /\ Dooms(Top) = {}
  BY <1>2 DEF Owes, Tears, Tearing, Dooms
<1>5. life[Top.item] = "destroying"
  BY <1>2, <1>3 DEF Promise
<1>6. LifeType(life) /\ GoodStack(stack) /\ Chain(stack) /\ PlaceInv(life, own, inside)
  BY DEF LifeType, TypeInv, DataInv, Sound, Kept
<1>7. \A j \in Things : life'[j] = IF j = Top.item THEN "destroyed" ELSE life[j]
  BY <1>2, <1>6 DEF LifeType
<1>8. \A k \in 1..Len(t) : Top.item \notin Needs(t[k])
  BY <1>2, <1>3, <1>5, <1>6, <1>7, LifeLemma
<1>9. Top.item \notin Torn(t)
  BY <1>3, <1>4
<1>10. Kept(t, life', own)
  BY <1>2, <1>3, <1>6, <1>8, <1>9, EndKept
<1>11. stack' = t /\ thrown' = thrown
  BY <1>1, <1>2, <1>3, NoStep
<1>12. PlaceInv(life', own, inside)
  <2>1. \A i \in Things : own[i] = Top.item => Top.item \notin Bags
    BY <1>2, <1>6 DEF PlaceInv, InnerItems, Holders
  <2>2. \A i \in Things : own[i] \in Bags => own[i] \in Things
    BY DEF Things
  <2>3. QED
    BY <1>2, <1>6, <1>7, <2>1, <2>2 DEF PlaceInv
<1>13. Covers(t, life', own)
  BY <1>3, <1>4, <1>7 DEF Covers, Sound
<1>14. QED
  BY <1>2, <1>10, <1>11, <1>12, <1>13 DEF SoundAfter, Sound

-----------------------------------------------------------------------------
(* The callbacks, and what scripts call.                                   *)

LEMMA ReturnSound ==
    ASSUME TypeInv, Sound, ScriptReturns
    PROVE  SoundAfter
<1>1. PICK t : t = Tail(stack)
  OBVIOUS
<1>2. Top.pc # "jobs" /\ IsScript(Top) /\ GoTo(<<>>) /\ UNCHANGED <<life, own, inside>>
  BY ScriptReturnsShape DEF items
<1>3. /\ t \in Seq(Frames) /\ Kept(t, life, own)
      /\ Owed(stack) = Owes(Top) \cup Owed(t)
      /\ Doomed(stack) = Dooms(Top) \cup Doomed(t)
      /\ Torn(stack) = Tears(Top) \cup Torn(t)
  BY <1>1, <1>2, PoppedLemma
<1>4. Owes(Top) = {} /\ Tears(Top) = {} /\ Dooms(Top) = {}
  BY <1>2 DEF Owes, Tears, Tearing, Dooms, IsScript
<1>5. stack' = t /\ thrown' = thrown
  BY <1>1, <1>2, <1>3, NoStep
<1>6. Covers(t, life, own)
  BY <1>3, <1>4 DEF Covers, Sound
<1>7. QED
  BY <1>2, <1>3, <1>5, <1>6 DEF SoundAfter, Sound

LEMMA RefusedSound ==
    ASSUME TypeInv, Sound, MoveRefused
    PROVE  SoundAfter
<1>1. PICK t : t = Tail(stack)
  OBVIOUS
<1>2. /\ Top.pc = "OnItemCheckMove" /\ UNCHANGED <<life, own, inside, thrown>>
      /\ t # <<>> /\ stack' = Tail(t) /\ t[1].pc = "checked"
  BY <1>1, MoveRefusedShape DEF items
<1>3. /\ t \in Seq(Frames) /\ Kept(t, life, own)
      /\ Owed(stack) = Owes(Top) \cup Owed(t)
      /\ Doomed(stack) = Dooms(Top) \cup Doomed(t)
      /\ Torn(stack) = Tears(Top) \cup Torn(t)
  BY <1>1, <1>2, PoppedLemma
<1>4. Owes(Top) = {} /\ Tears(Top) = {} /\ Dooms(Top) = {}
  BY <1>2 DEF Owes, Tears, Tearing, Dooms
<1>5. Owes(t[1]) = {} /\ Tears(t[1]) = {} /\ Dooms(t[1]) = {}
  BY <1>2 DEF Owes, Tears, Tearing, Dooms
<1>6. Kept(Tail(t), life, own)
  BY <1>2, <1>3, PopSound
<1>7. /\ Owed(t) = Owes(t[1]) \cup Owed(Tail(t))
      /\ Doomed(t) = Dooms(t[1]) \cup Doomed(Tail(t))
      /\ Torn(t) = Tears(t[1]) \cup Torn(Tail(t))
  BY <1>2, <1>3, PopSets
<1>8. Covers(stack', life, own)
  BY <1>2, <1>3, <1>4, <1>5, <1>7 DEF Covers, Sound
<1>9. QED
  BY <1>2, <1>6, <1>8 DEF SoundAfter, Sound

LEMMA CallStep ==
    ASSUME GoodStack(stack), NEW a \in Frames, NEW c \in Frames, IsScript(c), c.pc # "jobs",
           Call(<<a>>) \/ Call(<<c, a>>),
           NEW l, NEW o, Kept(stack, l, o), Promise(a, l, o),
           Tears(a) = {}, \A i : ~(i \in Owes(a) /\ i \in Owed(stack))
    PROVE  /\ Kept(stack', l, o) /\ thrown' = thrown
           /\ Owed(stack') = Owes(a) \cup Owed(stack)
           /\ Doomed(stack') = Dooms(a) \cup Doomed(stack)
           /\ Torn(stack') = Torn(stack)
<1>1. PICK r : r = Push(a, stack)
  OBVIOUS
<1>2. stack \in Seq(Frames)
  BY DEF GoodStack
<1>3. stack # <<>> => Behind(a, stack[1])
  <2> SUFFICES ASSUME stack # <<>> PROVE Behind(a, stack[1])
    OBVIOUS
  <2>1. Top = stack[1]
    BY TailGood DEF Top
  <2>2. IsScript(Top)
    BY DEF Call
  <2>3. QED
    BY <2>1, <2>2 DEF Behind
<1>4. r \in Seq(Frames) /\ r[1] = a
  BY <1>1, <1>2, PushLemma
<1>5. Kept(r, l, o)
  BY <1>1, <1>2, <1>3, PushSound
<1>6. /\ Owed(r) = Owes(a) \cup Owed(stack) /\ Doomed(r) = Dooms(a) \cup Doomed(stack)
      /\ Torn(r) = Tears(a) \cup Torn(stack)
  BY <1>1, <1>2, PushSets
<1>7. CASE Call(<<a>>)
  <2>1. stack' = r /\ thrown' = thrown
    BY <1>1, <1>7 DEF Call, Push
  <2>2. QED
    BY <1>5, <1>6, <2>1
<1>8. CASE Call(<<c, a>>)
  <2>1. stack' = <<c, a>> \o stack /\ thrown' = thrown
    BY <1>8 DEF Call
  <2>2. stack' = Push(c, r)
    BY <1>1, <1>2, <2>1, PushTwo
  <2>3. Owes(c) = {} /\ Tears(c) = {} /\ Dooms(c) = {} /\ Promise(c, l, o) /\ Behind(c, a)
    BY DEF Owes, Tears, Tearing, Dooms, Promise, IsScript, Behind
  <2>4. Kept(Push(c, r), l, o)
    BY <1>4, <1>5, <2>3, PushSound
  <2>5. /\ Owed(Push(c, r)) = Owes(c) \cup Owed(r) /\ Doomed(Push(c, r)) = Dooms(c) \cup Doomed(r)
        /\ Torn(Push(c, r)) = Tears(c) \cup Torn(r)
    BY <1>4, PushSets
  <2>6. QED
    BY <1>6, <2>1, <2>2, <2>3, <2>4, <2>5
<1>9. QED
  BY <1>7, <1>8

LEMMA ScriptCalled ==
    ASSUME TypeInv, Sound, Call(<<Scr>>)
    PROVE  /\ Kept(stack', life, own) /\ thrown' = thrown
           /\ Owed(stack') = Owed(stack) /\ Doomed(stack') = Doomed(stack) /\ Torn(stack') = Torn(stack)
<1>1. stack \in Seq(Frames) /\ Kept(stack, life, own)
  BY DEF TypeInv, GoodStack, Sound
<1>2. stack' = Push(Scr, stack) /\ thrown' = thrown
  BY DEF Call, Push
<1>3. QED
  BY <1>1, <1>2, ScrPush

LEMMA ScriptsSound ==
    ASSUME TypeInv, Sound, Scripts
    PROVE  SoundAfter
<1>1. /\ GoodStack(stack) /\ stack \in Seq(Frames) /\ Kept(stack, life, own)
      /\ \A k \in 1..Len(stack) : FrameOK(stack[k])
      /\ PlaceInv(life, own, inside) /\ Covers(stack, life, own) /\ thrown = FALSE
  BY DEF TypeInv, GoodStack, Sound
<1>2. /\ Scr \in Frames /\ IsScript(Scr) /\ Scr.pc # "jobs"
  BY ScrLemma
<1>3. ASSUME NEW i \in Things, NEW n \in Counts, NEW to \in Holders, NEW skip \in BOOLEAN,
             MoveItem(i, n, to, skip)
      PROVE  SoundAfter
  <2>0. PICK move \in Frames : MoveCalled(move, i, to)
    BY <1>3, MoveShape
  <2>1. /\ FrameOK(move) /\ move.pc = "checked" /\ move.item = i /\ move.to = to
        /\ move.from = GetItemHolder(i)
        /\ Call(<<move>>) \/ Call(<<Script("OnItemCheckMove"), move>>)
    BY <2>0 DEF MoveCalled
  <2>2. PICK c \in Frames : c = Script("OnItemCheckMove") /\ c.pc = "OnItemCheckMove"
    BY ScriptLemma
  <2>3. IsScript(c) /\ c.pc # "jobs" /\ (Call(<<move>>) \/ Call(<<c, move>>))
    BY <2>1, <2>2 DEF IsScript
  <2>4. Exists(i) /\ Exists(to) /\ UNCHANGED <<life, own, inside>> /\ GetItemHolder(i) # Nowhere
    BY <1>3 DEF MoveItem, items
  <2>5. GetItemHolder(i) = own[i]
    BY <2>4 DEF GetItemHolder
  <2>6. Promise(move, life, own)
    BY <2>1, <2>4, <2>5 DEF Promise, Tearing, Exists, Alive
  <2>7. Owes(move) = {} /\ Tears(move) = {} /\ Dooms(move) = {}
    BY <2>1 DEF Owes, Tears, Tearing, Dooms
  <2>8. /\ Kept(stack', life, own) /\ thrown' = thrown
        /\ Owed(stack') = Owes(move) \cup Owed(stack)
        /\ Doomed(stack') = Dooms(move) \cup Doomed(stack)
        /\ Torn(stack') = Torn(stack)
    BY <1>1, <2>1, <2>3, <2>6, <2>7, CallStep
  <2>9. Covers(stack', life, own)
    BY <1>1, <2>7, <2>8 DEF Covers
  <2>10. QED
    BY <1>1, <2>4, <2>8, <2>9 DEF SoundAfter
<1>4. ASSUME NEW i \in Things, NEW n \in Counts, DestroyItem(i, n)
      PROVE  SoundAfter
  <2>1. UNCHANGED <<life, own, inside>>
    BY <1>4, DestroyShape
  <2>2. CASE Call(<<Scr>>)
    <3>1. /\ Kept(stack', life, own) /\ thrown' = thrown
          /\ Owed(stack') = Owed(stack) /\ Doomed(stack') = Doomed(stack) /\ Torn(stack') = Torn(stack)
      BY <2>2, ScriptCalled
    <3>2. Covers(stack', life, own)
      BY <1>1, <3>1 DEF Covers
    <3>3. QED
      BY <1>1, <2>1, <3>1, <3>2 DEF SoundAfter
  <2>3. ASSUME NEW d \in Frames, d.pc = "destroy", Call(<<d>>)
        PROVE  SoundAfter
    <3>1. Owes(d) = {} /\ Tears(d) = {} /\ Promise(d, life, own)
      BY <2>3 DEF Owes, Tears, Tearing, Promise
    <3>2. /\ Kept(stack', life, own) /\ thrown' = thrown
          /\ Owed(stack') = Owes(d) \cup Owed(stack)
          /\ Doomed(stack') = Dooms(d) \cup Doomed(stack)
          /\ Torn(stack') = Torn(stack)
      BY <1>1, <1>2, <2>3, <3>1, CallStep
    <3>3. Covers(stack', life, own)
      BY <1>1, <3>1, <3>2 DEF Covers
    <3>4. QED
      BY <1>1, <2>1, <3>2, <3>3 DEF SoundAfter
  <2>4. QED
    BY <1>4, <2>2, <2>3, DestroyShape
<1>5. ASSUME NEW h \in Holders, NEW n \in Counts, AddItem(h, n)
      PROVE  SoundAfter
  <2>1. UNCHANGED <<own, inside>> /\ Exists(h)
    BY <1>5, AddShape
  <2>2. CASE UNCHANGED life /\ Call(<<Scr>>)
    <3>1. /\ Kept(stack', life, own) /\ thrown' = thrown
          /\ Owed(stack') = Owed(stack) /\ Doomed(stack') = Doomed(stack) /\ Torn(stack') = Torn(stack)
      BY <2>2, ScriptCalled
    <3>2. Covers(stack', life, own)
      BY <1>1, <3>1 DEF Covers
    <3>3. QED
      BY <1>1, <2>1, <2>2, <3>1, <3>2 DEF SoundAfter
  <2>3. CASE /\ Free # {} /\ life' = [life EXCEPT ![NewItem] = "live"]
             /\ \E c \in Frames : /\ FrameOK(c) /\ c.pc = "created" /\ c.item = NewItem /\ c.to = h
                                  /\ Call(<<Scr, c>>)
    <3>1. PICK x \in Things : x = NewItem /\ life[x] = "free"
      BY <2>3, NewItemLemma
    <3>2. PICK c \in Frames : /\ c.pc = "created" /\ c.item = x /\ c.to = h
                              /\ Call(<<Scr, c>>)
      BY <2>3, <3>1
    <3>3. life' = [life EXCEPT ![x] = "live"] /\ LifeType(life)
      BY <2>3, <3>1 DEF LifeType, TypeInv, DataInv
    <3>4. Kept(stack, life', own) /\ x \notin Owed(stack)
      BY <1>1, <3>1, <3>3, NewKept
    <3>5. \A j \in Things : life'[j] = IF j = x THEN "live" ELSE life[j]
      BY <3>3 DEF LifeType
    <3>6. own[x] = Nowhere
      BY <1>1, <3>1 DEF PlaceInv
    <3>7. Promise(c, life', own)
      BY <2>1, <3>1, <3>2, <3>5, <3>6 DEF Promise, Tearing, Alive, Exists
    <3>8. Owes(c) = {x} /\ Tears(c) = {} /\ Dooms(c) = {}
      BY <3>2 DEF Owes, Tears, Tearing, Dooms
    <3>9. /\ Kept(stack', life', own) /\ thrown' = thrown
          /\ Owed(stack') = Owes(c) \cup Owed(stack)
          /\ Doomed(stack') = Dooms(c) \cup Doomed(stack)
          /\ Torn(stack') = Torn(stack)
      BY <1>1, <1>2, <3>2, <3>4, <3>7, <3>8, CallStep
    <3>10. PlaceInv(life', own, inside)
      BY <1>1, <3>5, <3>6 DEF PlaceInv, Things
    <3>11. Covers(stack', life', own)
      BY <1>1, <3>5, <3>8, <3>9 DEF Covers
    <3>12. QED
      BY <1>1, <2>1, <3>9, <3>10, <3>11 DEF SoundAfter
  <2>4. QED
    BY <1>5, <2>2, <2>3, AddShape
<1>6. QED
  BY <1>3, <1>4, <1>5 DEF Scripts

LEMMA InitSound ==
    ASSUME Init
    PROVE  Sound
<1>1. stack = <<>> /\ thrown = FALSE
  BY DEF Init
<1>2. PlaceInv(life, own, inside)
  <2>1. \A i \in Things : own[i] = Start[i] /\ (own[i] # Nowhere => life[i] = "live")
                          /\ (own[i] = Nowhere => life[i] = "free")
    BY DEF Init
  <2>2. \A h \in Holders, i \in Things : i \in inside[h] <=> own[i] = h
    BY DEF Init
  <2>3. \A i \in Things : life[i] \in {"free", "destroyed"} => own[i] = Nowhere
    BY <2>1
  <2>4. \A i \in Things : own[i] \in Bags => life[own[i]] # "destroyed"
    BY <2>1 DEF Things
  <2>5. QED
    BY <2>2, <2>3, <2>4 DEF PlaceInv
<1>3. \A k \in 1..Len(<<>>) : FALSE
  OBVIOUS
<1>4. Len(stack) = 0
  BY <1>1
<1>5. Kept(stack, life, own)
  BY <1>4 DEF Kept, Promises, Chain
<1>6. Covers(stack, life, own)
  BY DEF Init, Covers
<1>7. QED
  BY <1>1, <1>2, <1>5, <1>6 DEF Sound

LEMMA NextSound ==
    ASSUME IInv, [Next]_vars
    PROVE  IInv'
<1>1. TypeInv'
  BY NextType DEF IInv
<1>2. ASSUME ~broken' PROVE Sound'
  <2>1. CASE UNCHANGED vars
    <3>1. ~broken
      BY <1>2, <2>1, Zenon DEF vars
    <3>2. UNCHANGED <<life, own, inside, stack, thrown>>
      BY <2>1 DEF vars, items
    <3>3. Sound
      BY <3>1, Zenon DEF IInv
    <3>4. QED
      BY <3>2, <3>3 DEF Sound, PlaceInv, Kept, Promises, Chain, Covers, Owed, Doomed, Torn
  <2>2. CASE Next
    <3>1. broken' = (broken \/ Touches)
      BY <2>2 DEF Next, Watch
    <3>2. ~broken /\ ~Touches
      BY <1>2, <3>1, Zenon
    <3>3. TypeInv /\ Sound
      BY <3>2, Zenon DEF IInv
    <3>4. SoundAfter
      <4>1. CASE Scripts
        BY <3>3, <4>1, ScriptsSound
      <4>2. CASE Engine
        BY <3>2, <3>3, <4>2, ReturnSound, RefusedSound, MoveWholeSound, SplitItemSound, SplitDoneSound,
           CreatedSound, AddSound, MergeSound, BeginDestroySound, TearOffSound, DestroyInnerSound,
           NextRoundSound, EndDestroySound DEF Engine
      <4>3. QED
        BY <2>2, <4>1, <4>2 DEF Next
    <3>5. QED
      BY <3>4 DEF SoundAfter, Sound, PlaceInv, Kept, Promises, Chain, Covers, Owed, Doomed, Torn
  <2>3. QED
    BY <2>1, <2>2
<1>3. QED
  BY <1>1, <1>2, Zenon DEF IInv

(* As long as scripts leave alone what the calls under way rely on, no     *)
(* assertion of the managers fails, every item is in the list of the       *)
(* holder that it names and in no other, also in the middle of a move or   *)
(* of its destruction, and when all calls have returned none is lost or    *)
(* half destroyed: for any items and holders, and for scripts that call    *)
(* one another to any depth.                                               *)
THEOREM OrderlyTheorem == Spec => []Orderly
<1>1. Init => IInv
  BY InitType, InitSound DEF IInv
<1>2. IInv /\ [Next]_vars => IInv'
  BY NextSound
<1>3. IInv => Orderly
  <2> SUFFICES ASSUME IInv, ~broken PROVE ~thrown /\ Placed
    BY Zenon DEF Orderly
  <2>1. Sound
    BY Zenon DEF IInv
  <2>2. ~thrown
    BY <2>1 DEF Sound
  <2>3. ASSUME stack = <<>>, NEW i \in Things
        PROVE  life[i] # "destroying" /\ (life[i] = "live" => own[i] # Nowhere)
    <3>1. Len(stack) = 0
      BY <2>3
    <3>2. Owed(stack) = {} /\ Doomed(stack) = {} /\ Torn(stack) = {}
      BY <3>1 DEF Owed, Doomed, Torn
    <3>3. QED
      BY <2>1, <3>2 DEF Sound, Covers
  <2>4. QED
    BY <2>1, <2>2, <2>3 DEF Sound, PlaceInv, Placed
<1>4. QED
  BY <1>1, <1>2, <1>3, PTL DEF Spec

-----------------------------------------------------------------------------
(* Sums.  FoldFunctionOnSet takes a function that is given by recursion    *)
(* over the subsets of the set; that there is one, and what it yields, is  *)
(* an induction over their size (a least size at which it would fail).     *)
Total(f, S) == FoldFunctionOnSet(+, 0, f, S)
Pick(s) == CHOOSE x \in s : TRUE
SumsUp(g, f, S) == g = [s \in SUBSET S |-> IF s = {} THEN 0 ELSE f[Pick(s)] + g[s \ {Pick(s)}]]
Numbers(f, S) == \A x \in S : f[x] \in Int
TakesOut(g, f, S) == \A R \in SUBSET S : \A x \in R : g[R] = f[x] + g[R \ {x}]

LEMMA TotalLemma ==
    ASSUME NEW f, NEW S
    PROVE  Total(f, S) = (CHOOSE g : SumsUp(g, f, S))[S]
  BY DEF Total, Pick, SumsUp, FoldFunctionOnSet, MapThenFoldSet

LEMMA LeastLemma ==
    ASSUME NEW T \in SUBSET Nat, T # {}
    PROVE  \E n \in T : \A m \in T : n <= m
<1>1. PICK n \in T : \A m \in T : ~(<<m, n>> \in OpToRel(<, Nat))
  BY NatLessThanWellFounded, WFMin
<1>2. \A m \in T : ~(m < n)
  BY <1>1 DEF OpToRel
<1>3. QED
  BY <1>2

LEMMA PickLemma ==
    ASSUME NEW S, IsFiniteSet(S), NEW s \in SUBSET S, s # {}
    PROVE  /\ Pick(s) \in s /\ Pick(s) \in S /\ s \ {Pick(s)} \in SUBSET S
           /\ IsFiniteSet(s) /\ Cardinality(s) \in Nat \ {0}
           /\ Cardinality(s \ {Pick(s)}) = Cardinality(s) - 1
<1>1. Pick(s) \in s
  BY DEF Pick
<1>2. IsFiniteSet(s)
  BY FS_Subset
<1>3. Cardinality(s) \in Nat /\ Cardinality(s) # 0
  BY <1>2, FS_CardinalityType, FS_EmptySet
<1>4. Cardinality(s \ {Pick(s)}) = Cardinality(s) - 1
  BY <1>1, <1>2, FS_RemoveElement
<1>5. QED
  BY <1>1, <1>2, <1>3, <1>4

LEMMA IterLemma ==
    ASSUME NEW S, IsFiniteSet(S), NEW f, Numbers(f, S)
    PROVE  \E g \in [SUBSET S -> Int] : SumsUp(g, f, S)
<1> DEFINE Step(g, s) == IF s = {} THEN 0 ELSE f[Pick(s)] + g[s \ {Pick(s)}]
           Upto(g, n) == \A s \in SUBSET S : Cardinality(s) <= n => g[s] = Step(g, s)
           Bad == {n \in Nat : ~ \E g \in [SUBSET S -> Int] : Upto(g, n)}
<1>1. ASSUME NEW n \in Nat, NEW h \in [SUBSET S -> Int],
             n # 0 => Upto(h, n - 1)
      PROVE  \E g \in [SUBSET S -> Int] : Upto(g, n)
  <2> DEFINE g == [s \in SUBSET S |-> IF Cardinality(s) = n THEN Step(h, s) ELSE h[s]]
  <2>1. \A s \in SUBSET S : Step(h, s) \in Int
    <3> SUFFICES ASSUME NEW s \in SUBSET S, s # {} PROVE f[Pick(s)] + h[s \ {Pick(s)}] \in Int
      OBVIOUS
    <3>1. Pick(s) \in S /\ s \ {Pick(s)} \in SUBSET S
      BY PickLemma
    <3>2. QED
      BY <3>1 DEF Numbers
  <2>2. g \in [SUBSET S -> Int]
    BY <2>1
  <2>3. ASSUME NEW s \in SUBSET S, Cardinality(s) <= n
        PROVE  g[s] = Step(g, s)
    <3>1. Cardinality(s) \in Nat
      BY FS_Subset, FS_CardinalityType
    <3>2. g[s] = Step(h, s)
      <4>1. CASE Cardinality(s) = n
        BY <4>1
      <4>2. CASE Cardinality(s) # n
        <5>1. n # 0 /\ Cardinality(s) <= n - 1
          BY <2>3, <3>1, <4>2
        <5>2. QED
          BY <1>1, <4>2, <5>1
      <4>3. QED
        BY <4>1, <4>2
    <3>3. CASE s = {}
      BY <3>2, <3>3
    <3>4. CASE s # {}
      <4>1. /\ s \ {Pick(s)} \in SUBSET S /\ Cardinality(s \ {Pick(s)}) = Cardinality(s) - 1
        BY <3>4, PickLemma
      <4>2. Cardinality(s \ {Pick(s)}) # n
        BY <2>3, <3>1, <4>1
      <4>3. g[s \ {Pick(s)}] = h[s \ {Pick(s)}]
        BY <4>1, <4>2
      <4>4. QED
        BY <3>2, <4>3
    <3>5. QED
      BY <3>3, <3>4
  <2> HIDE DEF g, Step
  <2>4. QED
    BY <2>2, <2>3
<1> HIDE DEF Upto
<1>2. Bad = {}
  <2> SUFFICES ASSUME Bad # {} PROVE FALSE
    OBVIOUS
  <2>1. PICK n \in Bad : \A m \in Bad : n <= m
    BY LeastLemma
  <2>2. CASE n = 0
    <3>1. [s \in SUBSET S |-> 0] \in [SUBSET S -> Int]
      OBVIOUS
    <3>2. QED
      BY <1>1, <2>1, <2>2, <3>1
  <2>3. CASE n # 0
    <3>1. n \in Nat
      OBVIOUS
    <3>2. n - 1 \in Nat /\ n - 1 \notin Bad
      <4> HIDE DEF Bad
      <4>1. QED
        BY <2>1, <2>3, <3>1
    <3>3. PICK h \in [SUBSET S -> Int] : Upto(h, n - 1)
      BY <3>2
    <3>4. QED
      BY <1>1, <2>1, <3>3
  <2>4. QED
    BY <2>2, <2>3
<1>3. Cardinality(S) \in Nat
  BY FS_CardinalityType
<1>4. PICK g \in [SUBSET S -> Int] : Upto(g, Cardinality(S))
  BY <1>2, <1>3
<1>5. \A s \in SUBSET S : Cardinality(s) <= Cardinality(S)
  BY FS_Subset
<1>6. \A s \in SUBSET S : g[s] = Step(g, s)
  BY <1>4, <1>5 DEF Upto
<1>7. g = [s \in SUBSET S |-> Step(g, s)]
  BY <1>6
<1>8. QED
  BY <1>7 DEF SumsUp

(* Two of them agree where what they add up is the same.                   *)
LEMMA AgreeLemma ==
    ASSUME NEW S, IsFiniteSet(S), NEW f, NEW g, SumsUp(g, f, S),
           NEW T, IsFiniteSet(T), NEW e, NEW h, SumsUp(h, e, T),
           NEW R, R \subseteq S, R \subseteq T, \A x \in R : f[x] = e[x]
    PROVE  g[R] = h[R]
<1> DEFINE Bad == {n \in Nat : \E s \in SUBSET R : Cardinality(s) = n /\ g[s] # h[s]}
<1>1. IsFiniteSet(R)
  BY FS_Subset
<1>2. ASSUME NEW s \in SUBSET S PROVE g[s] = IF s = {} THEN 0 ELSE f[Pick(s)] + g[s \ {Pick(s)}]
  BY DEF SumsUp
<1>3. ASSUME NEW s \in SUBSET T PROVE h[s] = IF s = {} THEN 0 ELSE e[Pick(s)] + h[s \ {Pick(s)}]
  BY DEF SumsUp
<1>4. Bad = {}
  <2> SUFFICES ASSUME Bad # {} PROVE FALSE
    OBVIOUS
  <2>1. PICK n \in Bad : \A m \in Bad : n <= m
    BY LeastLemma
  <2>2. PICK s \in SUBSET R : Cardinality(s) = n /\ g[s] # h[s]
    BY <2>1
  <2>3. s \in SUBSET S /\ s \in SUBSET T
    OBVIOUS
  <2>4. s # {}
    BY <1>2, <1>3, <2>2, <2>3
  <2>5. /\ Pick(s) \in s /\ s \ {Pick(s)} \in SUBSET R /\ n \in Nat \ {0}
        /\ Cardinality(s \ {Pick(s)}) = n - 1
    BY <1>1, <2>2, <2>4, PickLemma
  <2>6. g[s \ {Pick(s)}] = h[s \ {Pick(s)}]
    <3>1. n - 1 \in Nat /\ n - 1 \notin Bad
      BY <2>1, <2>5
    <3>2. QED
      BY <2>5, <3>1
  <2>7. f[Pick(s)] = e[Pick(s)]
    BY <2>5
  <2>8. g[s] = f[Pick(s)] + g[s \ {Pick(s)}] /\ h[s] = e[Pick(s)] + h[s \ {Pick(s)}]
    BY <1>2, <1>3, <2>3, <2>4
  <2>9. QED
    BY <2>2, <2>6, <2>7, <2>8
<1>5. Cardinality(R) \in Nat
  BY <1>1, FS_CardinalityType
<1>6. QED
  BY <1>4, <1>5

LEMMA SumLemma ==
    ASSUME NEW S, IsFiniteSet(S), NEW f, Numbers(f, S)
    PROVE  \E g \in [SUBSET S -> Int] : SumsUp(g, f, S) /\ Total(f, S) = g[S]
<1>1. \E g : SumsUp(g, f, S)
  BY IterLemma
<1>2. SumsUp(CHOOSE g : SumsUp(g, f, S), f, S)
  BY <1>1
<1>3. PICK g : g = CHOOSE h : SumsUp(h, f, S)
  OBVIOUS
<1>4. SumsUp(g, f, S) /\ Total(f, S) = g[S]
  BY <1>2, <1>3, TotalLemma
<1>5. PICK h \in [SUBSET S -> Int] : SumsUp(h, f, S)
  BY IterLemma
<1>6. S \subseteq S /\ \A x \in S : f[x] = f[x]
  OBVIOUS
<1>7. g[S] = h[S]
  BY <1>4, <1>5, <1>6, AgreeLemma
<1>8. QED
  BY <1>4, <1>5, <1>7

LEMMA TotalInt ==
    ASSUME NEW S, IsFiniteSet(S), NEW f, Numbers(f, S)
    PROVE  Total(f, S) \in Int
<1>1. PICK g \in [SUBSET S -> Int] : SumsUp(g, f, S) /\ Total(f, S) = g[S]
  BY SumLemma
<1>2. QED
  BY <1>1

LEMMA TotalSame ==
    ASSUME NEW S, IsFiniteSet(S), NEW f, Numbers(f, S), NEW T, T \subseteq S,
           NEW e, Numbers(e, T), \A x \in T : f[x] = e[x],
           NEW g, SumsUp(g, f, S)
    PROVE  Total(e, T) = g[T]
<1>1. IsFiniteSet(T)
  BY FS_Subset
<1>2. PICK h \in [SUBSET T -> Int] : SumsUp(h, e, T) /\ Total(e, T) = h[T]
  BY <1>1, SumLemma
<1>3. T \subseteq T
  OBVIOUS
<1>4. g[T] = h[T]
  BY <1>1, <1>2, <1>3, AgreeLemma
<1>5. QED
  BY <1>2, <1>4

(* Any element may be taken out of the sum first.                          *)
LEMMA TakeOut ==
    ASSUME NEW S, IsFiniteSet(S), NEW f, Numbers(f, S), NEW g \in [SUBSET S -> Int], SumsUp(g, f, S)
    PROVE  TakesOut(g, f, S)
<1> DEFINE Bad == {n \in Nat : \E s \in SUBSET S : Cardinality(s) = n /\ \E z \in s : g[s] # f[z] + g[s \ {z}]}
<1>1. \A s \in SUBSET S : s # {} => g[s] = f[Pick(s)] + g[s \ {Pick(s)}]
  BY DEF SumsUp
<1>2. Bad = {}
  <2> SUFFICES ASSUME Bad # {} PROVE FALSE
    OBVIOUS
  <2>1. PICK n \in Bad : \A m \in Bad : n <= m
    BY LeastLemma
  <2>2. PICK s \in SUBSET S : Cardinality(s) = n /\ \E z \in s : g[s] # f[z] + g[s \ {z}]
    BY <2>1
  <2>3. PICK z \in s : g[s] # f[z] + g[s \ {z}]
    BY <2>2
  <2>4. PICK y : y = Pick(s)
    OBVIOUS
  <2>5. /\ y \in s /\ s \ {y} \in SUBSET S /\ n \in Nat \ {0}
        /\ Cardinality(s \ {y}) = n - 1 /\ g[s] = f[y] + g[s \ {y}]
    BY <1>1, <2>2, <2>3, <2>4, PickLemma
  <2>6. y # z
    BY <2>3, <2>5
  <2>7. Cardinality(s \ {z}) = n - 1 /\ s \ {z} \in SUBSET S
    BY <2>2, FS_Subset, FS_RemoveElement
  <2>8. n - 1 \in Nat /\ n - 1 \notin Bad
    <3>1. n \in Nat
      BY <2>5
    <3> HIDE DEF Bad
    <3>2. QED
      BY <2>1, <2>5, <3>1
  <2>9. \A r \in SUBSET S : Cardinality(r) = n - 1 => \A v \in r : g[r] = f[v] + g[r \ {v}]
    BY <2>8
  <2>10. g[s \ {y}] = f[z] + g[(s \ {y}) \ {z}]
    BY <2>5, <2>6, <2>9
  <2>11. g[s \ {z}] = f[y] + g[(s \ {z}) \ {y}]
    BY <2>5, <2>6, <2>7, <2>9
  <2>12. PICK r \in SUBSET S : r = (s \ {y}) \ {z} /\ r = (s \ {z}) \ {y}
    <3>1. (s \ {y}) \ {z} = (s \ {z}) \ {y} /\ (s \ {y}) \ {z} \in SUBSET S
      OBVIOUS
    <3>2. QED
      BY <3>1
  <2>13. f[y] \in Int /\ f[z] \in Int /\ g[r] \in Int
    BY <2>5 DEF Numbers
  <2>14. g[s \ {y}] = f[z] + g[r] /\ g[s \ {z}] = f[y] + g[r]
    BY <2>10, <2>11, <2>12
  <2>15. g[s] = f[y] + (f[z] + g[r]) /\ g[s] # f[z] + (f[y] + g[r])
    BY <2>3, <2>5, <2>14
  <2>16. QED
    BY <2>13, <2>15
<1>3. \A R \in SUBSET S : Cardinality(R) \in Nat
  BY FS_Subset, FS_CardinalityType
<1>4. QED
  BY <1>2, <1>3 DEF TakesOut

(* What a change of one value does to the sum.                             *)
LEMMA TotalChange ==
    ASSUME NEW S, IsFiniteSet(S), NEW f, Numbers(f, S), NEW e, Numbers(e, S),
           NEW x \in S, \A y \in S : y # x => e[y] = f[y]
    PROVE  Total(e, S) = Total(f, S) - f[x] + e[x]
<1>1. PICK g \in [SUBSET S -> Int] : SumsUp(g, f, S) /\ Total(f, S) = g[S]
  BY SumLemma
<1>2. PICK h \in [SUBSET S -> Int] : SumsUp(h, e, S) /\ Total(e, S) = h[S]
  BY SumLemma
<1>3. PICK R \in SUBSET S : R = S \ {x}
  OBVIOUS
<1>4. g[S] = f[x] + g[R] /\ h[S] = e[x] + h[R]
  <2>1. TakesOut(g, f, S)
    BY <1>1, TakeOut
  <2>2. TakesOut(h, e, S)
    BY <1>2, TakeOut
  <2>3. S \in SUBSET S
    OBVIOUS
  <2>4. QED
    BY <1>3, <2>1, <2>2, <2>3 DEF TakesOut
<1>5. \A y \in R : f[y] = e[y]
  BY <1>3
<1>6. g[R] = h[R]
  BY <1>1, <1>2, <1>5, AgreeLemma
<1>7. f[x] \in Int /\ e[x] \in Int /\ g[R] \in Int
  BY DEF Numbers
<1>8. QED
  BY <1>1, <1>2, <1>4, <1>6, <1>7

(* What is 0 does not count.                                               *)
LEMMA TotalPart ==
    ASSUME NEW S, IsFiniteSet(S), NEW f, Numbers(f, S), NEW T \in SUBSET S,
           NEW e, \A x \in T : e[x] = f[x], \A x \in S : x \notin T => f[x] = 0
    PROVE  Total(e, T) = Total(f, S)
<1>1. PICK g \in [SUBSET S -> Int] : SumsUp(g, f, S) /\ Total(f, S) = g[S]
  BY SumLemma
<1>2. T \subseteq S /\ Numbers(e, T) /\ \A x \in T : f[x] = e[x]
  BY DEF Numbers
<1>3. Total(e, T) = g[T]
  BY <1>2, <1>1, TotalSame
<1>4. TakesOut(g, f, S)
  BY <1>1, TakeOut
<1> DEFINE Bad == {n \in Nat : \E R \in SUBSET S : Cardinality(R) = n /\ T \subseteq R /\ g[R] # g[T]}
<1>5. Bad = {}
  <2> SUFFICES ASSUME Bad # {} PROVE FALSE
    OBVIOUS
  <2>1. PICK n \in Bad : \A m \in Bad : n <= m
    BY LeastLemma
  <2>2. PICK R \in SUBSET S : Cardinality(R) = n /\ T \subseteq R /\ g[R] # g[T]
    BY <2>1
  <2>3. PICK x \in R : x \notin T
    <3>1. R # T
      BY <2>2
    <3>2. QED
      BY <2>2, <3>1
  <2>4. R \ {x} \in SUBSET S /\ T \subseteq R \ {x} /\ Cardinality(R \ {x}) = n - 1
    BY <2>2, <2>3, FS_Subset, FS_RemoveElement
  <2>5. n \in Nat /\ n # 0
    BY <2>2, <2>3, FS_Subset, FS_EmptySet
  <2>6. n - 1 \in Nat /\ n - 1 \notin Bad
    <3> HIDE DEF Bad
    <3>1. QED
      BY <2>1, <2>5
  <2>7. g[R \ {x}] = g[T]
    BY <2>4, <2>6
  <2>8. g[R] = f[x] + g[R \ {x}]
    BY <1>4, <2>2 DEF TakesOut
  <2>9. f[x] = 0 /\ g[T] \in Int
    BY <2>3
  <2>10. QED
    BY <2>2, <2>7, <2>8, <2>9
<1>6. S \in SUBSET S /\ Cardinality(S) \in Nat
  BY FS_CardinalityType
<1>7. g[S] = g[T]
  BY <1>5, <1>6
<1>8. QED
  BY <1>1, <1>3, <1>7

LEMMA TotalEven ==
    ASSUME NEW S, IsFiniteSet(S), NEW c \in Int, NEW f, \A x \in S : f[x] = c
    PROVE  Total(f, S) = c * Cardinality(S)
<1>1. Numbers(f, S)
  BY DEF Numbers
<1>2. PICK g \in [SUBSET S -> Int] : SumsUp(g, f, S) /\ Total(f, S) = g[S]
  BY <1>1, SumLemma
<1>3. TakesOut(g, f, S)
  BY <1>1, <1>2, TakeOut
<1> DEFINE Bad == {n \in Nat : \E R \in SUBSET S : Cardinality(R) = n /\ g[R] # c * n}
<1>4. Bad = {}
  <2> SUFFICES ASSUME Bad # {} PROVE FALSE
    OBVIOUS
  <2>1. PICK n \in Bad : \A m \in Bad : n <= m
    BY LeastLemma
  <2>2. PICK R \in SUBSET S : Cardinality(R) = n /\ g[R] # c * n
    BY <2>1
  <2>3. n \in Nat
    OBVIOUS
  <2>4. CASE R = {}
    <3>1. n = 0
      BY <2>2, <2>4, FS_EmptySet
    <3>2. g[R] = 0
      BY <1>2, <2>4 DEF SumsUp
    <3>3. c * 0 = 0
      OBVIOUS
    <3>4. QED
      BY <2>2, <3>1, <3>2, <3>3
  <2>5. CASE R # {}
    <3>1. PICK x \in R : TRUE
      BY <2>5
    <3>2. R \ {x} \in SUBSET S /\ Cardinality(R \ {x}) = n - 1 /\ n # 0
      BY <2>2, <2>5, FS_Subset, FS_RemoveElement, FS_EmptySet
    <3>3. n - 1 \in Nat /\ n - 1 \notin Bad
      <4> HIDE DEF Bad
      <4>1. QED
        BY <2>1, <2>3, <3>2
    <3>4. g[R \ {x}] = c * (n - 1)
      BY <3>2, <3>3
    <3>5. g[R] = f[x] + g[R \ {x}]
      BY <1>3 DEF TakesOut
    <3>6. c + c * (n - 1) = c * n
      BY <2>3
    <3>7. f[x] = c
      OBVIOUS
    <3>8. QED
      BY <2>2, <3>4, <3>5, <3>6, <3>7
  <2>6. QED
    BY <2>4, <2>5
<1>5. S \in SUBSET S /\ Cardinality(S) \in Nat
  BY FS_CardinalityType
<1>6. g[S] = c * Cardinality(S)
  BY <1>4, <1>5
<1>7. QED
  BY <1>2, <1>6

-----------------------------------------------------------------------------
(* The coins that the calls under way have in hand.  SplitItem has given   *)
(* some to a new item and takes them from the old one only after the       *)
(* scripts; a stack that joins another is destroyed first, and its coins   *)
(* are added then.                                                         *)
Parts(f) == IF f.pc = "split" THEN {f.from} ELSE {}
Parted(s) == UNION {Parts(s[k]) : k \in 1..Len(s)}
Below(t) == IF t = <<>> THEN Scr ELSE t[1]
Under(s, k) == IF k = Len(s) THEN Scr ELSE s[k + 1]

(* c are the counts, p[i] are the coins that i has too many.               *)
Entry(f, c, p) ==
    /\ f.pc = "split" => /\ f.item \in Coins /\ f.from \in Coins /\ f.item # f.from
                         /\ p[f.from] = c[f.item] - f.n
    /\ f.pc = "merge" => f.item \in Coins
    /\ f.pc \in Ending => f.n \in {0, 1}

(* DestroyItem for coins that join others (n = 0) is right above the call  *)
(* that adds them, and no other is.                                        *)
Link(a, b, c) ==
    /\ b.pc # "destroy"
    /\ b.pc = "merge" => a.pc \in Ending
    /\ a.pc \in Ending => (a.n = 0 <=> b.pc = "merge")
    /\ a.pc \in Ending /\ a.n = 0 => a.item \in Coins /\ b.n = c[a.item]

(* Nobody puts an item somewhere while a call below is destroying it.      *)
Books(s, c, p) ==
    /\ \A k \in 1..Len(s) : Entry(s[k], c, p) /\ Link(s[k], Under(s, k), c)
    /\ \A j, k \in 1..Len(s) : j < k => \A i : ~(i \in Owes(s[j]) /\ i \in Tears(s[k]))

LEMMA PushBooks ==
    ASSUME NEW a \in Frames, NEW t \in Seq(Frames), NEW c, NEW p, Books(t, c, p),
           Entry(a, c, p), Link(a, Below(t), c), \A i : ~(i \in Owes(a) /\ i \in Torn(t))
    PROVE  /\ Push(a, t) \in Seq(Frames) /\ Books(Push(a, t), c, p) /\ Below(Push(a, t)) = a
           /\ Parted(Push(a, t)) = Parts(a) \cup Parted(t)
<1> DEFINE r == Push(a, t)
<1>1. /\ r \in Seq(Frames) /\ r # <<>> /\ Len(t) \in Nat /\ Len(r) = Len(t) + 1 /\ r[1] = a
      /\ \A k \in 1..Len(t) : r[k + 1] = t[k]
  BY PushLemma
<1> HIDE DEF r
<1>2. ASSUME NEW k \in 1..Len(r)
      PROVE  (k = 1 /\ r[k] = a) \/ \E j \in 1..Len(t) : k = j + 1 /\ r[k] = t[j]
  <2>1. CASE k = 1
    BY <1>1, <2>1
  <2>2. CASE k # 1
    <3>1. k - 1 \in 1..Len(t) /\ k = (k - 1) + 1
      BY <1>1, <2>2
    <3>2. QED
      BY <1>1, <3>1
  <2>3. QED
    BY <2>1, <2>2
<1>3. Under(r, 1) = Below(t)
  <2>1. CASE t = <<>>
    <3>1. Len(r) = 1
      BY <1>1, <2>1
    <3>2. QED
      BY <2>1, <3>1 DEF Under, Below
  <2>2. CASE t # <<>>
    <3>1. Len(t) # 0
      BY <2>2, EmptySeq
    <3>2. Len(r) # 1 /\ r[1 + 1] = t[1]
      BY <1>1, <3>1
    <3>3. QED
      BY <2>2, <3>2 DEF Under, Below
  <2>3. QED
    BY <2>1, <2>2
<1>4. ASSUME NEW j \in 1..Len(t) PROVE Under(r, j + 1) = Under(t, j)
  <2>1. CASE j = Len(t)
    BY <1>1, <2>1 DEF Under
  <2>2. CASE j # Len(t)
    <3>1. j + 1 # Len(r) /\ j + 1 \in 1..Len(t)
      BY <1>1, <2>2
    <3>2. r[(j + 1) + 1] = t[j + 1]
      BY <1>1, <3>1
    <3>3. QED
      BY <2>2, <3>1, <3>2 DEF Under
  <2>3. QED
    BY <2>1, <2>2
<1>5. ASSUME NEW k \in 1..Len(r) PROVE Entry(r[k], c, p) /\ Link(r[k], Under(r, k), c)
  BY <1>2, <1>3, <1>4 DEF Books
<1>6. ASSUME NEW j \in 1..Len(r), NEW k \in 1..Len(r), j < k, NEW i, i \in Owes(r[j]), i \in Tears(r[k])
      PROVE  FALSE
  <2>1. PICK n \in 1..Len(t) : k = n + 1 /\ r[k] = t[n]
    BY <1>1, <1>2, <1>6
  <2>2. i \in Torn(t)
    BY <1>6, <2>1 DEF Torn
  <2>3. CASE j = 1
    BY <1>1, <1>6, <2>2, <2>3
  <2>4. CASE j # 1
    <3>1. PICK m \in 1..Len(t) : j = m + 1 /\ r[j] = t[m]
      BY <1>2, <2>4
    <3>2. m < n
      BY <1>1, <1>6, <2>1, <3>1
    <3>3. QED
      BY <1>6, <2>1, <3>1, <3>2 DEF Books
  <2>5. QED
    BY <2>3, <2>4
<1>7. Books(r, c, p)
  BY <1>5, <1>6 DEF Books
<1>8. Below(r) = a
  BY <1>1 DEF Below
<1>9. Parted(r) = Parts(a) \cup Parted(t)
  <2>1. 1 \in 1..Len(r) /\ \A k \in 1..Len(t) : k + 1 \in 1..Len(r)
    BY <1>1
  <2>2. QED
    BY <1>1, <1>2, <2>1 DEF Parted
<1>10. QED
  BY <1>1, <1>7, <1>8, <1>9 DEF r

LEMMA PopBooks ==
    ASSUME NEW s \in Seq(Frames), s # <<>>, NEW c, NEW p, Books(s, c, p)
    PROVE  /\ Books(Tail(s), c, p) /\ Entry(s[1], c, p) /\ Link(s[1], Below(Tail(s)), c)
           /\ \A i : ~(i \in Owes(s[1]) /\ i \in Torn(Tail(s)))
           /\ \A k \in 1..Len(Tail(s)) : Tail(s)[k].pc # "destroy"
           /\ Parted(s) = Parts(s[1]) \cup Parted(Tail(s))
<1> DEFINE t == Tail(s)
<1>1. /\ Len(s) \in Nat /\ Len(s) # 0 /\ t \in Seq(Frames) /\ Len(t) = Len(s) - 1
      /\ \A k \in 1..Len(t) : t[k] = s[k + 1]
  BY LenProperties, EmptySeq, HeadTailProperties
<1> HIDE DEF t
<1>2. 1 \in 1..Len(s) /\ \A k \in 1..Len(t) : k + 1 \in 1..Len(s) /\ 1 < k + 1
  BY <1>1
<1>3. Under(s, 1) = Below(t)
  <2>1. CASE t = <<>>
    <3>1. Len(t) = 0
      BY <2>1
    <3>2. Len(s) = 1
      BY <1>1, <3>1
    <3>3. QED
      BY <2>1, <3>2 DEF Under, Below
  <2>2. CASE t # <<>>
    <3>1. Len(t) # 0
      BY <1>1, <2>2, EmptySeq
    <3>2. Len(s) # 1 /\ s[1 + 1] = t[1]
      BY <1>1, <3>1
    <3>3. QED
      BY <2>2, <3>2 DEF Under, Below
  <2>3. QED
    BY <2>1, <2>2
<1>4. ASSUME NEW j \in 1..Len(t) PROVE Under(s, j + 1) = Under(t, j)
  <2>1. CASE j = Len(t)
    BY <1>1, <2>1 DEF Under
  <2>2. CASE j # Len(t)
    <3>1. j + 1 # Len(s) /\ j + 1 \in 1..Len(t)
      BY <1>1, <2>2
    <3>2. t[j + 1] = s[(j + 1) + 1]
      BY <1>1, <3>1
    <3>3. QED
      BY <2>2, <3>1, <3>2 DEF Under
  <2>3. QED
    BY <2>1, <2>2
<1>5. Entry(s[1], c, p) /\ Link(s[1], Below(t), c)
  BY <1>2, <1>3 DEF Books
<1>6. ASSUME NEW k \in 1..Len(t) PROVE Entry(t[k], c, p) /\ Link(t[k], Under(t, k), c)
  BY <1>1, <1>2, <1>4 DEF Books
<1>7. ASSUME NEW j \in 1..Len(t), NEW k \in 1..Len(t), j < k, NEW i, i \in Owes(t[j]), i \in Tears(t[k])
      PROVE  FALSE
  <2>1. j + 1 < k + 1
    BY <1>7
  <2>2. QED
    BY <1>1, <1>2, <1>7, <2>1 DEF Books
<1>8. ASSUME NEW i, i \in Owes(s[1]), i \in Torn(t) PROVE FALSE
  <2>1. PICK k \in 1..Len(t) : i \in Tears(t[k])
    BY <1>8 DEF Torn
  <2>2. QED
    BY <1>1, <1>2, <1>8, <2>1 DEF Books
<1>9. ASSUME NEW k \in 1..Len(t) PROVE t[k].pc # "destroy"
  <2>1. k \in 1..Len(s) /\ Under(s, k) = t[k]
    BY <1>1 DEF Under
  <2>2. QED
    BY <2>1 DEF Books, Link
<1>10. Parted(s) = Parts(s[1]) \cup Parted(t)
  <2>1. \A k \in 1..Len(s) : k = 1 \/ (k - 1 \in 1..Len(t) /\ k = (k - 1) + 1)
    BY <1>1
  <2>2. \A k \in 1..Len(s) : s[k] = s[1] \/ \E j \in 1..Len(t) : s[k] = t[j]
    BY <1>1, <2>1
  <2>3. QED
    BY <1>1, <1>2, <2>2 DEF Parted
<1>11. QED
  BY <1>5, <1>6, <1>7, <1>8, <1>9, <1>10 DEF Books, t

(* Other counts, other coins in hand.                                      *)
Undisturbed(t, c, p, d, q) ==
    \A k \in 1..Len(t) :
        /\ t[k].pc # "destroy"
        /\ t[k].pc \in {"split", "tear", "inner"} /\ t[k].item \in Coins => d[t[k].item] = c[t[k].item]
        /\ t[k].pc = "split" => q[t[k].from] = p[t[k].from]

LEMMA MoveBooks ==
    ASSUME NEW t \in Seq(Frames), NEW c, NEW p, Books(t, c, p), NEW d, NEW q, Undisturbed(t, c, p, d, q)
    PROVE  Books(t, d, q)
<1>1. ASSUME NEW k \in 1..Len(t) PROVE Entry(t[k], d, q) /\ Link(t[k], Under(t, k), d)
  <2>1. Entry(t[k], c, p) /\ Link(t[k], Under(t, k), c)
    BY DEF Books
  <2>2. PICK f : f = t[k]
    OBVIOUS
  <2>3. PICK b : b = Under(t, k)
    OBVIOUS
  <2>4. /\ Entry(f, c, p) /\ Link(f, b, c) /\ f.pc # "destroy"
        /\ f.pc \in {"split", "tear", "inner"} /\ f.item \in Coins => d[f.item] = c[f.item]
        /\ f.pc = "split" => q[f.from] = p[f.from]
    BY <2>1, <2>2, <2>3 DEF Undisturbed
  <2>5. Entry(f, d, q)
    BY <2>4 DEF Entry
  <2>6. Link(f, b, d)
    BY <2>4 DEF Link, Ending
  <2>7. QED
    BY <2>2, <2>3, <2>5, <2>6
<1>2. QED
  BY <1>1 DEF Books

-----------------------------------------------------------------------------
(* A call under way that counts on its coins has a callback above it.      *)
LEMMA UnderScript ==
    ASSUME GoodStack(stack), NEW j \in 1..Len(stack), IsScript(stack[j]), NEW k \in (j + 1)..Len(stack)
    PROVE  Held(stack[k]) \subseteq HeldBelow
<1>1. stack \in Seq(Frames) /\ Len(stack) \in Nat
  BY LenProperties DEF GoodStack
<1>2. Callback \in 1..Len(stack) /\ Callback <= j
  BY <1>1, CallbackLemma
<1>3. Callback # 0 /\ k \in (Callback + 1)..Len(stack)
  BY <1>1, <1>2
<1>4. HeldBelow = UNION {Held(stack[n]) : n \in (Callback + 1)..Len(stack)}
  BY <1>3 DEF HeldBelow
<1>5. QED
  BY <1>3, <1>4

LEMMA CountLemma ==
    ASSUME GoodStack(stack), Chain(stack), ~Touches, NEW k \in 2..Len(stack),
           stack[k].pc \in {"split", "tear", "inner"}, stack[k].item \in Coins
    PROVE  count'[stack[k].item] = count[stack[k].item]
<1>1. Len(stack) \in Nat
  BY LenProperties DEF GoodStack
<1>2. k - 1 \in 1..(Len(stack) - 1) /\ (k - 1) + 1 = k /\ k - 1 \in 1..Len(stack)
  BY <1>1
<1>3. Behind(stack[k - 1], stack[k])
  BY <1>2 DEF Chain
<1>4. ~IsScript(stack[k]) /\ stack[k].pc # "merge" /\ stack[k].item \notin Bags
  BY KindsAssumption DEF IsScript
<1>5. IsScript(stack[k - 1])
  BY <1>3, <1>4 DEF Behind
<1>6. Held(stack[k]) \subseteq HeldBelow
  BY <1>2, <1>5, UnderScript
<1>7. <<stack[k].item, "count">> \in Held(stack[k])
  BY DEF Held
<1>8. PICK held \in HeldBelow : held = <<stack[k].item, "count">>
  BY <1>6, <1>7
<1>9. ~(held[2] = "count" /\ count'[held[1]] # count[held[1]])
  BY DEF Touches
<1>10. held[1] = stack[k].item /\ held[2] = "count"
  BY <1>8
<1>11. QED
  BY <1>9, <1>10

-----------------------------------------------------------------------------
(* What all items are worth, and with what the calls have in hand it is    *)
(* what scripts have asked for.                                            *)
Worth(l, c, p) ==
    [i \in Coins |-> (IF l[i] \in {"live", "destroying"} THEN c[i] ELSE 0) - p[i]]
Owing(b) == IF b.pc = "merge" THEN b.n ELSE 0

Ledger(s, l, c, p, a) ==
    /\ Books(s, c, p)
    /\ Below(s).pc = "destroy" /\ Below(s).n = 0 => l[Below(s).item] = "live"
    /\ \A i \in Bags : c[i] = 1
    /\ \A i \in Coins : p[i] # 0 => i \in Parted(s)
    /\ Total(Worth(l, c, p), Coins) + Owing(Below(s)) = a

LedgerNow(p) == Ledger(stack, life, count, p, asked)
LedgerThen(q) == Ledger(stack', life', count', q, asked')
Balanced == \E p \in [Coins -> Int] : LedgerNow(p)
BalancedAfter == \E q \in [Coins -> Int] : LedgerThen(q)

LEMMA WorthLemma ==
    ASSUME NEW l, NEW c, \A i \in Coins : c[i] \in Int, NEW p \in [Coins -> Int]
    PROVE  Numbers(Worth(l, c, p), Coins) /\ Total(Worth(l, c, p), Coins) \in Int
<1>1. Numbers(Worth(l, c, p), Coins)
  BY DEF Numbers, Worth
<1>2. QED
  BY <1>1, CoinsAssumption, TotalInt

LEMMA WorthSame ==
    ASSUME NEW l, NEW c, NEW p, NEW m, NEW d, NEW q,
           \A i \in Coins : Worth(m, d, q)[i] = Worth(l, c, p)[i]
    PROVE  Total(Worth(m, d, q), Coins) = Total(Worth(l, c, p), Coins)
<1>1. Worth(m, d, q) = Worth(l, c, p)
  BY DEF Worth
<1>2. QED
  BY <1>1

(* Only one item is worth more or less than before.                        *)
Whole(c) == \A i \in Coins : c[i] \in Int
SameBut(x, v, w) == \A i \in Coins : i # x => w[i] = v[i]

LEMMA WorthOne ==
    ASSUME NEW l, NEW c, Whole(c), NEW p \in [Coins -> Int],
           NEW m, NEW d, Whole(d), NEW q \in [Coins -> Int], NEW x \in Coins,
           SameBut(x, Worth(l, c, p), Worth(m, d, q))
    PROVE  Total(Worth(m, d, q), Coins)
             = Total(Worth(l, c, p), Coins) - Worth(l, c, p)[x] + Worth(m, d, q)[x]
<1>1. Numbers(Worth(l, c, p), Coins) /\ Numbers(Worth(m, d, q), Coins)
  BY WorthLemma DEF Whole
<1>2. \A i \in Coins : i # x => Worth(m, d, q)[i] = Worth(l, c, p)[i]
  BY DEF SameBut
<1>3. QED
  BY <1>1, <1>2, CoinsAssumption, TotalChange

(* The calls below the innermost one.                                      *)
LEMMA RestBooks ==
    ASSUME TypeInv, Sound, ~Touches, Top.pc # "jobs", NEW p, LedgerNow(p), NEW t, t = Tail(stack)
    PROVE  /\ t \in Seq(Frames) /\ Books(t, count', p) /\ Entry(Top, count, p) /\ Link(Top, Below(t), count)
           /\ \A i : ~(i \in Owes(Top) /\ i \in Torn(t))
           /\ \A k \in 1..Len(t) : t[k].pc # "destroy"
           /\ Parted(stack) = Parts(Top) \cup Parted(t)
           /\ Below(stack) = Top
<1>1. GoodStack(stack) /\ stack # <<>> /\ Top = stack[1] /\ Top \in Frames /\ FrameOK(Top)
  BY TopLemma DEF TypeInv
<1>2. stack \in Seq(Frames) /\ Chain(stack) /\ Books(stack, count, p)
  BY <1>1 DEF GoodStack, Sound, Kept, LedgerNow, Ledger
<1>3. /\ t \in Seq(Frames)
      /\ \A k \in 1..Len(t) : FrameOK(t[k]) /\ t[k] = stack[k + 1] /\ k + 1 \in 2..Len(stack)
  BY PoppedLemma
<1>4. /\ Books(t, count, p) /\ Entry(Top, count, p) /\ Link(Top, Below(t), count)
      /\ \A i : ~(i \in Owes(Top) /\ i \in Torn(t))
      /\ \A k \in 1..Len(t) : t[k].pc # "destroy"
      /\ Parted(stack) = Parts(Top) \cup Parted(t)
  BY <1>1, <1>2, PopBooks
<1>5. \A k \in 1..Len(t) : t[k].pc \in {"split", "tear", "inner"} /\ t[k].item \in Coins
                             => count'[t[k].item] = count[t[k].item]
  BY <1>1, <1>2, <1>3, CountLemma
<1>6. Books(t, count', p)
  <2>1. Undisturbed(t, count, p, count', p)
    BY <1>4, <1>5 DEF Undisturbed
  <2>2. QED
    BY <1>3, <1>4, <2>1, MoveBooks
<1>7. Below(stack) = Top
  BY <1>1 DEF Below
<1>8. QED
  BY <1>3, <1>4, <1>6, <1>7

(* The calls when a script makes another one.                              *)
LEMMA CallBooks ==
    ASSUME TypeInv, Sound, ~Touches, IsScript(Top), NEW p, LedgerNow(p)
    PROVE  /\ stack \in Seq(Frames) /\ Books(stack, count', p) /\ IsScript(Below(stack))
<1>1. GoodStack(stack) /\ stack \in Seq(Frames) /\ Chain(stack) /\ Books(stack, count, p) /\ Len(stack) \in Nat
  BY LenProperties DEF TypeInv, GoodStack, Sound, Kept, LedgerNow, Ledger
<1>2. IsScript(Below(stack)) /\ (stack # <<>> => IsScript(stack[1]))
  <2>1. CASE stack = <<>>
    BY <2>1, ScrLemma DEF Below
  <2>2. CASE stack # <<>>
    <3>1. Top = stack[1]
      BY <1>1, <2>2, TailGood DEF Top
    <3>2. QED
      BY <2>2, <3>1 DEF Below
  <2>3. QED
    BY <2>1, <2>2
<1>3. ASSUME NEW k \in 1..Len(stack)
      PROVE  /\ stack[k].pc # "destroy"
             /\ stack[k].pc \in {"split", "tear", "inner"} /\ stack[k].item \in Coins
                  => count'[stack[k].item] = count[stack[k].item]
  <2>1. stack # <<>>
    BY <1>1
  <2>2. CASE k = 1
    BY <1>2, <2>1, <2>2 DEF IsScript
  <2>3. CASE k # 1
    <3>1. k \in 2..Len(stack) /\ k - 1 \in 1..Len(stack) /\ (k - 1) + 1 = k /\ k - 1 # Len(stack)
      BY <1>1, <2>3
    <3>2. Under(stack, k - 1) = stack[k]
      BY <3>1 DEF Under
    <3>3. stack[k].pc # "destroy"
      BY <1>1, <3>1, <3>2 DEF Books, Link
    <3>4. QED
      BY <1>1, <3>1, <3>3, CountLemma
  <2>4. QED
    BY <2>2, <2>3
<1>4. Undisturbed(stack, count, p, count', p)
  BY <1>3 DEF Undisturbed
<1>5. Books(stack, count', p)
  BY <1>1, <1>4, MoveBooks
<1>6. QED
  BY <1>1, <1>2, <1>5

(* A call on top, perhaps with a callback above it.                        *)
LEMMA OverBooks ==
    ASSUME NEW t \in Seq(Frames), NEW a \in Frames, NEW e \in Frames, IsScript(e),
           NEW s, s = <<a>> \o t \/ s = <<e, a>> \o t,
           a.pc \notin {"merge", "destroy"}, NEW c, NEW p, Books(t, c, p),
           Entry(a, c, p), Link(a, Below(t), c), \A i : ~(i \in Owes(a) /\ i \in Torn(t))
    PROVE  /\ Books(s, c, p) /\ Below(s).pc \notin {"merge", "destroy"}
           /\ Parted(s) = Parts(a) \cup Parted(t)
<1>1. PICK r : r = Push(a, t)
  OBVIOUS
<1>2. /\ r \in Seq(Frames) /\ Books(r, c, p) /\ Below(r) = a /\ Parted(r) = Parts(a) \cup Parted(t)
  BY <1>1, PushBooks
<1>3. CASE s = <<a>> \o t
  BY <1>1, <1>2, <1>3 DEF Push
<1>4. CASE s = <<e, a>> \o t
  <2>1. s = Push(e, r)
    BY <1>1, <1>4, PushTwo
  <2>2. Entry(e, c, p) /\ Owes(e) = {} /\ Parts(e) = {} /\ e.pc \notin {"merge", "destroy"}
    BY DEF IsScript, Entry, Owes, Parts, Ending
  <2>3. Link(e, Below(r), c)
    BY <1>2 DEF IsScript, Link, Ending
  <2>4. /\ Books(Push(e, r), c, p) /\ Below(Push(e, r)) = e
        /\ Parted(Push(e, r)) = Parts(e) \cup Parted(r)
    BY <1>2, <2>2, <2>3, PushBooks
  <2>5. QED
    BY <1>2, <2>1, <2>2, <2>4
<1>5. QED
  BY <1>3, <1>4

(* DestroyItem on top of a call that owes nothing.                         *)
LEMMA TwoBooks ==
    ASSUME NEW t \in Seq(Frames), t = Tail(stack), NEW d \in Frames, NEW a \in Frames,
           GoTo(<<d, a>>), NEW c, NEW p, Books(t, c, p),
           Entry(a, c, p), Link(a, Below(t), c), Owes(a) = {}, Parts(a) = {},
           Entry(d, c, p), Link(d, a, c), Owes(d) = {}, Parts(d) = {}
    PROVE  Books(stack', c, p) /\ Below(stack') = d /\ Parted(stack') = Parted(t)
<1>1. PICK r : r = Push(a, t)
  OBVIOUS
<1>2. \A i : ~(i \in Owes(a) /\ i \in Torn(t))
  OBVIOUS
<1>3. r \in Seq(Frames) /\ Books(r, c, p) /\ Below(r) = a /\ Parted(r) = Parts(a) \cup Parted(t)
  BY <1>1, <1>2, PushBooks
<1>4. \A i : ~(i \in Owes(d) /\ i \in Torn(r))
  OBVIOUS
<1>5. PICK s : s = Push(d, r)
  OBVIOUS
<1>6. Books(s, c, p) /\ Below(s) = d /\ Parted(s) = Parts(d) \cup Parted(r)
  <2>1. Link(d, Below(r), c)
    BY <1>3
  <2>2. QED
    BY <1>3, <1>4, <1>5, <2>1, PushBooks
<1>7. stack' = s
  BY <1>1, <1>5, PushTwo DEF GoTo
<1>8. QED
  BY <1>3, <1>6, <1>7

LEMMA GoBooks ==
    ASSUME NEW t \in Seq(Frames), t = Tail(stack), NEW a \in Frames,
           GoTo(<<a>>) \/ GoTo(<<Scr, a>>),
           a.pc \notin {"merge", "destroy"}, NEW c, NEW p, Books(t, c, p),
           Entry(a, c, p), Link(a, Below(t), c), \A i : ~(i \in Owes(a) /\ i \in Torn(t))
    PROVE  /\ Books(stack', c, p) /\ Below(stack').pc \notin {"merge", "destroy"}
           /\ Parted(stack') = Parts(a) \cup Parted(t)
<1>1. PICK s : s = stack'
  OBVIOUS
<1>2. s = <<a>> \o t \/ s = <<Scr, a>> \o t
  BY <1>1 DEF GoTo
<1>3. /\ Books(s, c, p) /\ Below(s).pc \notin {"merge", "destroy"}
      /\ Parted(s) = Parts(a) \cup Parted(t)
  BY <1>2, ScrLemma, OverBooks
<1>4. QED
  BY <1>1, <1>3

LEMMA CalledBooks ==
    ASSUME stack \in Seq(Frames), NEW a \in Frames, NEW e \in Frames, IsScript(e),
           Call(<<a>>) \/ Call(<<e, a>>),
           a.pc \notin {"merge", "destroy"}, NEW c, NEW p, Books(stack, c, p),
           Entry(a, c, p), Link(a, Below(stack), c), \A i : ~(i \in Owes(a) /\ i \in Torn(stack))
    PROVE  /\ Books(stack', c, p) /\ Below(stack').pc \notin {"merge", "destroy"}
           /\ Parted(stack') = Parts(a) \cup Parted(stack)
<1>1. PICK s : s = stack'
  OBVIOUS
<1>2. PICK t \in Seq(Frames) : t = stack
  OBVIOUS
<1>3. s = <<a>> \o t \/ s = <<e, a>> \o t
  BY <1>1, <1>2 DEF Call
<1>4. /\ Books(s, c, p) /\ Below(s).pc \notin {"merge", "destroy"}
      /\ Parted(s) = Parts(a) \cup Parted(t)
  BY <1>2, <1>3, OverBooks
<1>5. QED
  BY <1>1, <1>2, <1>4

(* Steps that touch no coins.                                              *)
LEMMA PlainStep ==
    ASSUME NEW p \in [Coins -> Int], LedgerNow(p),
           UNCHANGED <<count, asked>>,
           \A i \in Coins : life'[i] \in {"live", "destroying"} <=> life[i] \in {"live", "destroying"},
           Books(stack', count', p), Parted(stack') = Parted(stack),
           Below(stack).pc # "merge", Below(stack').pc # "merge",
           Below(stack').pc = "destroy" => Below(stack').n # 0 \/ life'[Below(stack').item] = "live"
    PROVE  BalancedAfter
<1>1. \A i \in Coins : Worth(life', count', p)[i] = Worth(life, count, p)[i]
  BY DEF Worth
<1>2. Total(Worth(life', count', p), Coins) = Total(Worth(life, count, p), Coins)
  BY <1>1, WorthSame
<1>3. LedgerThen(p)
  BY <1>2 DEF LedgerThen, LedgerNow, Ledger, Owing
<1>4. QED
  BY <1>3 DEF BalancedAfter

LEMMA PlainLink ==
    ASSUME NEW a, a.pc \notin Ending, NEW b, NEW c, Link(a, b, c), NEW e, e.pc \notin Ending, NEW d
    PROVE  Link(e, b, d) /\ b.pc # "merge" /\ b.pc # "destroy"
  BY DEF Link

-----------------------------------------------------------------------------
(* The steps of the functions keep the balance.                            *)

LEMMA RemoveGoes ==
    ASSUME DataInv, NEW i \in Things, NEW h, NEW a, RemoveItemHolder(i, h, <<a>>), thrown' = FALSE
    PROVE  /\ GoTo(<<a>>) \/ GoTo(<<Scr, a>>)
           /\ own[i] # Nowhere => own' = [own EXCEPT ![i] = Nowhere]
<1>1. ~Throw
  BY DEF Throw
<1>2. QED
  BY <1>1, RemoveShape

(* Nobody is destroying the item that is being moved: its owner would have *)
(* changed under the feet of the call that does.                           *)
LEMMA MovedNotTorn ==
    ASSUME TypeInv, Sound, ~Touches, Top.pc = "checked", NEW x \in Things, own'[x] # own[x],
           NEW t, t = Tail(stack)
    PROVE  x \notin Torn(t)
<1>1. GoodStack(stack) /\ Chain(stack) /\ Len(stack) \in Nat
  BY LenProperties DEF TypeInv, GoodStack, Sound, Kept
<1>2. /\ \A k \in 1..Len(t) : t[k] = stack[k + 1] /\ k + 1 \in 2..Len(stack)
      /\ Top = stack[1]
  BY PoppedLemma
<1> SUFFICES ASSUME NEW k \in 1..Len(t), x \in Tears(t[k]) PROVE FALSE
  BY DEF Torn
<1>3. PICK n \in 2..Len(stack) : t[k] = stack[n]
  BY <1>2
<1>4. stack[n].pc \in Tearing /\ stack[n].item = x
  BY <1>3 DEF Tears
<1>5. Behind(stack[1], stack[1 + 1])
  BY <1>1 DEF Chain
<1>6. IsScript(stack[2])
  BY <1>2, <1>5 DEF Behind, IsScript, Ending
<1>7. n # 2
  BY <1>4, <1>6 DEF IsScript, Tearing
<1>8. 2 \in 1..Len(stack) /\ n \in (2 + 1)..Len(stack)
  BY <1>1, <1>7
<1>9. Held(stack[n]) \subseteq HeldBelow
  BY <1>1, <1>6, <1>8, UnderScript
<1>10. <<x, "own">> \in Held(stack[n])
  BY <1>4 DEF Held, Tearing
<1>11. PICK held \in HeldBelow : held = <<x, "own">>
  BY <1>9, <1>10
<1>12. ~(held[2] = "own" /\ own'[held[1]] # own[held[1]])
  BY DEF Touches
<1>13. held[1] = x /\ held[2] = "own"
  BY <1>11
<1>14. QED
  BY <1>12, <1>13

LEMMA MoveWholeBalance ==
    ASSUME TypeInv, Sound, MoveWhole, ~Touches, Balanced
    PROVE  BalancedAfter
<1>1. PICK p \in [Coins -> Int] : LedgerNow(p)
  BY DEF Balanced
<1>2. PICK t : t = Tail(stack)
  OBVIOUS
<1>3. PICK a \in Frames : /\ Top.pc = "checked" /\ Top.item \in Things /\ Top.from \in Holders
                          /\ UNCHANGED <<life, count>>
                          /\ a.pc = "add" /\ a.item = Top.item
                          /\ RemoveItemHolder(Top.item, Top.from, <<a>>)
  BY MoveWholeShape
<1>4. /\ t \in Seq(Frames) /\ Books(t, count', p) /\ Link(Top, Below(t), count)
      /\ Parted(stack) = Parts(Top) \cup Parted(t) /\ Below(stack) = Top
  BY <1>1, <1>2, <1>3, RestBooks
<1>5. thrown' = FALSE
  BY MoveWholeSound DEF SoundAfter
<1>6. own[Top.item] = Top.from
  BY <1>2, <1>3, PoppedLemma DEF Promise
<1>7. own[Top.item] # Nowhere
  BY <1>3, <1>6, KindsAssumption
<1>8. /\ GoTo(<<a>>) \/ GoTo(<<Scr, a>>)
      /\ own' = [own EXCEPT ![Top.item] = Nowhere]
  BY <1>3, <1>5, <1>7, RemoveGoes DEF TypeInv
<1>9. own'[Top.item] # own[Top.item]
  BY <1>3, <1>7, <1>8 DEF TypeInv, DataInv
<1>10. Top.item \notin Torn(t)
  BY <1>2, <1>3, <1>9, MovedNotTorn
<1>11. /\ Entry(a, count', p) /\ Link(a, Below(t), count') /\ Parts(a) = {} /\ Parts(Top) = {}
       /\ \A i : ~(i \in Owes(a) /\ i \in Torn(t))
  BY <1>3, <1>4, <1>10, PlainLink DEF Entry, Parts, Owes, Ending
<1>12. /\ Books(stack', count', p) /\ Below(stack').pc \notin {"merge", "destroy"}
       /\ Parted(stack') = Parts(a) \cup Parted(t)
  BY <1>2, <1>3, <1>4, <1>8, <1>11, GoBooks
<1>13. UNCHANGED asked
  BY DEF MoveWhole
<1>14. QED
  BY <1>1, <1>3, <1>4, <1>11, <1>12, <1>13, PlainStep

(* A call ends and leaves the coins alone.                                 *)
LEMMA EndsPlain ==
    ASSUME TypeInv, Sound, ~Touches, Top.pc # "jobs", Top.pc \notin {"merge", "split"},
           GoTo(<<>>), UNCHANGED <<life, count, asked>>,
           NEW p \in [Coins -> Int], LedgerNow(p), Top.pc \in Ending => Top.n # 0
    PROVE  BalancedAfter
<1>1. PICK t : t = Tail(stack)
  OBVIOUS
<1>2. /\ t \in Seq(Frames) /\ Books(t, count', p) /\ Link(Top, Below(t), count)
      /\ Parted(stack) = Parts(Top) \cup Parted(t) /\ Below(stack) = Top
  BY <1>1, RestBooks
<1>3. stack' = t
  BY <1>1, <1>2, NoStep
<1>4. Below(t).pc # "merge" /\ Below(t).pc # "destroy"
  BY <1>2 DEF Link
<1>5. Parts(Top) = {}
  BY DEF Parts
<1>6. QED
  BY <1>2, <1>3, <1>4, <1>5, PlainStep

LEMMA CreatedBalance ==
    ASSUME TypeInv, Sound, Created, ~Touches, Balanced
    PROVE  BalancedAfter
<1>1. PICK p \in [Coins -> Int] : LedgerNow(p)
  BY DEF Balanced
<1>2. PICK t : t = Tail(stack)
  OBVIOUS
<1>3. Top.pc = "created" /\ UNCHANGED <<life, count, asked>> /\ Top.pc \notin Ending
  BY CreatedShape DEF Created, items, Ending
<1>4. CASE GoTo(<<>>)
  BY <1>1, <1>3, <1>4, EndsPlain
<1>5. ASSUME NEW a \in Frames, a.pc = "add", a.item = Top.item, GoTo(<<a>>)
      PROVE  BalancedAfter
  <2>1. /\ t \in Seq(Frames) /\ Books(t, count', p) /\ Link(Top, Below(t), count)
        /\ \A i : ~(i \in Owes(Top) /\ i \in Torn(t))
        /\ Parted(stack) = Parts(Top) \cup Parted(t) /\ Below(stack) = Top
    BY <1>1, <1>2, <1>3, RestBooks
  <2>2. /\ Entry(a, count', p) /\ Link(a, Below(t), count') /\ Parts(a) = {} /\ Parts(Top) = {}
        /\ Owes(a) = Owes(Top)
    BY <1>3, <1>5, <2>1, PlainLink DEF Entry, Parts, Owes, Ending
  <2>3. /\ Books(stack', count', p) /\ Below(stack').pc \notin {"merge", "destroy"}
        /\ Parted(stack') = Parts(a) \cup Parted(t)
    BY <1>2, <1>5, <2>1, <2>2, GoBooks
  <2>4. QED
    BY <1>1, <1>3, <2>1, <2>2, <2>3, PlainStep
<1>6. QED
  BY <1>4, <1>5, CreatedShape

(* Coins that are put where there are others are not being destroyed.      *)
LEMMA AddBalance ==
    ASSUME TypeInv, Sound, Add, ~Touches, Balanced
    PROVE  BalancedAfter
<1>1. PICK p \in [Coins -> Int] : LedgerNow(p)
  BY DEF Balanced
<1>2. PICK t : t = Tail(stack)
  OBVIOUS
<1>3. /\ Top.pc = "add" /\ Top.item \in Things /\ UNCHANGED <<life, count, asked>> /\ Top.pc \notin Ending
      /\ ~Throw
  BY PutShape, AddSound DEF Add, Ending, SoundAfter, Throw
<1>4. /\ t \in Seq(Frames) /\ Books(t, count', p) /\ Link(Top, Below(t), count)
      /\ \A i : ~(i \in Owes(Top) /\ i \in Torn(t))
      /\ Parted(stack) = Parts(Top) \cup Parted(t) /\ Below(stack) = Top
  BY <1>1, <1>2, <1>3, RestBooks
<1>5. CASE GoTo(<<>>)
  BY <1>1, <1>3, <1>5, EndsPlain
<1>6. CASE GoTo(<<Scr>>)
  <2>1. /\ Entry(Scr, count', p) /\ Link(Scr, Below(t), count') /\ Parts(Scr) = {} /\ Parts(Top) = {}
        /\ Owes(Scr) = {}
    BY <1>3, <1>4, PlainLink, ScrLemma DEF Entry, Parts, Ending
  <2>2. /\ Books(stack', count', p) /\ Below(stack').pc \notin {"merge", "destroy"}
        /\ Parted(stack') = Parts(Scr) \cup Parted(t)
    BY <1>2, <1>4, <1>6, <2>1, ScrLemma, GoBooks
  <2>3. QED
    BY <1>1, <1>3, <1>4, <2>1, <2>2, PlainStep
<1>7. ASSUME NEW d \in Frames, NEW m \in Frames, d.pc = "destroy", d.item = Top.item, d.n = 0,
             m.pc = "merge", m.item \in Coins, m.n = count[Top.item], Top.item \in Coins,
             GoTo(<<d, m>>)
      PROVE  BalancedAfter
  <2>1. life[Top.item] = "live"
    <3>1. /\ Promise(Top, life, own) /\ Torn(stack) = Tears(Top) \cup Torn(t)
      BY <1>2, <1>3, PoppedLemma
    <3>2. Top.item \notin Torn(stack)
      BY <1>3, <1>4, <3>1 DEF Owes, Tears, Tearing
    <3>3. life[Top.item] # "destroying"
      BY <1>3, <3>2 DEF Sound, Covers
    <3>4. QED
      BY <1>3, <3>1, <3>3 DEF Promise, Alive
  <2>2. /\ Entry(m, count', p) /\ Link(m, Below(t), count') /\ Parts(m) = {} /\ Owes(m) = {}
    BY <1>3, <1>4, <1>7, PlainLink DEF Entry, Parts, Owes, Ending
  <2>3. /\ Entry(d, count', p) /\ Parts(d) = {} /\ Owes(d) = {} /\ Link(d, m, count')
    BY <1>3, <1>7 DEF Entry, Parts, Owes, Link, Ending
  <2>4. Books(stack', count', p) /\ Below(stack') = d /\ Parted(stack') = Parted(t)
    BY <1>2, <1>4, <1>7, <2>2, <2>3, TwoBooks
  <2>5. Parts(Top) = {}
    BY <1>3 DEF Parts
  <2>6. QED
    BY <1>1, <1>3, <1>4, <1>7, <2>1, <2>4, <2>5, PlainStep
<1>8. QED
  BY <1>3, <1>5, <1>6, <1>7, PutShape

(* The steps of DestroyItem that leave the coins where they are.           *)
LEMMA EndingOn ==
    ASSUME TypeInv, Sound, ~Touches, Top.pc \in Ending, UNCHANGED <<count, asked>>,
           \A i \in Coins : life'[i] \in {"live", "destroying"} <=> life[i] \in {"live", "destroying"},
           NEW f \in Frames, f.pc \in Tearing, f.item = Top.item, f.n = Top.n,
           GoTo(<<f>>) \/ GoTo(<<Scr, f>>), Balanced
    PROVE  BalancedAfter
<1>1. PICK p \in [Coins -> Int] : LedgerNow(p)
  BY DEF Balanced
<1>2. PICK t : t = Tail(stack)
  OBVIOUS
<1>3. Top.pc # "jobs" /\ Top.pc # "merge"
  BY DEF Ending
<1>4. /\ t \in Seq(Frames) /\ Books(t, count', p) /\ Link(Top, Below(t), count) /\ Entry(Top, count, p)
      /\ Parted(stack) = Parts(Top) \cup Parted(t) /\ Below(stack) = Top
  BY <1>1, <1>2, <1>3, RestBooks
<1>5. Entry(f, count', p) /\ Link(f, Below(t), count')
  BY <1>4 DEF Entry, Link, Ending, Tearing
<1>6. Parts(f) = {} /\ Parts(Top) = {} /\ Owes(f) = {} /\ f.pc \notin {"merge", "destroy"}
  BY DEF Parts, Owes, Ending, Tearing
<1>7. /\ Books(stack', count', p) /\ Below(stack').pc \notin {"merge", "destroy"}
      /\ Parted(stack') = Parts(f) \cup Parted(t)
  BY <1>2, <1>4, <1>5, <1>6, GoBooks
<1>8. QED
  BY <1>1, <1>3, <1>4, <1>6, <1>7, PlainStep

LEMMA BeginDestroyBalance ==
    ASSUME TypeInv, Sound, BeginDestroy, ~Touches, Balanced
    PROVE  BalancedAfter
<1>1. PICK p \in [Coins -> Int] : LedgerNow(p)
  BY DEF Balanced
<1>2. /\ Top.pc = "destroy" /\ Top.item \in Things /\ UNCHANGED <<count, asked>>
  BY BeginDestroyShape DEF BeginDestroy
<1>3. CASE life[Top.item] # "live" /\ GoTo(<<>>) /\ UNCHANGED life
  <2>1. Below(stack) = Top
    BY <1>1, <1>2, RestBooks
  <2>2. Top.n # 0
    BY <1>1, <1>2, <1>3, <2>1 DEF LedgerNow, Ledger
  <2>3. QED
    BY <1>1, <1>2, <1>3, <2>2, EndsPlain
<1>4. ASSUME NEW f \in Frames, f.pc = "tear", f.item = Top.item, f.n = Top.n, GoTo(<<Scr, f>>),
             life[Top.item] = "live", life' = [life EXCEPT ![Top.item] = "destroying"]
      PROVE  BalancedAfter
  <2>1. \A i \in Coins : life'[i] \in {"live", "destroying"} <=> life[i] \in {"live", "destroying"}
    BY <1>2, <1>4 DEF TypeInv, DataInv, Things
  <2>2. Top.pc \in Ending /\ f.pc \in Tearing
    BY <1>2, <1>4 DEF Ending, Tearing
  <2>3. QED
    BY <1>2, <1>4, <2>1, <2>2, EndingOn
<1>5. QED
  BY <1>3, <1>4, BeginDestroyShape

LEMMA TearOffBalance ==
    ASSUME TypeInv, Sound, TearOff, ~Touches, Balanced
    PROVE  BalancedAfter
<1>1. PICK f \in Frames : /\ Top.pc = "tear" /\ Top.item \in Things /\ UNCHANGED <<life, count>>
                          /\ f.pc = "inner" /\ f.item = Top.item /\ f.n = Top.n
                          /\ RemoveItemHolder(Top.item, GetItemHolder(Top.item), <<f>>)
  BY TearOffShape
<1>2. thrown' = FALSE
  BY TearOffSound DEF SoundAfter
<1>3. GoTo(<<f>>) \/ GoTo(<<Scr, f>>)
  BY <1>1, <1>2, RemoveGoes DEF TypeInv
<1>4. Top.pc \in Ending /\ f.pc \in Tearing /\ UNCHANGED asked
  BY <1>1 DEF Ending, Tearing, TearOff
<1>5. QED
  BY <1>1, <1>3, <1>4, EndingOn

LEMMA NextRoundBalance ==
    ASSUME TypeInv, Sound, NextRound, ~Touches, Balanced
    PROVE  BalancedAfter
<1>1. PICK f \in Frames : /\ Top.pc = "inner" /\ UNCHANGED items
                          /\ f.pc = "tear" /\ f.item = Top.item /\ f.n = Top.n /\ GoTo(<<f>>)
  BY NextRoundShape
<1>2. Top.pc \in Ending /\ f.pc \in Tearing /\ UNCHANGED <<life, count, asked>>
  BY <1>1 DEF Ending, Tearing, NextRound, items
<1>3. QED
  BY <1>1, <1>2, EndingOn

(* What is inside a bag is destroyed for good, as the bag is.              *)
LEMMA DestroyInnerBalance ==
    ASSUME TypeInv, Sound, DestroyInner, ~Touches, Balanced
    PROVE  BalancedAfter
<1>1. PICK p \in [Coins -> Int] : LedgerNow(p)
  BY DEF Balanced
<1>2. PICK t : t = Tail(stack)
  OBVIOUS
<1>3. PICK d \in Frames, f \in Frames :
         /\ Top.pc \in Tearing /\ Top.item \in Bags /\ UNCHANGED items
         /\ d.pc = "destroy" /\ d.n = Top.n
         /\ f.pc = "inner" /\ f.item = Top.item /\ f.n = Top.n
         /\ GoTo(<<d, f>>)
  BY DestroyInnerShape
<1>4. Top.pc \in Ending /\ Top.pc # "jobs" /\ Top.pc # "merge" /\ UNCHANGED <<life, count, asked>>
  BY <1>3 DEF Ending, Tearing, DestroyInner, items
<1>5. /\ t \in Seq(Frames) /\ Books(t, count', p) /\ Link(Top, Below(t), count) /\ Entry(Top, count, p)
      /\ Parted(stack) = Parts(Top) \cup Parted(t) /\ Below(stack) = Top
  BY <1>1, <1>2, <1>4, RestBooks
<1>6. Top.n = 1
  BY <1>3, <1>4, <1>5, KindsAssumption DEF Entry, Link
<1>7. Entry(f, count', p) /\ Link(f, Below(t), count') /\ Parts(f) = {} /\ Owes(f) = {}
  BY <1>3, <1>4, <1>5 DEF Entry, Link, Ending, Parts, Owes
<1>8. /\ Entry(d, count', p) /\ Link(d, f, count') /\ Parts(d) = {} /\ Owes(d) = {}
  BY <1>3, <1>6 DEF Entry, Link, Ending, Parts, Owes
<1>9. Books(stack', count', p) /\ Below(stack') = d /\ Parted(stack') = Parted(t)
  BY <1>2, <1>3, <1>5, <1>7, <1>8, TwoBooks
<1>10. Parts(Top) = {}
  BY <1>3 DEF Parts, Tearing
<1>11. QED
  BY <1>1, <1>3, <1>4, <1>5, <1>6, <1>9, <1>10, PlainStep

LEMMA ReturnBalance ==
    ASSUME TypeInv, Sound, ScriptReturns, ~Touches, Balanced
    PROVE  BalancedAfter
<1>1. PICK p \in [Coins -> Int] : LedgerNow(p)
  BY DEF Balanced
<1>2. Top.pc # "jobs" /\ IsScript(Top) /\ GoTo(<<>>) /\ UNCHANGED <<life, count, asked>>
  BY ScriptReturnsShape DEF items, ScriptReturns
<1>3. Top.pc \notin {"merge", "split"} /\ Top.pc \notin Ending
  BY <1>2 DEF IsScript, Ending
<1>4. QED
  BY <1>1, <1>2, <1>3, EndsPlain

LEMMA RefusedBalance ==
    ASSUME TypeInv, Sound, MoveRefused, ~Touches, Balanced
    PROVE  BalancedAfter
<1>1. PICK p \in [Coins -> Int] : LedgerNow(p)
  BY DEF Balanced
<1>2. PICK t : t = Tail(stack)
  OBVIOUS
<1>3. /\ Top.pc = "OnItemCheckMove" /\ UNCHANGED <<life, count, asked>>
      /\ t # <<>> /\ stack' = Tail(t) /\ t[1].pc = "checked"
  BY <1>2, MoveRefusedShape DEF items, MoveRefused
<1>4. /\ t \in Seq(Frames) /\ Books(t, count', p)
      /\ Parted(stack) = Parts(Top) \cup Parted(t) /\ Below(stack) = Top
  BY <1>1, <1>2, <1>3, RestBooks
<1>5. /\ Books(Tail(t), count', p) /\ Link(t[1], Below(Tail(t)), count')
      /\ Parted(t) = Parts(t[1]) \cup Parted(Tail(t))
  BY <1>3, <1>4, PopBooks
<1>6. Below(Tail(t)).pc # "merge" /\ Below(Tail(t)).pc # "destroy"
  BY <1>3, <1>5 DEF Link, Ending
<1>7. Parts(Top) = {} /\ Parts(t[1]) = {}
  BY <1>3 DEF Parts
<1>8. QED
  BY <1>1, <1>3, <1>4, <1>5, <1>6, <1>7, PlainStep


-----------------------------------------------------------------------------
(* The steps that move coins.                                              *)

LEMMA OwingBalance ==
    ASSUME NEW q \in [Coins -> Int], Books(stack', count', q), Below(stack').pc # "destroy",
           \A i \in Bags : count'[i] = 1,
           \A i \in Coins : q[i] # 0 => i \in Parted(stack'),
           Total(Worth(life', count', q), Coins) + Owing(Below(stack')) = asked'
    PROVE  BalancedAfter
  BY DEF LedgerThen, Ledger, BalancedAfter

LEMMA StepBalance ==
    ASSUME NEW q \in [Coins -> Int], Books(stack', count', q),
           Below(stack').pc \notin {"merge", "destroy"},
           \A i \in Bags : count'[i] = 1,
           \A i \in Coins : q[i] # 0 => i \in Parted(stack'),
           Total(Worth(life', count', q), Coins) = asked', asked' \in Int
    PROVE  BalancedAfter
<1>1. Owing(Below(stack')) = 0
  BY DEF Owing
<1>2. PICK w \in Int : w = asked'
  OBVIOUS
<1>3. Total(Worth(life', count', q), Coins) = w
  BY <1>2, Zenon
<1>4. w + 0 = w
  OBVIOUS
<1>5. Total(Worth(life', count', q), Coins) + Owing(Below(stack')) = asked'
  BY <1>1, <1>2, <1>3, <1>4
<1>6. QED
  BY <1>5, OwingBalance

LEMMA CountsLemma ==
    ASSUME TypeInv
    PROVE  \A i \in Coins : i \in Things /\ count[i] \in Nat /\ count[i] # 0 /\ count[i] \in Int
  BY DEF TypeInv, DataInv, Things

(* A new item has no place in a call under way.                            *)
LEMMA NewApart ==
    ASSUME NEW t \in Seq(Frames), \A k \in 1..Len(t) : FrameOK(t[k]), Kept(t, life, own), TypeInv,
           NEW x \in Things, life[x] = "free"
    PROVE  x \notin Owed(t) /\ x \notin Torn(t) /\ x \notin Parted(t)
<1>1. PICK m : m = [life EXCEPT ![x] = "live"]
  OBVIOUS
<1>2. LifeType(life)
  BY DEF LifeType, TypeInv, DataInv
<1>3. x \notin Owed(t)
  BY <1>1, <1>2, NewKept
<1>4. x \notin Torn(t)
  BY DEF Torn, Tears, Kept, Promises, Promise
<1>5. x \notin Parted(t)
  BY <1>3 DEF Parted, Parts, Owed, Owes
<1>6. QED
  BY <1>3, <1>4, <1>5

LEMMA SplitItemBalance ==
    ASSUME TypeInv, Sound, SplitItem, ~Touches, Balanced
    PROVE  BalancedAfter
<1>1. PICK p \in [Coins -> Int] : LedgerNow(p)
  BY DEF Balanced
<1>2. PICK t : t = Tail(stack)
  OBVIOUS
<1>3. /\ Top.pc = "checked" /\ Top.item \in Coins /\ UNCHANGED asked
      /\ Top.pc # "jobs" /\ Top.pc \notin Ending /\ Top.pc \notin {"merge", "split"}
  BY SplitItemShape DEF SplitItem, Ending
<1>4. /\ t \in Seq(Frames) /\ Books(t, count', p) /\ Link(Top, Below(t), count)
      /\ \A k \in 1..Len(t) : t[k].pc # "destroy"
      /\ Parted(stack) = Parts(Top) \cup Parted(t) /\ Below(stack) = Top
  BY <1>1, <1>2, <1>3, RestBooks
<1>5. CASE GoTo(<<>>) /\ UNCHANGED <<life, count>>
  BY <1>1, <1>3, <1>5, EndsPlain
<1>6. ASSUME NEW x \in Coins, life[x] = "free", Top.n \in Nat \ {0}, Top.n < count[Top.item],
             life' = [life EXCEPT ![x] = "live"], count' = [count EXCEPT ![x] = Top.n],
             NEW f \in Frames, f.pc = "split", f.item = Top.item, f.from = x,
             f.n = count[Top.item] - Top.n, GoTo(<<Scr, f>>)
      PROVE  BalancedAfter
  <2>1. /\ Kept(t, life, own) /\ \A k \in 1..Len(t) : FrameOK(t[k])
        /\ Alive(Top.item, life)
    BY <1>2, <1>3, PoppedLemma DEF Promise
  <2>2. x \in Things /\ Top.item \in Things /\ \A i \in Coins : count[i] \in Int
    BY <1>3, CountsLemma
  <2>3. x \notin Owed(t) /\ x \notin Torn(t) /\ x \notin Parted(t)
    BY <1>4, <1>6, <2>1, <2>2, NewApart
  <2>4. x # Top.item
    BY <1>6, <2>1, <2>2 DEF Alive
  <2>5. /\ \A i \in Things : count'[i] = IF i = x THEN Top.n ELSE count[i]
        /\ \A i \in Things : life'[i] = IF i = x THEN "live" ELSE life[i]
    BY <1>6 DEF TypeInv, DataInv
  <2>6. PICK n \in Int : n = Top.n
    BY <1>6
  <2>7. PICK q \in [Coins -> Int] : \A i \in Coins : q[i] = IF i = x THEN n ELSE p[i]
    <3>1. [i \in Coins |-> IF i = x THEN n ELSE p[i]] \in [Coins -> Int]
      BY <1>1, <2>6
    <3>2. QED
      BY <3>1
  <2>8. p[x] = 0
    <3>1. Parts(Top) = {}
      BY <1>3 DEF Parts
    <3>2. QED
      BY <1>1, <1>4, <2>3, <3>1 DEF LedgerNow, Ledger
  <2>9. Books(t, count', q)
    <3>1. ASSUME NEW k \in 1..Len(t), t[k].pc = "split" PROVE t[k].from # x
      BY <2>3, <3>1 DEF Owed, Owes
    <3>2. ASSUME NEW k \in 1..Len(t), t[k].pc = "split" PROVE t[k].from \in Coins
      BY <1>4, <3>2 DEF Books, Entry
    <3>3. Undisturbed(t, count', p, count', q)
      BY <1>4, <2>7, <3>1, <3>2 DEF Undisturbed
    <3>4. QED
      BY <1>4, <3>3, MoveBooks
  <2>10. Entry(f, count', q) /\ Parts(f) = {x} /\ Owes(f) = {x} /\ Parts(Top) = {}
    <3>1. q[x] = count'[Top.item] - f.n
      BY <1>3, <1>6, <2>2, <2>4, <2>5, <2>6, <2>7
    <3>2. QED
      BY <1>3, <1>6, <2>4, <3>1 DEF Entry, Parts, Owes, Ending
  <2>11. Link(f, Below(t), count') /\ f.pc \notin {"merge", "destroy"}
    BY <1>3, <1>4, <1>6, PlainLink DEF Ending
  <2>12. \A i : ~(i \in Owes(f) /\ i \in Torn(t))
    BY <2>3, <2>10
  <2>13. /\ Books(stack', count', q) /\ Below(stack').pc \notin {"merge", "destroy"}
         /\ Parted(stack') = Parts(f) \cup Parted(t)
    BY <1>2, <1>4, <1>6, <2>9, <2>10, <2>11, <2>12, GoBooks
  <2>14. \A i \in Coins : Worth(life', count', q)[i] = Worth(life, count, p)[i]
    BY <1>6, <2>2, <2>5, <2>6, <2>7, <2>8, CountsLemma DEF Worth
  <2>15. Total(Worth(life', count', q), Coins) = Total(Worth(life, count, p), Coins)
    BY <2>14, WorthSame
  <2>16. /\ Total(Worth(life, count, p), Coins) \in Int
         /\ Total(Worth(life, count, p), Coins) = asked'
    <3>1. Total(Worth(life, count, p), Coins) \in Int
      BY <1>1, <2>2, WorthLemma
    <3>2. QED
      BY <1>1, <1>3, <1>4, <3>1 DEF LedgerNow, Ledger, Owing
  <2>17. \A i \in Bags : count'[i] = 1
    BY <1>1, <2>5, KindsAssumption DEF LedgerNow, Ledger, Things
  <2>18. \A i \in Coins : q[i] # 0 => i \in Parted(stack')
    BY <1>1, <1>4, <2>7, <2>10, <2>13 DEF LedgerNow, Ledger
  <2>19. QED
    BY <2>13, <2>15, <2>16, <2>17, <2>18, StepBalance
<1>7. CASE ~(GoTo(<<>>) /\ UNCHANGED <<life, count>>)
  <2>1. /\ Free # {} /\ Top.n \in Nat \ {0} /\ Top.n < count[Top.item]
        /\ life' = [life EXCEPT ![NewItem] = "live"]
        /\ count' = [count EXCEPT ![NewItem] = Top.n]
        /\ \E f \in Frames : /\ f.pc = "split" /\ f.item = Top.item /\ f.from = NewItem
                             /\ f.n = count[Top.item] - Top.n /\ GoTo(<<Scr, f>>)
    BY <1>7, SplitItemShape
  <2>2. PICK x \in Coins : x = NewItem /\ life[x] = "free"
    BY <2>1, NewItemLemma
  <2>3. PICK f \in Frames : /\ f.pc = "split" /\ f.item = Top.item /\ f.from = x
                            /\ f.n = count[Top.item] - Top.n /\ GoTo(<<Scr, f>>)
    BY <2>1, <2>2
  <2>4. life' = [life EXCEPT ![x] = "live"] /\ count' = [count EXCEPT ![x] = Top.n]
    BY <2>1, <2>2
  <2>5. QED
    BY <1>6, <2>1, <2>2, <2>3, <2>4
<1>8. QED
  BY <1>5, <1>7


(* The new item has its coins and the old one has lost them, or the coins  *)
(* went with the new item when a script destroyed it.                      *)
LEMMA SplitDoneBalance ==
    ASSUME TypeInv, Sound, SplitDone, ~Touches, Balanced
    PROVE  BalancedAfter
<1>1. PICK p \in [Coins -> Int] : LedgerNow(p)
  BY DEF Balanced
<1>2. PICK t : t = Tail(stack)
  OBVIOUS
<1>3. /\ Top.pc = "split" /\ Top.n \in Nat \ {0} /\ UNCHANGED life
      /\ Top.pc # "jobs" /\ Top.pc \notin Ending /\ Top.pc # "merge"
  BY SplitDoneShape DEF Ending
<1>4. /\ t \in Seq(Frames) /\ Books(t, count', p) /\ Link(Top, Below(t), count) /\ Entry(Top, count, p)
      /\ \A i : ~(i \in Owes(Top) /\ i \in Torn(t))
      /\ \A k \in 1..Len(t) : t[k].pc # "destroy"
      /\ Parted(stack) = Parts(Top) \cup Parted(t) /\ Below(stack) = Top
  BY <1>1, <1>2, <1>3, RestBooks
<1>5. /\ Promise(Top, life, own) /\ \A i : ~(i \in Owes(Top) /\ i \in Owed(t))
  BY <1>2, <1>3, PoppedLemma
<1>6. PICK x \in Coins, y \in Coins : x = Top.from /\ y = Top.item /\ y # x /\ p[x] = count[y] - Top.n
  BY <1>3, <1>4 DEF Entry
<1>7. Owes(Top) = {x} /\ Parts(Top) = {x}
  BY <1>3, <1>6 DEF Owes, Parts
<1>8. life[y] \in {"live", "destroying"} /\ life[x] # "free" /\ own[x] = Nowhere
  BY <1>3, <1>5, <1>6, CountsLemma DEF Promise, Alive
<1>9. PICK q \in [Coins -> Int] : \A i \in Coins : q[i] = IF i = x THEN 0 ELSE p[i]
  <2>1. [i \in Coins |-> IF i = x THEN 0 ELSE p[i]] \in [Coins -> Int]
    BY <1>1
  <2>2. QED
    BY <2>1
<1>10. Books(t, count', q)
  <2>1. ASSUME NEW k \in 1..Len(t), t[k].pc = "split" PROVE t[k].from # x /\ t[k].from \in Coins
    <3>1. t[k].from \in Owed(t)
      BY <2>1 DEF Owed, Owes
    <3>2. QED
      BY <1>4, <1>5, <1>7, <2>1, <3>1 DEF Books, Entry
  <2>2. Undisturbed(t, count', p, count', q)
    BY <1>4, <1>9, <2>1 DEF Undisturbed
  <2>3. QED
    BY <1>4, <2>2, MoveBooks
<1>11. \A i \in Coins : q[i] # 0 => i \in Parted(t)
  BY <1>1, <1>4, <1>7, <1>9 DEF LedgerNow, Ledger
<1>12. /\ Total(Worth(life, count, p), Coins) \in Int
       /\ Total(Worth(life, count, p), Coins) = asked
  <2>1. Total(Worth(life, count, p), Coins) \in Int
    BY <1>1, CountsLemma, WorthLemma
  <2>2. QED
    BY <1>1, <1>3, <1>4, <2>1 DEF LedgerNow, Ledger, Owing
<1>13. PICK n \in Int : n = Top.n
  BY <1>3
<1>14. CASE /\ life[Top.from] = "destroyed" /\ GoTo(<<>>) /\ UNCHANGED count
            /\ asked' = asked + count[Top.item] - Top.n
  <2>1. stack' = t
    BY <1>2, <1>4, <1>14, NoStep
  <2>2. Below(t).pc # "merge" /\ Below(t).pc # "destroy"
    BY <1>3, <1>4 DEF Link
  <2>3. SameBut(x, Worth(life, count, p), Worth(life', count', q)) /\ Whole(count) /\ Whole(count')
    BY <1>3, <1>9, <1>14, CountsLemma DEF Worth, SameBut, Whole
  <2>4. Total(Worth(life', count', q), Coins)
          = Total(Worth(life, count, p), Coins) - Worth(life, count, p)[x] + Worth(life', count', q)[x]
    BY <1>1, <1>9, <2>3, WorthOne
  <2>5. Worth(life, count, p)[x] = 0 - (count[y] - n) /\ Worth(life', count', q)[x] = 0
    BY <1>3, <1>6, <1>9, <1>13, <1>14, CountsLemma DEF Worth
  <2>6. Total(Worth(life', count', q), Coins) = asked' /\ asked' \in Int
    BY <1>6, <1>12, <1>13, <1>14, <2>4, <2>5, CountsLemma
  <2>7. \A i \in Bags : count'[i] = 1
    BY <1>1, <1>14 DEF LedgerNow, Ledger
  <2>8. QED
    BY <1>10, <1>11, <2>1, <2>2, <2>6, <2>7, StepBalance
<1>15. ASSUME life[Top.from] # "destroyed", count' = [count EXCEPT ![Top.item] = Top.n], UNCHANGED asked,
              NEW a \in Frames, a.pc = "add", a.item = Top.from, GoTo(<<Scr, a>>)
       PROVE  BalancedAfter
  <2>1. /\ Entry(a, count', q) /\ Link(a, Below(t), count') /\ Parts(a) = {} /\ Owes(a) = {x}
        /\ a.pc \notin {"merge", "destroy"}
    BY <1>3, <1>4, <1>6, <1>15, PlainLink DEF Entry, Parts, Owes, Ending
  <2>2. \A i : ~(i \in Owes(a) /\ i \in Torn(t))
    BY <1>4, <1>7, <2>1
  <2>3. /\ Books(stack', count', q) /\ Below(stack').pc \notin {"merge", "destroy"}
        /\ Parted(stack') = Parts(a) \cup Parted(t)
    BY <1>2, <1>4, <1>10, <1>15, <2>1, <2>2, GoBooks
  <2>4. /\ \A i \in Things : count'[i] = IF i = y THEN n ELSE count[i]
        /\ x \in Things /\ y \in Things
    BY <1>6, <1>13, <1>15, CountsLemma DEF TypeInv, DataInv
  <2>5. \A i \in Coins : count[i] \in Int /\ count'[i] \in Int
    BY <2>4, <1>13, CountsLemma
  <2>6. SameBut(y, Worth(life, count, p), Worth(life, count', p)) /\ Whole(count) /\ Whole(count')
    BY <2>4, <2>5, CountsLemma DEF Worth, SameBut, Whole
  <2>7. Total(Worth(life, count', p), Coins)
          = Total(Worth(life, count, p), Coins) - Worth(life, count, p)[y] + Worth(life, count', p)[y]
    BY <1>1, <2>6, WorthOne
  <2>8. SameBut(x, Worth(life, count', p), Worth(life', count', q))
    BY <1>3, <1>9 DEF Worth, SameBut
  <2>9. Total(Worth(life', count', q), Coins)
          = Total(Worth(life, count', p), Coins) - Worth(life, count', p)[x] + Worth(life', count', q)[x]
    BY <1>1, <1>9, <2>6, <2>8, WorthOne
  <2>10. life[x] \in {"live", "destroying"}
    BY <1>6, <1>8, <1>15, <2>4 DEF TypeInv, DataInv
  <2>11. /\ Worth(life, count, p)[y] = count[y] - p[y] /\ Worth(life, count', p)[y] = n - p[y]
         /\ Worth(life, count', p)[x] = count[x] - p[x] /\ Worth(life', count', q)[x] = count[x] - 0
    BY <1>3, <1>6, <1>8, <1>9, <2>4, <2>10 DEF Worth
  <2>12. p[x] = count[y] - n /\ p[x] \in Int /\ p[y] \in Int /\ count[x] \in Int /\ count[y] \in Int
    BY <1>1, <1>6, <1>13, <2>5
  <2>13. Total(Worth(life', count', q), Coins) = asked' /\ asked' \in Int
    <3>1. PICK a0 \in Int, py \in Int, cx \in Int, cy \in Int :
             a0 = asked /\ py = p[y] /\ cx = count[x] /\ cy = count[y]
      BY <1>12, <2>12
    <3>2. Total(Worth(life, count', p), Coins) = a0 - (cy - py) + (n - py)
      BY <1>12, <2>7, <2>11, <3>1
    <3>3. Total(Worth(life', count', q), Coins) = Total(Worth(life, count', p), Coins) - (cx - (cy - n)) + (cx - 0)
      BY <2>9, <2>11, <2>12, <3>1
    <3>4. (a0 - (cy - py) + (n - py)) - (cx - (cy - n)) + (cx - 0) = a0
      BY <3>1
    <3>5. QED
      BY <1>15, <3>1, <3>2, <3>3, <3>4
  <2>14. \A i \in Bags : count'[i] = 1
    BY <1>1, <2>4, KindsAssumption DEF LedgerNow, Ledger, Things
  <2>15. \A i \in Coins : q[i] # 0 => i \in Parted(stack')
    BY <1>11, <2>1, <2>3
  <2>16. QED
    BY <2>3, <2>13, <2>14, <2>15, StepBalance
<1>16. QED
  BY <1>6, <1>8, <1>14, <1>15, SplitDoneShape

LEMMA MergeBalance ==
    ASSUME TypeInv, Sound, Merge, ~Touches, Balanced
    PROVE  BalancedAfter
<1>1. PICK p \in [Coins -> Int] : LedgerNow(p)
  BY DEF Balanced
<1>2. PICK t : t = Tail(stack)
  OBVIOUS
<1>3. /\ Top.pc = "merge" /\ UNCHANGED <<life, asked>> /\ GoTo(<<Scr>>) /\ Top.n \in Nat
      /\ Top.pc # "jobs" /\ Top.pc \notin Ending /\ Top.pc # "split"
      /\ count' = [count EXCEPT ![Top.item] = count[Top.item] + Top.n]
  BY MergeShape DEF Ending, Merge
<1>4. /\ t \in Seq(Frames) /\ Books(t, count', p) /\ Link(Top, Below(t), count) /\ Entry(Top, count, p)
      /\ Parted(stack) = Parts(Top) \cup Parted(t) /\ Below(stack) = Top
  BY <1>1, <1>2, <1>3, RestBooks
<1>5. PICK y \in Coins : y = Top.item /\ life[y] \in {"live", "destroying"}
  <2>1. Top.item \in Coins /\ Promise(Top, life, own)
    BY <1>2, <1>3, <1>4, PoppedLemma DEF Entry
  <2>2. QED
    BY <1>3, <2>1, CountsLemma DEF Promise, Alive
<1>6. PICK n \in Int : n = Top.n
  BY <1>3
<1>7. /\ Entry(Scr, count', p) /\ Link(Scr, Below(t), count') /\ Parts(Scr) = {} /\ Parts(Top) = {}
      /\ Scr.pc \notin {"merge", "destroy"}
  BY <1>3, <1>4, PlainLink, ScrLemma DEF Entry, Parts, Ending
<1>8. \A i : ~(i \in Owes(Scr) /\ i \in Torn(t))
  BY ScrLemma
<1>9. /\ Books(stack', count', p) /\ Below(stack').pc \notin {"merge", "destroy"}
      /\ Parted(stack') = Parts(Scr) \cup Parted(t)
  BY <1>2, <1>3, <1>4, <1>7, <1>8, ScrLemma, GoBooks
<1>10. \A i \in Things : count'[i] = IF i = y THEN count[y] + n ELSE count[i]
  BY <1>3, <1>5, <1>6 DEF TypeInv, DataInv
<1>11. \A i \in Coins : count[i] \in Int /\ count'[i] \in Int
  BY <1>6, <1>10, CountsLemma
<1>12. SameBut(y, Worth(life, count, p), Worth(life', count', p)) /\ Whole(count) /\ Whole(count')
  BY <1>3, <1>10, <1>11, CountsLemma DEF Worth, SameBut, Whole
<1>13. Total(Worth(life', count', p), Coins)
         = Total(Worth(life, count, p), Coins) - Worth(life, count, p)[y] + Worth(life', count', p)[y]
  BY <1>1, <1>12, WorthOne
<1>14. /\ Worth(life, count, p)[y] = count[y] - p[y] /\ Worth(life', count', p)[y] = (count[y] + n) - p[y]
       /\ p[y] \in Int /\ count[y] \in Int
  BY <1>1, <1>3, <1>5, <1>10, <1>11, CountsLemma DEF Worth
<1>15. Total(Worth(life, count, p), Coins) \in Int /\ Total(Worth(life, count, p), Coins) + n = asked
  BY <1>1, <1>3, <1>4, <1>6, <1>11, WorthLemma DEF LedgerNow, Ledger, Owing
<1>16. Total(Worth(life', count', p), Coins) = asked' /\ asked' \in Int
  BY <1>3, <1>13, <1>14, <1>15
<1>17. \A i \in Bags : count'[i] = 1
  BY <1>1, <1>10, KindsAssumption DEF LedgerNow, Ledger, Things
<1>18. \A i \in Coins : p[i] # 0 => i \in Parted(stack')
  BY <1>1, <1>4, <1>7, <1>9 DEF LedgerNow, Ledger
<1>19. QED
  BY <1>9, <1>16, <1>17, <1>18, StepBalance


(* Coins that are destroyed are gone, or joined to those of the merge that *)
(* comes next.                                                             *)
LEMMA EndDestroyBalance ==
    ASSUME TypeInv, Sound, EndDestroy, ~Touches, Balanced
    PROVE  BalancedAfter
<1>1. PICK p \in [Coins -> Int] : LedgerNow(p)
  BY DEF Balanced
<1>2. PICK t : t = Tail(stack)
  OBVIOUS
<1>3. /\ Top.pc \in Ending /\ Top.pc \in Tearing /\ Top.pc # "jobs" /\ Top.pc # "merge" /\ Top.pc # "split"
      /\ Top.item \in Things /\ UNCHANGED count /\ GoTo(<<>>)
      /\ life' = [life EXCEPT ![Top.item] = "destroyed"]
      /\ asked' = IF Top.item \in Coins THEN asked - Top.n * count[Top.item] ELSE asked
  BY EndDestroyShape DEF Ending, Tearing
<1>4. /\ t \in Seq(Frames) /\ Books(t, count', p) /\ Link(Top, Below(t), count) /\ Entry(Top, count, p)
      /\ Parted(stack) = Parts(Top) \cup Parted(t) /\ Below(stack) = Top
  BY <1>1, <1>2, <1>3, RestBooks
<1>5. stack' = t
  BY <1>2, <1>3, <1>4, NoStep
<1>6. life[Top.item] = "destroying"
  BY <1>2, <1>3, PoppedLemma DEF Promise
<1>7. /\ Below(t).pc # "destroy" /\ Top.n \in {0, 1} /\ (Top.n = 0 <=> Below(t).pc = "merge")
      /\ Top.n = 0 => Top.item \in Coins /\ Below(t).n = count[Top.item]
  BY <1>3, <1>4 DEF Entry, Link
<1>8. /\ \A i \in Things : life'[i] = IF i = Top.item THEN "destroyed" ELSE life[i]
      /\ Whole(count) /\ Whole(count')
  BY <1>3, CountsLemma DEF TypeInv, DataInv, Whole
<1>9. /\ Total(Worth(life, count, p), Coins) \in Int
      /\ Total(Worth(life, count, p), Coins) = asked
  <2>1. Total(Worth(life, count, p), Coins) \in Int
    BY <1>1, CountsLemma, WorthLemma
  <2>2. QED
    BY <1>1, <1>3, <1>4, <2>1 DEF LedgerNow, Ledger, Owing
<1>10. Total(Worth(life', count', p), Coins) + Owing(Below(stack')) = asked'
  <2>1. CASE Top.item \in Coins
    <3>1. PICK x \in Coins : x = Top.item
      BY <2>1
    <3>2. SameBut(x, Worth(life, count, p), Worth(life', count', p))
      BY <1>3, <1>8, <3>1, CountsLemma DEF Worth, SameBut
    <3>3. Total(Worth(life', count', p), Coins)
            = Total(Worth(life, count, p), Coins) - Worth(life, count, p)[x] + Worth(life', count', p)[x]
      BY <1>1, <1>8, <3>2, WorthOne
    <3>4. PICK a0 \in Int, px \in Int, cx \in Int : a0 = asked /\ px = p[x] /\ cx = count[x]
      BY <1>1, <1>9, CountsLemma
    <3>5. Worth(life, count, p)[x] = cx - px /\ Worth(life', count', p)[x] = 0 - px
      BY <1>3, <1>6, <1>8, <3>1, <3>4, CountsLemma DEF Worth
    <3>6. Total(Worth(life', count', p), Coins) = a0 - cx
      <4>1. Total(Worth(life', count', p), Coins) = a0 - (cx - px) + (0 - px)
        BY <1>9, <3>3, <3>4, <3>5
      <4>2. a0 - (cx - px) + (0 - px) = a0 - cx
        BY <3>4
      <4>3. QED
        BY <4>1, <4>2
    <3>7. CASE Top.n = 0
      <4>1. Owing(Below(stack')) = cx
        BY <1>5, <1>7, <3>1, <3>4, <3>7 DEF Owing
      <4>2. asked' = a0
        BY <1>3, <3>1, <3>4, <3>7
      <4>3. (a0 - cx) + cx = a0
        BY <3>4
      <4>4. QED
        BY <3>6, <4>1, <4>2, <4>3
    <3>8. CASE Top.n = 1
      <4>1. Owing(Below(stack')) = 0
        BY <1>5, <1>7, <3>8 DEF Owing
      <4>2. asked' = a0 - cx
        BY <1>3, <3>1, <3>4, <3>8
      <4>3. (a0 - cx) + 0 = a0 - cx
        BY <3>4
      <4>4. QED
        BY <3>6, <4>1, <4>2, <4>3
    <3>9. QED
      BY <1>7, <3>7, <3>8
  <2>2. CASE Top.item \notin Coins
    <3>1. \A i \in Coins : Worth(life', count', p)[i] = Worth(life, count, p)[i]
      BY <1>3, <1>8, <2>2, CountsLemma DEF Worth
    <3>2. Total(Worth(life', count', p), Coins) = Total(Worth(life, count, p), Coins)
      BY <3>1, WorthSame
    <3>3. Owing(Below(stack')) = 0
      BY <1>5, <1>7, <2>2 DEF Owing
    <3>4. PICK a0 \in Int : a0 = asked /\ asked' = a0 /\ a0 + 0 = a0
      BY <1>3, <1>9, <2>2
    <3>5. QED
      BY <1>9, <3>2, <3>3, <3>4
  <2>3. QED
    BY <2>1, <2>2
<1>11. Parts(Top) = {}
  BY <1>3 DEF Parts
<1>12. \A i \in Bags : count'[i] = 1
  BY <1>1, <1>3 DEF LedgerNow, Ledger
<1>13. \A i \in Coins : p[i] # 0 => i \in Parted(stack')
  BY <1>1, <1>4, <1>5, <1>11 DEF LedgerNow, Ledger
<1>14. QED
  BY <1>4, <1>5, <1>7, <1>10, <1>12, <1>13, OwingBalance


-----------------------------------------------------------------------------
(* What scripts call.                                                      *)

(* A script adds coins to an item, or takes some away.                     *)
LEMMA CountBalance ==
    ASSUME TypeInv, Sound, ~Touches, IsScript(Top), NEW p \in [Coins -> Int], LedgerNow(p),
           Books(stack', count', p), Below(stack').pc \notin {"merge", "destroy"},
           Parted(stack) \subseteq Parted(stack'),
           NEW x \in Coins, NEW n \in Int,
           \A i \in Things : i # x => count'[i] = count[i], count'[x] \in Int,
           Worth(life', count', p)[x] = Worth(life, count, p)[x] + n,
           \A i \in Things : i # x => life'[i] = life[i],
           asked' = asked + n
    PROVE  BalancedAfter
<1>1. IsScript(Below(stack))
  BY CallBooks
<1>2. /\ Whole(count) /\ Whole(count')
      /\ SameBut(x, Worth(life, count, p), Worth(life', count', p))
  BY CountsLemma DEF Whole, SameBut, Worth
<1>3. Total(Worth(life', count', p), Coins)
        = Total(Worth(life, count, p), Coins) - Worth(life, count, p)[x] + Worth(life', count', p)[x]
  BY <1>2, WorthOne
<1>4. /\ Total(Worth(life, count, p), Coins) \in Int
      /\ Total(Worth(life, count, p), Coins) = asked
  <2>1. Total(Worth(life, count, p), Coins) \in Int
    BY CountsLemma, WorthLemma
  <2>2. Owing(Below(stack)) = 0
    BY <1>1 DEF Owing, IsScript
  <2>3. QED
    BY <2>1, <2>2 DEF LedgerNow, Ledger
<1>5. PICK v \in Int : v = Worth(life, count, p)[x]
  BY <1>2 DEF Worth, Whole
<1>6. PICK a0 \in Int : a0 = asked
  BY <1>4
<1>7. Total(Worth(life', count', p), Coins) = a0 - v + (v + n)
  BY <1>3, <1>4, <1>5, <1>6
<1>8. a0 - v + (v + n) = a0 + n /\ a0 + n \in Int
  BY <1>5, <1>6
<1>9. Total(Worth(life', count', p), Coins) = asked' /\ asked' \in Int
  BY <1>6, <1>7, <1>8
<1>10. \A i \in Bags : count'[i] = 1
  <2>1. \A i \in Bags : i \in Things /\ i # x /\ count[i] = 1
    BY KindsAssumption DEF LedgerNow, Ledger, Things
  <2>2. QED
    BY <2>1
<1>11. \A i \in Coins : p[i] # 0 => i \in Parted(stack')
  BY DEF LedgerNow, Ledger
<1>12. QED
  BY <1>9, <1>10, <1>11, StepBalance

LEMMA CalledLink ==
    ASSUME TypeInv, Sound, ~Touches, IsScript(Top), NEW p, LedgerNow(p)
    PROVE  /\ stack \in Seq(Frames) /\ Books(stack, count', p)
           /\ Below(stack).pc \notin {"merge", "destroy"}
           /\ \A a, c : a.pc \notin Ending => Link(a, Below(stack), c)
<1>1. /\ stack \in Seq(Frames) /\ Books(stack, count', p) /\ IsScript(Below(stack))
  BY CallBooks
<1>2. QED
  BY <1>1 DEF IsScript, Link, Ending

LEMMA MoveItemBalance ==
    ASSUME TypeInv, Sound, ~Touches, Balanced,
           NEW i \in Things, NEW n \in Counts, NEW to \in Holders, NEW skip \in BOOLEAN,
           MoveItem(i, n, to, skip)
    PROVE  BalancedAfter
<1>1. PICK p \in [Coins -> Int] : LedgerNow(p)
  BY DEF Balanced
<1>2. PICK move \in Frames : MoveCalled(move, i, to)
  BY MoveShape
<1>3. PICK c \in Frames : c = Script("OnItemCheckMove") /\ c.pc = "OnItemCheckMove"
  BY ScriptLemma
<1>4. /\ move.pc = "checked" /\ IsScript(c) /\ (Call(<<move>>) \/ Call(<<c, move>>))
  BY <1>2, <1>3 DEF MoveCalled, IsScript
<1>5. IsScript(Top) /\ UNCHANGED <<life, count, asked>>
  BY DEF MoveItem, Call, items
<1>6. /\ stack \in Seq(Frames) /\ Books(stack, count', p) /\ Below(stack).pc # "merge"
      /\ Link(move, Below(stack), count')
  BY <1>1, <1>4, <1>5, CalledLink DEF Ending
<1>7. /\ Entry(move, count', p) /\ Parts(move) = {} /\ move.pc \notin {"merge", "destroy"}
      /\ \A j : ~(j \in Owes(move) /\ j \in Torn(stack))
  BY <1>4 DEF Entry, Parts, Owes, Ending
<1>8. /\ Books(stack', count', p) /\ Below(stack').pc \notin {"merge", "destroy"}
      /\ Parted(stack') = Parts(move) \cup Parted(stack)
  BY <1>4, <1>6, <1>7, CalledBooks
<1>9. QED
  BY <1>1, <1>5, <1>6, <1>7, <1>8, PlainStep

LEMMA ScriptBooks ==
    ASSUME TypeInv, Sound, ~Touches, NEW p, LedgerNow(p), Call(<<Scr>>)
    PROVE  /\ Books(stack', count', p) /\ Below(stack').pc \notin {"merge", "destroy"}
           /\ Parted(stack') = Parted(stack)
<1>1. IsScript(Top)
  BY DEF Call
<1>2. /\ stack \in Seq(Frames) /\ Books(stack, count', p)
      /\ Link(Scr, Below(stack), count')
  BY <1>1, ScrLemma, CalledLink DEF Ending
<1>3. /\ Entry(Scr, count', p) /\ Parts(Scr) = {} /\ Scr.pc \notin {"merge", "destroy"}
      /\ \A j : ~(j \in Owes(Scr) /\ j \in Torn(stack))
  BY ScrLemma DEF Entry, Parts, Ending
<1>4. /\ Books(stack', count', p) /\ Below(stack').pc \notin {"merge", "destroy"}
      /\ Parted(stack') = Parts(Scr) \cup Parted(stack)
  BY <1>2, <1>3, ScrLemma, CalledBooks
<1>5. QED
  BY <1>3, <1>4

LEMMA DestroyItemBalance ==
    ASSUME TypeInv, Sound, ~Touches, Balanced,
           NEW i \in Things, NEW n \in Counts, DestroyItem(i, n)
    PROVE  BalancedAfter
<1>1. PICK p \in [Coins -> Int] : LedgerNow(p)
  BY DEF Balanced
<1>2. UNCHANGED life /\ Exists(i) /\ IsScript(Top) /\ n \in Nat \ {0}
  BY CountsAssumption, DestroyShape DEF DestroyItem, Call
<1>3. CASE /\ Call(<<Scr>>) /\ n < count[i] /\ count' = [count EXCEPT ![i] = count[i] - n]
           /\ asked' = asked - n
  <2>1. count[i] # 1
    BY <1>2, <1>3
  <2>2. PICK x \in Coins : x = i
    BY <1>1, <2>1 DEF LedgerNow, Ledger, Things
  <2>3. /\ Books(stack', count', p) /\ Below(stack').pc \notin {"merge", "destroy"}
        /\ Parted(stack') = Parted(stack)
    BY <1>1, <1>3, ScriptBooks
  <2>4. /\ \A j \in Things : count'[j] = IF j = x THEN count[x] - n ELSE count[j]
        /\ x \in Things /\ count[x] \in Int
    BY <1>3, <2>2, CountsLemma DEF TypeInv, DataInv
  <2>5. PICK cx \in Int, px \in Int, m \in Int : cx = count[x] /\ px = p[x] /\ m = 0 - n
    BY <1>1, <1>2, <2>4
  <2>6. /\ count'[x] = cx + m /\ asked' = asked + m
    <3>1. cx - n = cx + m
      BY <1>2, <2>5
    <3>2. asked \in Int
      <4>1. Total(Worth(life, count, p), Coins) \in Int
        BY <1>1, CountsLemma, WorthLemma
      <4>2. IsScript(Below(stack))
        BY <1>1, <1>2, CallBooks
      <4>3. Owing(Below(stack)) = 0
        BY <4>2 DEF Owing, IsScript
      <4>4. QED
        BY <1>1, <4>1, <4>3 DEF LedgerNow, Ledger
    <3>3. asked - n = asked + m
      BY <1>2, <2>5, <3>2
    <3>4. QED
      BY <1>3, <2>4, <2>5, <3>1, <3>3
  <2>7. /\ Worth(life, count, p)[x] = cx - px /\ Worth(life', count', p)[x] = (cx + m) - px
    BY <1>2, <2>2, <2>4, <2>5, <2>6 DEF Worth, Exists
  <2>8. Worth(life', count', p)[x] = Worth(life, count, p)[x] + m /\ count'[x] \in Int
    BY <2>5, <2>6, <2>7
  <2>9. \A j \in Things : j # x => count'[j] = count[j] /\ life'[j] = life[j]
    BY <1>2, <2>4
  <2>10. QED
    BY <1>1, <1>2, <2>3, <2>5, <2>6, <2>8, <2>9, CountBalance
<1>4. ASSUME UNCHANGED <<count, asked>>, NEW d \in Frames, d.pc = "destroy", d.n = 1, Call(<<d>>)
      PROVE  BalancedAfter
  <2>1. PICK t \in Seq(Frames) : /\ t = stack /\ Books(t, count', p)
                                 /\ Below(t).pc \notin {"merge", "destroy"}
    BY <1>1, <1>2, CalledLink
  <2>2. PICK s : s = Push(d, t)
    OBVIOUS
  <2>3. stack' = s
    BY <1>4, <2>1, <2>2 DEF Call, Push
  <2>4. /\ Entry(d, count', p) /\ Link(d, Below(t), count') /\ Parts(d) = {}
    BY <1>4, <2>1 DEF Entry, Link, Parts, Ending
  <2>5. \A j : ~(j \in Owes(d) /\ j \in Torn(t))
    BY <1>4 DEF Owes
  <2>6. Books(s, count', p) /\ Below(s) = d /\ Parted(s) = Parts(d) \cup Parted(t)
    BY <2>1, <2>2, <2>4, <2>5, PushBooks
  <2>7. QED
    BY <1>1, <1>2, <1>4, <2>1, <2>3, <2>4, <2>6, PlainStep
<1>5. QED
  BY <1>3, <1>4, DestroyShape

LEMMA AddItemBalance ==
    ASSUME TypeInv, Sound, ~Touches, Balanced,
           NEW h \in Holders, NEW n \in Counts, AddItem(h, n)
    PROVE  BalancedAfter
<1>1. PICK p \in [Coins -> Int] : LedgerNow(p)
  BY DEF Balanced
<1>2. asked' = asked + n /\ n \in Nat \ {0} /\ n \in Int
  BY CountsAssumption, AddShape
<1>3. ASSUME UNCHANGED life, Call(<<Scr>>), NEW x \in Coins \cap inside[h],
             count' = [count EXCEPT ![x] = count[x] + n]
      PROVE  BalancedAfter
  <2>1. IsScript(Top)
    BY <1>3 DEF Call
  <2>2. /\ Books(stack', count', p) /\ Below(stack').pc \notin {"merge", "destroy"}
        /\ Parted(stack') = Parted(stack)
    BY <1>1, <1>3, ScriptBooks
  <2>3. /\ \A j \in Things : count'[j] = IF j = x THEN count[x] + n ELSE count[j]
        /\ x \in Coins /\ x \in Things /\ count[x] \in Int
    BY <1>3, CountsLemma DEF TypeInv, DataInv
  <2>4. life[x] \in {"live", "destroying"}
    <3>1. own[x] = h
      BY <1>3, <2>3 DEF Sound, PlaceInv
    <3>2. own[x] # Nowhere
      BY <3>1, KindsAssumption
    <3>3. QED
      BY <2>3, <3>2 DEF Sound, PlaceInv, TypeInv, DataInv
  <2>5. PICK cx \in Int, px \in Int : cx = count[x] /\ px = p[x]
    BY <1>1, <2>3
  <2>6. /\ Worth(life, count, p)[x] = cx - px /\ Worth(life', count', p)[x] = (cx + n) - px
    BY <1>3, <2>3, <2>4, <2>5 DEF Worth
  <2>7. Worth(life', count', p)[x] = Worth(life, count, p)[x] + n /\ count'[x] \in Int
    BY <1>2, <2>3, <2>5, <2>6
  <2>8. \A j \in Things : j # x => count'[j] = count[j] /\ life'[j] = life[j]
    BY <1>3, <2>3
  <2>9. QED
    BY <1>1, <1>2, <2>1, <2>2, <2>3, <2>7, <2>8, CountBalance
<1>4. ASSUME NEW x \in Coins, life[x] = "free", life' = [life EXCEPT ![x] = "live"],
             count' = [count EXCEPT ![x] = n],
             NEW c \in Frames, c.pc = "created", c.item = x, Call(<<Scr, c>>)
      PROVE  BalancedAfter
  <2>1. IsScript(Top) /\ x \in Things
    BY <1>4, CountsLemma DEF Call
  <2>2. /\ stack \in Seq(Frames) /\ Books(stack, count', p) /\ Link(c, Below(stack), count')
    BY <1>1, <1>4, <2>1, CalledLink DEF Ending
  <2>3. x \notin Torn(stack) /\ x \notin Parted(stack)
    <3>1. (\A k \in 1..Len(stack) : FrameOK(stack[k])) /\ Kept(stack, life, own)
      BY DEF TypeInv, GoodStack, Sound
    <3>2. PICK s \in Seq(Frames) : s = stack
      BY <2>2
    <3>3. (\A k \in 1..Len(s) : FrameOK(s[k])) /\ Kept(s, life, own)
      BY <3>1, <3>2
    <3>4. QED
      BY <1>4, <2>1, <3>2, <3>3, NewApart
  <2>4. /\ Entry(c, count', p) /\ Parts(c) = {} /\ Owes(c) = {x} /\ c.pc \notin {"merge", "destroy"}
    BY <1>4 DEF Entry, Parts, Owes, Ending
  <2>5. \A j : ~(j \in Owes(c) /\ j \in Torn(stack))
    BY <2>3, <2>4
  <2>6. /\ Books(stack', count', p) /\ Below(stack').pc \notin {"merge", "destroy"}
        /\ Parted(stack') = Parts(c) \cup Parted(stack)
    BY <1>4, <2>2, <2>4, <2>5, ScrLemma, CalledBooks
  <2>7. /\ \A j \in Things : count'[j] = IF j = x THEN n ELSE count[j]
        /\ \A j \in Things : life'[j] = IF j = x THEN "live" ELSE life[j]
    BY <1>4 DEF TypeInv, DataInv
  <2>8. p[x] = 0
    BY <1>1, <2>3 DEF LedgerNow, Ledger
  <2>9. Worth(life', count', p)[x] = Worth(life, count, p)[x] + n /\ count'[x] \in Int
    BY <1>2, <1>4, <2>1, <2>7, <2>8 DEF Worth
  <2>10. \A j \in Things : j # x => count'[j] = count[j] /\ life'[j] = life[j]
    BY <2>7
  <2>11. Parted(stack) \subseteq Parted(stack')
    BY <2>6
  <2>12. QED
    BY <1>1, <1>2, <2>1, <2>6, <2>9, <2>10, <2>11, CountBalance
<1>5. CASE UNCHANGED life /\ Call(<<Scr>>)
           /\ \E x \in Coins \cap inside[h] : count' = [count EXCEPT ![x] = count[x] + n]
  BY <1>3, <1>5
<1>6. CASE /\ Free # {}
           /\ life' = [life EXCEPT ![NewItem] = "live"]
           /\ count' = [count EXCEPT ![NewItem] = n]
           /\ \E c \in Frames : c.pc = "created" /\ c.item = NewItem /\ Call(<<Scr, c>>)
  <2>1. PICK x \in Coins : x = NewItem /\ life[x] = "free"
    BY <1>6, NewItemLemma
  <2>2. PICK c \in Frames : c.pc = "created" /\ c.item = x /\ Call(<<Scr, c>>)
    BY <1>6, <2>1
  <2>3. life' = [life EXCEPT ![x] = "live"] /\ count' = [count EXCEPT ![x] = n]
    BY <1>6, <2>1
  <2>4. QED
    BY <1>4, <2>1, <2>2, <2>3
<1>7. QED
  BY <1>5, <1>6, AddShape


-----------------------------------------------------------------------------
LEMMA InitBalance ==
    ASSUME Init
    PROVE  Balanced
<1>1. PICK p \in [Coins -> Int] : \A i \in Coins : p[i] = 0
  <2>1. [i \in Coins |-> 0] \in [Coins -> Int]
    OBVIOUS
  <2>2. QED
    BY <2>1
<1>2. PICK s : s = stack
  OBVIOUS
<1>3. s = <<>> /\ Len(s) = 0 /\ Below(s) = Scr /\ Scr.pc = "script"
  BY <1>2, ScrLemma DEF Init, Below
<1>4. Books(s, count, p)
  BY <1>3 DEF Books
<1>5. PICK T \in SUBSET Coins : T = {i \in Coins : Start[i] # Nowhere}
  OBVIOUS
<1>6. \A i \in Coins : /\ i \in T <=> life[i] \in {"live", "destroying"}
                       /\ i \in T => count[i] = StartCount
  BY <1>5 DEF Init, Things
<1>7. StartCount \in Int /\ StartCount - 0 = StartCount
  BY StartAssumption
<1>8. PICK w : w = Worth(life, count, p)
  OBVIOUS
<1>9. /\ \A i \in Coins : w[i] = IF i \in T THEN StartCount ELSE 0
      /\ \A i \in T : w[i] = StartCount
      /\ Numbers(w, Coins)
  BY <1>1, <1>6, <1>7, <1>8 DEF Worth, Numbers
<1>10. Total(w, T) = Total(w, Coins)
  BY <1>9, CoinsAssumption, TotalPart
<1>11. Total(w, T) = StartCount * Cardinality(T)
  <2>1. IsFiniteSet(T)
    BY CoinsAssumption, FS_Subset
  <2>2. QED
    BY <1>7, <1>9, <2>1, TotalEven
<1>12. asked = StartCount * Cardinality(T)
  BY <1>5 DEF Init
<1>13. Total(w, Coins) \in Int
  BY <1>9, CoinsAssumption, TotalInt
<1>14. Total(w, Coins) + Owing(Below(s)) = asked
  <2>1. PICK v \in Int : v = Total(w, Coins)
    BY <1>13
  <2>2. Owing(Below(s)) = 0 /\ v + 0 = v
    BY <1>3 DEF Owing
  <2>3. QED
    BY <1>10, <1>11, <1>12, <2>1, <2>2
<1>15. \A i \in Bags : count[i] = 1
  BY KindsAssumption DEF Init, Things
<1>16. LedgerNow(p)
  BY <1>1, <1>2, <1>3, <1>4, <1>8, <1>14, <1>15 DEF LedgerNow, Ledger
<1>17. QED
  BY <1>16 DEF Balanced

(* Sound, and in balance.                                                  *)
CInv == IInv /\ (~broken => Balanced)

LEMMA NextBalance ==
    ASSUME CInv, [Next]_vars
    PROVE  CInv'
<1>1. IInv'
  BY NextSound DEF CInv
<1>2. ASSUME ~broken' PROVE BalancedAfter
  <2>1. CASE UNCHANGED vars
    <3>1. ~broken
      BY <1>2, <2>1, Zenon DEF vars
    <3>2. Balanced
      BY <3>1, Zenon DEF CInv
    <3>3. UNCHANGED <<stack, life, count, asked>>
      BY <2>1 DEF vars, items
    <3>4. QED
      BY <3>2, <3>3 DEF Balanced, BalancedAfter, LedgerNow, LedgerThen
  <2>2. CASE Next
    <3>1. broken' = (broken \/ Touches)
      BY <2>2 DEF Next, Watch
    <3>2. ~broken /\ ~Touches
      BY <1>2, <3>1, Zenon
    <3>3. TypeInv /\ Sound /\ Balanced
      BY <3>2, Zenon DEF CInv, IInv
    <3>4. CASE Scripts
      BY <3>2, <3>3, <3>4, MoveItemBalance, DestroyItemBalance, AddItemBalance DEF Scripts
    <3>5. CASE Engine
      BY <3>2, <3>3, <3>5, ReturnBalance, RefusedBalance, MoveWholeBalance, SplitItemBalance,
         SplitDoneBalance, CreatedBalance, AddBalance, MergeBalance, BeginDestroyBalance,
         TearOffBalance, DestroyInnerBalance, NextRoundBalance, EndDestroyBalance DEF Engine
    <3>6. QED
      BY <2>2, <3>4, <3>5 DEF Next
  <2>3. QED
    BY <2>1, <2>2
<1>3. BalancedAfter => Balanced'
  BY DEF Balanced, BalancedAfter, LedgerNow, LedgerThen
<1>4. QED
  BY <1>1, <1>2, <1>3, Zenon DEF CInv

(* As long as scripts leave alone what the calls under way rely on, the    *)
(* coins of all items are those that scripts have asked for, whenever no   *)
(* call is under way: however the moves, splits, merges and destructions   *)
(* of stacks were interleaved, none was made or lost.                      *)
THEOREM CoinsTheorem == Spec => []CoinsKept
<1>1. Init => CInv
  BY InitType, InitSound, InitBalance DEF CInv, IInv
<1>2. CInv /\ [Next]_vars => CInv'
  BY NextBalance
<1>3. CInv => CoinsKept
  <2> SUFFICES ASSUME CInv, ~broken, stack = <<>> PROVE Total(count, Coined) = asked
    BY Zenon DEF CoinsKept, Total
  <2>1. PICK p \in [Coins -> Int] : LedgerNow(p)
    BY Zenon DEF CInv, Balanced
  <2>2. TypeInv
    BY Zenon DEF CInv, IInv
  <2>3. PICK s : s = stack
    OBVIOUS
  <2>4. Len(s) = 0 /\ Below(s) = Scr /\ Parted(s) = {}
    BY <2>3 DEF Below, Parted
  <2>5. \A i \in Coins : p[i] = 0
    BY <2>1, <2>3, <2>4 DEF LedgerNow, Ledger
  <2>6. PICK w : w = Worth(life, count, p)
    OBVIOUS
  <2>7. PICK T \in SUBSET Coins : T = Coined
    BY DEF Coined
  <2>8. Numbers(w, Coins) /\ \A i \in Coins : w[i] = IF i \in T THEN count[i] ELSE 0
    BY <2>2, <2>5, <2>6, <2>7, CountsLemma DEF Worth, Numbers, Coined
  <2>9. (\A i \in T : count[i] = w[i]) /\ (\A i \in Coins : i \notin T => w[i] = 0)
    BY <2>8
  <2>10. Total(count, T) = Total(w, Coins)
    <3>1. PICK c : c = count
      OBVIOUS
    <3>2. \A i \in T : c[i] = w[i]
      BY <2>9, <3>1
    <3>3. Total(c, T) = Total(w, Coins)
      BY <2>8, <2>9, <3>2, CoinsAssumption, TotalPart
    <3>4. QED
      BY <3>1, <3>3
  <2>11. Total(w, Coins) + Owing(Below(s)) = asked
    BY <2>1, <2>3, <2>6 DEF LedgerNow, Ledger
  <2>12. Owing(Below(s)) = 0
    BY <2>4, ScrLemma DEF Owing
  <2>13. PICK v \in Int : v = Total(w, Coins) /\ v + 0 = v
    BY <2>8, CoinsAssumption, TotalInt
  <2>14. QED
    BY <2>7, <2>10, <2>11, <2>12, <2>13
<1>4. QED
  BY <1>1, <1>2, <1>3, PTL DEF Spec
=============================================================================
