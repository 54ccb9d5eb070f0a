------------------------------- MODULE Items -------------------------------
(***************************************************************************)
(* The items of the server (ItemManager, and the parts of Item,            *)
(* CritterManager and Map that put an item into a holder and take it out). *)
(* An operation calls scripts at several points (OnItemCheckMove,          *)
(* OnCritterMoveItem, OnItemFinish, OnItemStackChanged, the init scripts   *)
(* and the events of those who see the map), and the script may start      *)
(* other operations on the same items before the first one goes on.        *)
(*                                                                         *)
(* The stack holds the calls under way, the innermost first: a frame says  *)
(* what its function still has to do.  A "script" frame is a callback that *)
(* runs; an operation starts on an empty stack or on top of a script.      *)
(***************************************************************************)
EXTENDS Integers, Sequences, SequencesExt, Functions

CONSTANTS
    Coins,     \* the items of a prototype that stacks
    Bags,      \* items that contain others and do not stack
    Critters, Maps,
    Nowhere,
    Start,     \* where the items are at first; Nowhere: not created yet
    StartCount,
    Counts,    \* the counts that scripts ask for
    MaxCalls   \* bound: how many operations are started

Things == Coins \cup Bags
Holders == Bags \cup Critters \cup Maps

ASSUME KindsAssumption == /\ Coins \cap Bags = {} /\ Critters \cap Maps = {}
                          /\ Things \cap (Critters \cup Maps) = {}
                          /\ Nowhere \notin Things \cup Holders
ASSUME StartAssumption == /\ Start \in [Things -> Holders \cup {Nowhere}]
                          /\ StartCount \in Nat \ {0}
(* A count of 0, which stands for all, is replaced before (Server_Game_MoveItem). *)
ASSUME CountsAssumption == Counts \subseteq Nat \ {0}
ASSUME MaxCallsAssumption == MaxCalls \in Nat
(* The items that there may be are counted. *)
ASSUME CoinsAssumption == IsFiniteSet(Coins)

VARIABLES
    life,      \* "free" (not created yet), "live", "destroying" or "destroyed"
    own,       \* Ownership, with the identifier of the holder
    inside,    \* _invItems, _items and _innerItems
    count,     \* Count
    stack,     \* the calls under way
    thrown,    \* history: an assertion failed or an owner was not found
    asked,     \* history: the coins that scripts have added, less those they have destroyed
    broken,    \* history: a script has changed what a call under way relies on
    calls

items == <<life, own, inside, count>>
vars == <<items, stack, thrown, asked, broken, calls>>

Init ==
    /\ life = [i \in Things |-> IF Start[i] = Nowhere THEN "free" ELSE "live"]
    /\ own = Start
    /\ inside = [h \in Holders |-> {i \in Things : Start[i] = h}]
    /\ count = [i \in Things |-> IF i \in Coins /\ Start[i] # Nowhere THEN StartCount ELSE 1]
    /\ asked = StartCount * Cardinality({i \in Coins : Start[i] # Nowhere})
    /\ stack = <<>> /\ thrown = FALSE /\ broken = FALSE /\ calls = 0

Pcs == {"jobs", "script", "OnItemCheckMove", "checked", "split", "created", "add", "merge", "destroy", "tear", "inner"}
Frame(pc, item) == [pc |-> pc, item |-> item, to |-> Nowhere, from |-> Nowhere, n |-> 0]
Script(event) == Frame(event, Nowhere)
IsScript(f) == f.pc \in {"jobs", "script", "OnItemCheckMove"}
Top == IF stack = <<>> THEN Script("jobs") ELSE Head(stack)
At(pc) == Top.pc = pc
GoTo(frames) == stack' = frames \o Tail(stack) /\ UNCHANGED <<thrown, calls>>

(* The innermost callback that runs, or 0.                                 *)
Callback == SelectInSeq(stack, IsScript)

(* An exception ends the calls up to the callback that made them: the      *)
(* event reports it and goes on.                                           *)
Throw ==
    /\ thrown' = TRUE
    /\ stack' = IF Callback = 0 THEN <<>> ELSE SubSeq(stack, Callback, Len(stack))
    /\ UNCHANGED calls

KindOf(h) == CASE h \in Bags -> "bag" [] h \in Critters -> "critter" [] h \in Maps -> "map" [] OTHER -> "none"

(* A destroyed container is no longer registered.                          *)
GetItemHolder(i) == IF own[i] \in Bags /\ life[own[i]] = "destroyed" THEN Nowhere ELSE own[i]

(* A container forgets its item without a callback, a critter and a map    *)
(* run scripts.                                                            *)
Callbacks(h) == IF h \in Bags THEN <<>> ELSE <<Script("script")>>

(* Mutant: a container does not take the item out of its list.             *)
RemoveItemHolderKeepsList(i, h, rest) ==
    /\ own' = [own EXCEPT ![i] = Nowhere]
    /\ inside' = IF h \in Bags THEN inside ELSE [inside EXCEPT ![h] = @ \ {i}]
    /\ GoTo(Callbacks(h) \o rest)

(* The item leaves the holder; what the callback leaves of the call comes  *)
(* after it.  A container resets the owner before it looks for the item.   *)
(* No script can give the item an owner before it is Nowhere once more.    *)
RemoveItemHolder(i, h, rest) ==
    LET known == KindOf(own[i]) = KindOf(h) IN
    \/ own[i] = Nowhere /\ GoTo(rest) /\ UNCHANGED <<own, inside>>
    \/ /\ own[i] # Nowhere /\ known /\ i \in inside[h]
       /\ own' = [own EXCEPT ![i] = Nowhere]
       /\ inside' = [inside EXCEPT ![h] = @ \ {i}]
       /\ GoTo(Callbacks(h) \o rest)
    \/ /\ own[i] # Nowhere /\ ~(known /\ i \in inside[h])
       /\ own' = [own EXCEPT ![i] = IF known /\ h \in Bags /\ inside[h] # {} THEN Nowhere ELSE @]
       /\ Throw /\ UNCHANGED inside

(* AddItemToCritter, Map::AddItem and AddItemToContainer: a stack of the   *)
(* same prototype takes the coins of the item, which is destroyed.         *)
Stacks(i, h) == IF i \in Coins /\ h \notin Maps THEN inside[h] \cap Coins ELSE {}
AddItemTo(h, i) ==
    \/ \E already \in Stacks(i, h) :
         /\ GoTo(<<Frame("destroy", i), [Frame("merge", already) EXCEPT !.n = count[i]]>>)
         /\ UNCHANGED <<own, inside>>
    \/ /\ Stacks(i, h) = {}
       /\ own' = IF h \in Bags /\ i \in inside[h] THEN own ELSE [own EXCEPT ![i] = h]
       /\ inside' = [inside EXCEPT ![h] = @ \cup {i}]
       /\ IF i \in inside[h] THEN Throw ELSE GoTo(Callbacks(h))

(* CreateItem up to its init scripts, which the frame comes after; it may  *)
(* fail, as it does here when the items run out.                           *)
Free == {i \in Coins : life[i] = "free"}
NewItem == CHOOSE i \in Free : TRUE
CreateItem(n) ==
    /\ Free # {}
    /\ life' = [life EXCEPT ![NewItem] = "live"]
    /\ count' = [count EXCEPT ![NewItem] = n]

-----------------------------------------------------------------------------
(* What scripts call, from a callback or from any other job.  They cannot  *)
(* pass an entity that is destroyed.                                       *)
Call(frames) ==
    /\ IsScript(Top)
    /\ calls < MaxCalls
    /\ calls' = calls + 1
    /\ stack' = frames \o stack
    /\ UNCHANGED thrown

Exists(h) == h \in Things => life[h] \in {"live", "destroying"}

(* Mutant: without the return for an item that is nowhere.                 *)
MoveItemFromNowhere(i, n, to, skipChecks) ==
    /\ Exists(i) /\ Exists(to) /\ n <= count[i] /\ own[i] # to
    /\ LET move == [Frame("checked", i) EXCEPT !.n = n, !.to = to, !.from = GetItemHolder(i)]
       IN Call((IF skipChecks THEN <<>> ELSE <<Script("OnItemCheckMove")>>) \o <<move>>)
    /\ UNCHANGED <<items, asked>>

MoveItem(i, n, to, skipChecks) ==
    /\ Exists(i) /\ Exists(to) /\ n <= count[i]
    /\ own[i] # to /\ GetItemHolder(i) # Nowhere
    /\ LET move == [Frame("checked", i) EXCEPT !.n = n, !.to = to, !.from = GetItemHolder(i)]
       IN Call((IF skipChecks THEN <<>> ELSE <<Script("OnItemCheckMove")>>) \o <<move>>)
    /\ UNCHANGED <<items, asked>>

SetCount(i, n) == count' = [count EXCEPT ![i] = n]

(* Mutant: the last coin may be taken out of a stack that stays.           *)
DestroyItemKeepsEmpty(i, n) ==
    /\ Exists(i)
    /\ \/ n <= count[i] /\ Call(<<Script("script")>>) /\ SetCount(i, count[i] - n) /\ asked' = asked - n
       \/ n > count[i] /\ Call(<<[Frame("destroy", i) EXCEPT !.n = 1]>>) /\ UNCHANGED <<count, asked>>
    /\ UNCHANGED <<life, own, inside>>

(* DestroyItem and SubItemCritter.                                         *)
DestroyItem(i, n) ==
    /\ Exists(i)
    /\ \/ n < count[i] /\ Call(<<Script("script")>>) /\ SetCount(i, count[i] - n) /\ asked' = asked - n
       \/ n >= count[i] /\ Call(<<[Frame("destroy", i) EXCEPT !.n = 1]>>) /\ UNCHANGED <<count, asked>>
    /\ UNCHANGED <<life, own, inside>>

(* AddItemCritter, AddItemContainer and CreateItemOnHex, for coins.        *)
AddItem(h, n) ==
    /\ Exists(h)
    /\ asked' = asked + n
    /\ LET held == IF h \in Maps THEN {} ELSE inside[h] \cap Coins IN
       \/ \E already \in held :
            Call(<<Script("script")>>) /\ SetCount(already, count[already] + n) /\ UNCHANGED life
       \/ /\ held = {}
          /\ CreateItem(n)
          /\ Call(<<Script("script"), [Frame("created", NewItem) EXCEPT !.to = h]>>)
    /\ UNCHANGED <<own, inside>>

-----------------------------------------------------------------------------
(* The callbacks.                                                          *)
ScriptReturns == stack # <<>> /\ IsScript(Top) /\ GoTo(<<>>) /\ UNCHANGED <<items, asked>>

MoveRefused ==
    /\ At("OnItemCheckMove")
    /\ stack' = Tail(Tail(stack))
    /\ UNCHANGED <<items, asked, thrown, calls>>

(* The second part of MoveItem: the holder is the one from before the      *)
(* check.                                                                  *)
IsWhole(f) == f.n >= count[f.item] \/ f.item \in Bags
MoveWhole ==
    /\ At("checked") /\ IsWhole(Top)
    /\ RemoveItemHolder(Top.item, Top.from, <<[Top EXCEPT !.pc = "add"]>>)
    /\ UNCHANGED <<life, count, asked>>

(* SplitItem, up to the scripts of the new item.                           *)
SplitItem ==
    /\ At("checked") /\ ~IsWhole(Top)
    /\ \/ /\ CreateItem(Top.n)
          /\ GoTo(<<Script("script"),
                    [Top EXCEPT !.pc = "split", !.from = NewItem, !.n = count[Top.item] - Top.n]>>)
       \/ Free = {} /\ GoTo(<<>>) /\ UNCHANGED <<life, count>>
    /\ UNCHANGED <<own, inside, asked>>

(* The rest of SplitItem: the count is the one from before the scripts.  A *)
(* script that destroys the new item destroys coins that nobody has lost.   *)
SplitDone ==
    /\ At("split")
    /\ \/ /\ life[Top.from] = "destroyed"
          /\ asked' = asked + count[Top.item] - Top.n
          /\ GoTo(<<>>) /\ UNCHANGED count
       \/ /\ life[Top.from] # "destroyed" /\ own[Top.from] = Nowhere
          /\ SetCount(Top.item, Top.n)
          /\ GoTo(<<Script("script"), [Frame("add", Top.from) EXCEPT !.to = Top.to]>>)
          /\ UNCHANGED asked
       \/ /\ life[Top.from] # "destroyed" /\ own[Top.from] # Nowhere
          /\ Throw /\ UNCHANGED <<count, asked>>
    /\ UNCHANGED <<life, own, inside>>

Created ==
    /\ At("created")
    /\ IF life[Top.item] = "destroyed" THEN GoTo(<<>>) ELSE GoTo(<<[Top EXCEPT !.pc = "add"]>>)
    /\ UNCHANGED <<items, asked>>

Add == At("add") /\ AddItemTo(Top.to, Top.item) /\ UNCHANGED <<life, count, asked>>

(* Mutant: the coins replace those of the stack.                           *)
MergeReplaces ==
    /\ At("merge")
    /\ SetCount(Top.item, Top.n)
    /\ GoTo(<<Script("script")>>)
    /\ UNCHANGED <<life, own, inside, asked>>

Merge ==
    /\ At("merge")
    /\ SetCount(Top.item, count[Top.item] + Top.n)
    /\ GoTo(<<Script("script")>>)
    /\ UNCHANGED <<life, own, inside, asked>>

-----------------------------------------------------------------------------
(* DestroyItem.                                                            *)
BeginDestroy ==
    /\ At("destroy")
    /\ \/ /\ life[Top.item] = "live"
          /\ life' = [life EXCEPT ![Top.item] = "destroying"]
          /\ GoTo(<<Script("script"), [Top EXCEPT !.pc = "tear"]>>)
       \/ life[Top.item] # "live" /\ GoTo(<<>>) /\ UNCHANGED life
    /\ UNCHANGED <<own, inside, count, asked>>

InnerItems(i) == IF i \in Bags THEN inside[i] ELSE {}

(* One round of the loop: out of the holder, then all that is inside.      *)
TearOff ==
    /\ At("tear") /\ own[Top.item] # Nowhere
    /\ RemoveItemHolder(Top.item, GetItemHolder(Top.item), <<[Top EXCEPT !.pc = "inner"]>>)
    /\ UNCHANGED <<life, count, asked>>

DestroyInner ==
    /\ At("inner") \/ (At("tear") /\ own[Top.item] = Nowhere)
    /\ \E i \in InnerItems(Top.item) :
         GoTo(<<[Frame("destroy", i) EXCEPT !.n = Top.n], [Top EXCEPT !.pc = "inner"]>>)
    /\ UNCHANGED <<items, asked>>

NextRound ==
    /\ At("inner") /\ InnerItems(Top.item) = {} /\ own[Top.item] # Nowhere
    /\ GoTo(<<[Top EXCEPT !.pc = "tear"]>>)
    /\ UNCHANGED <<items, asked>>

EndDestroy ==
    /\ At("inner") \/ At("tear")
    /\ own[Top.item] = Nowhere /\ InnerItems(Top.item) = {}
    /\ life' = [life EXCEPT ![Top.item] = "destroyed"]
    /\ asked' = IF Top.item \in Coins THEN asked - Top.n * count[Top.item] ELSE asked
    /\ GoTo(<<>>)
    /\ UNCHANGED <<own, inside, count>>

-----------------------------------------------------------------------------
(* What a call under way relies on, so that scripts must leave it as it    *)
(* is: the entities it goes on with must not be destroyed, nor the holder  *)
(* of what is being destroyed; an item that awaits the check or is being   *)
(* destroyed must stay where it is; and what is being split or destroyed   *)
(* must keep its count.  Nothing in the code says or enforces this.        *)
Uses(f) ==
    CASE f.pc = "created" -> {f.to}
      [] f.pc \in {"tear", "inner"} -> {f.item, own[f.item]}
      [] OTHER -> {f.item, f.to}

Held(f) ==
    ((Uses(f) \cap Things) \X {"life"})
    \cup (IF f.pc \in {"checked", "tear", "inner"} THEN {<<f.item, "own">>} ELSE {})
    \cup (IF f.pc \in {"split", "tear", "inner"} THEN {<<f.item, "count">>} ELSE {})

HeldBelow == IF Callback = 0 THEN {} ELSE UNION {Held(stack[k]) : k \in Callback + 1..Len(stack)}

Touches ==
    \E held \in HeldBelow :
        LET i == held[1] IN
        \/ held[2] = "life" /\ life'[i] # life[i]
        \/ held[2] = "own" /\ own'[i] # own[i]
        \/ held[2] = "count" /\ count'[i] # count[i]

Watch == broken' = (broken \/ Touches)

Scripts ==
    \/ \E i \in Things, n \in Counts, to \in Holders, skipChecks \in BOOLEAN : MoveItem(i, n, to, skipChecks)
    \/ \E i \in Things, n \in Counts : DestroyItem(i, n)
    \/ \E h \in Holders, n \in Counts : AddItem(h, n)

Engine ==
    \/ ScriptReturns \/ MoveRefused
    \/ MoveWhole \/ SplitItem \/ SplitDone \/ Created \/ Add \/ Merge
    \/ BeginDestroy \/ TearOff \/ DestroyInner \/ NextRound \/ EndDestroy

Next == (Scripts \/ Engine) /\ Watch

Spec == Init /\ [][Next]_vars

(* Functions go on and scripts return.                                     *)
FairSpec == Spec /\ WF_vars(Engine /\ Watch)

-----------------------------------------------------------------------------
TypeOK ==
    /\ life \in [Things -> {"free", "live", "destroying", "destroyed"}]
    /\ own \in [Things -> Holders \cup {Nowhere}]
    /\ inside \in [Holders -> SUBSET Things]
    /\ count \in [Things -> Nat \ {0}]
    /\ stack \in Seq([pc : Pcs, item : Things \cup {Nowhere}, to : Holders \cup {Nowhere},
                      from : Things \cup Holders \cup {Nowhere}, n : Nat])
    /\ thrown \in BOOLEAN /\ broken \in BOOLEAN

(* Whatever scripts do in the callbacks, as long as they leave alone what  *)
(* the calls under way rely on: an item is in the list of the holder that  *)
(* it names and in no other, also while it is being moved or destroyed; no *)
(* destroyed item or container is left in a list; and when all calls have  *)
(* returned no item is lost or half destroyed.                             *)
Placed ==
    /\ \A h \in Holders, i \in Things : i \in inside[h] <=> own[i] = h
    /\ \A i \in Things : life[i] \in {"free", "destroyed"} => own[i] = Nowhere
    /\ \A i \in Things : own[i] \in Bags => life[own[i]] # "destroyed"
    /\ stack = <<>> => \A i \in Things : life[i] # "destroying" /\ (life[i] = "live" => own[i] # Nowhere)

(* Nor does an assertion of the managers fail then: the item that is taken *)
(* out is in the list, the one that is put in is not, a new one has no     *)
(* owner.                                                                  *)
Orderly == ~broken => ~thrown /\ Placed

(* Moving, splitting and merging stacks neither makes nor loses coins,     *)
(* although the counts are read before callbacks and written after them.   *)
Coined == {i \in Coins : life[i] \in {"live", "destroying"}}
CoinsKept == ~broken /\ stack = <<>> => FoldFunctionOnSet(+, 0, count, Coined) = asked

(* Every call returns.  Where a script has broken what a call under way    *)
(* relies on there is one exception, and only one: the loop of DestroyItem *)
(* over what is inside a container spins on an item that is being          *)
(* destroyed further down the stack, or was destroyed in the callbacks of  *)
(* the move that put it there, since to destroy it again does nothing.     *)
(* (Scripts that make the next call from every callback for ever are       *)
(* excluded by MaxCalls.)                                                  *)
Spinning == At("inner") /\ \E i \in InnerItems(Top.item) : life[i] # "live"
Returns == []<>(stack = <<>> \/ (broken /\ Spinning))
=============================================================================
