------------------------------ MODULE Critters ------------------------------
(***************************************************************************)
(* Critters on maps (MapManager, CritterManager and the parts of Critter,  *)
(* Map and FOServer they call): transfers between maps and the global map, *)
(* who sees whom, critters attached to others, and the destruction of      *)
(* critters and of a location with its maps.  Every one of these calls     *)
(* scripts in the middle of its work, and the scripts may start the others *)
(* on the same critters.                                                   *)
(*                                                                         *)
(* As in Items, the stack holds the calls under way, the innermost first,  *)
(* and a frame says what its function still has to do.  Hexes, groups on   *)
(* the global map and what is sent to players are left out; whether one    *)
(* critter sees another one is any answer.                                 *)
(***************************************************************************)
EXTENDS Integers, Sequences, SequencesExt

CONSTANTS
    Npcs, Players,
    Maps,      \* the maps of the location
    Global, Nowhere,
    Start,     \* where the critters are at first
    Convoy,    \* and to whom they are attached
    MaxCalls   \* bound: how many operations are started

Critters == Npcs \cup Players

ASSUME PlacesAssumption == /\ Global \notin Maps \cup Critters
                           /\ Nowhere \notin Maps \cup Critters \cup {Global}
ASSUME CrittersAssumption == IsFiniteSet(Critters)
ASSUME StartAssumption == /\ Start \in [Critters -> Maps \cup {Global}]
                          /\ Convoy \in [Critters -> Critters \cup {Nowhere}]
                          /\ \A c \in Critters : Convoy[c] # Nowhere =>
                               Start[c] = Start[Convoy[c]] /\ Convoy[Convoy[c]] = Nowhere
ASSUME MaxCallsAssumption == MaxCalls \in Nat

Places == Maps \cup {Global, Nowhere}
Lives == {"live", "destroying", "destroyed"}

VARIABLES
    life,      \* of a critter
    world,     \* of the location and its maps
    place,     \* MapId; Global: a GlobalMapGroup
    on,        \* _critters of a map
    sees,      \* VisCrSelf and VisCr: <<x, y>> if x sees y
    master,    \* IsAttached and AttachMaster, AttachedCritters; Nowhere: not attached
    carries,   \* whether it has items
    stack,     \* the calls under way
    failed,    \* history: an assertion failed
    broken,    \* history: a script has changed what a call under way relies on
    calls

critters == <<life, place, on, sees, master, carries>>
vars == <<critters, world, stack, failed, broken, calls>>

Init ==
    /\ life = [c \in Critters |-> "live"] /\ world = "live"
    /\ place = Start /\ on = [m \in Maps |-> {c \in Critters : Start[c] = m}]
    /\ sees = {p \in Critters \X Critters : p[1] # p[2] /\ Start[p[1]] \in Maps /\ Start[p[1]] = Start[p[2]]}
    /\ master = Convoy /\ carries = [c \in Critters |-> c \in Npcs]
    /\ stack = <<>> /\ failed = FALSE /\ broken = FALSE /\ calls = 0

MapId(c) == IF place[c] \in Maps THEN place[c] ELSE Nowhere
AttachedCritters(c) == {a \in Critters : master[a] = c}
(* Mutant: only those that are attached to the critter are detached.       *)
AloneStaysAttached(c) == [a \in Critters |-> IF master[a] = c THEN Nowhere ELSE master[a]]

(* DetachFromCritter for the critter and for all that are attached to it.  *)
Alone(c) == [a \in Critters |-> IF a = c \/ master[a] = c THEN Nowhere ELSE master[a]]

(* Mutant: the critter is forgotten by the others, but does not forget them. *)
UnseenByOthers(c) == {p \in sees : c # p[2]}

(* ClearVisible.                                                           *)
Unseen(c) == {p \in sees : c \notin {p[1], p[2]}}

Frame(pc, c) == [pc |-> pc, c |-> c, from |-> Nowhere, to |-> Nowhere, left |-> {}, all |-> {}, since |-> 0]
Script == Frame("script", Nowhere)
Top == IF stack = <<>> THEN Frame("jobs", Nowhere) ELSE Head(stack)
At(pc) == Top.pc = pc
InScript == Top.pc \in {"jobs", "script"}
GoTo(frames) == stack' = frames \o Tail(stack) /\ UNCHANGED <<failed, calls>>
Then(pc) == [Top EXCEPT !.pc = pc]

(* LockMapTransfers is counted up by the calls that move the critter.      *)
Transfer == {"arrive", "arrived", "train"}
Moving == Transfer \cup {"transit", "leave", "left", "gone", "tear", "round", "detach"}
Locks(frames) == {frames[k].c : k \in {j \in DOMAIN frames : frames[j].pc \in Moving}}

(* An exception ends the calls up to the callback that made them.          *)
Callback == SelectInSeq(stack, LAMBDA f : f.pc = "script")
Abort == stack' = (IF Callback = 0 THEN <<>> ELSE SubSeq(stack, Callback, Len(stack))) /\ UNCHANGED calls
Refuse == Abort /\ UNCHANGED failed
Fail == Abort /\ failed' = TRUE

-----------------------------------------------------------------------------
(* What scripts call, from a callback or from any other job.  They cannot  *)
(* pass an entity that is destroyed, and a call that is refused at once is *)
(* left out: a transfer of a locked critter, an attachment across maps.    *)
Call(frames) ==
    /\ InScript /\ calls < MaxCalls
    /\ calls' = calls + 1
    /\ stack' = frames \o stack
    /\ UNCHANGED failed

Exists(c) == life[c] # "destroyed"

TransitTo(c, to) ==
    /\ Exists(c) /\ c \notin Locks(stack)
    /\ IF to = Global THEN place[c] \in Maps ELSE world # "destroyed"
    /\ Call(<<[Frame("transit", c) EXCEPT !.to = to, !.since = calls + 1]>>)
    /\ UNCHANGED <<critters, world>>

(* Mutant: a critter can be attached to itself.                            *)
AttachToCritterItself(c, cr) ==
    /\ Exists(c) /\ Exists(cr) /\ MapId(c) = MapId(cr)
    /\ master[cr] = Nowhere /\ AttachedCritters(c) = {} /\ master[c] # cr
    /\ master' = [master EXCEPT ![c] = cr]
    /\ Call(<<Frame("look", c), Frame("move", cr)>>)
    /\ UNCHANGED <<life, place, on, sees, carries, world>>

(* Server_Critter_AttachToCritter with AttachToCritter.                    *)
AttachToCritter(c, cr) ==
    /\ Exists(c) /\ Exists(cr) /\ c # cr /\ MapId(c) = MapId(cr)
    /\ master[cr] = Nowhere /\ AttachedCritters(c) = {} /\ master[c] # cr
    /\ master' = [master EXCEPT ![c] = cr]
    /\ Call(<<Frame("look", c), Frame("move", cr)>>)
    /\ UNCHANGED <<life, place, on, sees, carries, world>>

DetachFromCritter(c) ==
    /\ Exists(c) /\ master[c] # Nowhere
    /\ master' = [master EXCEPT ![c] = Nowhere]
    /\ Call(<<Frame("look", c)>>)
    /\ UNCHANGED <<life, place, on, sees, carries, world>>

DestroyCritter(c) ==
    /\ Exists(c) /\ Call(<<Frame("destroy", c)>>)
    /\ UNCHANGED <<critters, world>>

UnloadCritter(c) ==
    /\ life[c] = "live"
    /\ life' = [life EXCEPT ![c] = "destroying"]
    /\ Call(<<Script, Frame("unload", c)>>)
    /\ UNCHANGED <<place, on, sees, master, carries, world>>

DestroyLocation ==
    /\ world = "live" /\ world' = "destroying"
    /\ Call(<<Script, [Frame("clear", Nowhere) EXCEPT !.left = Maps]>>)
    /\ UNCHANGED critters

(* AddItemCritter, see Items.                                              *)
AddItem(c) ==
    /\ Exists(c) /\ ~carries[c]
    /\ carries' = [carries EXCEPT ![c] = TRUE]
    /\ Call(<<Script>>)
    /\ UNCHANGED <<life, place, on, sees, master, world>>

ScriptReturns == At("script") /\ GoTo(<<>>) /\ UNCHANGED <<critters, world>>

-----------------------------------------------------------------------------
(* Transit: it detaches the critter and those attached to it, which follow *)
(* it at the end.                                                          *)
TransitLocked == At("transit") /\ Top.c \in Locks(Tail(stack)) /\ Refuse /\ UNCHANGED <<critters, world>>

Registered(c) == place[c] \in Maps => world # "destroyed"

Transit ==
    /\ At("transit") /\ Top.c \notin Locks(Tail(stack))
    /\ LET c == Top.c
           moved(pc) == [Top EXCEPT !.pc = pc, !.from = MapId(c),
                                    !.left = AttachedCritters(c), !.all = AttachedCritters(c)]
       IN \/ /\ ~Registered(c) /\ Fail /\ UNCHANGED <<master, sees>>
          \/ /\ Registered(c) /\ Top.to # place[c]
             /\ GoTo(<<Frame("leave", c), moved("arrive")>>)
             /\ master' = Alone(c) /\ UNCHANGED sees
          \/ /\ Registered(c) /\ Top.to = place[c]
             /\ GoTo((IF Top.to = Global THEN <<>> ELSE <<Frame("look", c)>>) \o <<moved("train")>>)
             /\ master' = Alone(c) /\ sees' = IF Top.to = Global THEN sees ELSE Unseen(c)
    /\ UNCHANGED <<life, place, on, carries, world>>

(* AddCritterToMap.                                                        *)
Arrive ==
    /\ At("arrive")
    /\ GoTo(<<Script, Then("arrived")>>)
    /\ place' = [place EXCEPT ![Top.c] = Top.to]
    /\ on' = [m \in Maps |-> IF m = Top.to THEN on[m] \cup {Top.c} ELSE on[m]]
    /\ UNCHANGED <<life, sees, master, carries, world>>

Arrived ==
    /\ At("arrived")
    /\ IF Exists(Top.c) THEN GoTo(<<Frame("look", Top.c), Then("train")>>) ELSE GoTo(<<>>)
    /\ UNCHANGED <<critters, world>>

(* Those who were attached follow, each with a Transit of its own.         *)
(* Mutant: the place where the critter has arrived is asked for.           *)
FollowsFromThere(a) == Exists(Top.c) /\ Exists(a) /\ master[a] = Nowhere /\ MapId(a) = MapId(Top.c)

Follows(a) == Exists(Top.c) /\ Exists(a) /\ master[a] = Nowhere /\ MapId(a) = Top.from
Follow ==
    /\ At("train")
    /\ \E a \in Top.left :
         GoTo((IF Follows(a) THEN <<[Frame("transit", a) EXCEPT !.to = Top.to, !.since = Top.since]>> ELSE <<>>)
              \o <<[Top EXCEPT !.left = @ \ {a}]>>)
    /\ UNCHANGED <<critters, world>>

(* They are attached again, unless scripts have come between.              *)
Rejoin ==
    /\ At("train") /\ Top.left = {}
    /\ LET c == Top.c
           joins(a) == a \in Top.all /\ Exists(a) /\ master[a] = Nowhere
                       /\ AttachedCritters(a) = {} /\ MapId(a) = MapId(c)
       IN IF Exists(c) /\ master[c] = Nowhere /\ Top.all # {}
          THEN /\ master' = [a \in Critters |-> IF joins(a) THEN c ELSE master[a]]
               /\ GoTo(<<Frame("move", c), Frame("look", c)>>)
          ELSE GoTo(<<>>) /\ UNCHANGED master
    /\ UNCHANGED <<life, place, on, sees, carries, world>>

-----------------------------------------------------------------------------
(* RemoveCritterFromMap: the scripts of the map, then of those who saw the *)
(* critter, then the critter is gone.                                      *)
Leave ==
    /\ At("leave")
    /\ IF place[Top.c] = Nowhere THEN Fail ELSE GoTo(<<Script, [Then("left") EXCEPT !.from = place[Top.c]]>>)
    /\ UNCHANGED <<critters, world>>

Left ==
    /\ At("left")
    /\ LET seen == \E x \in Critters : <<x, Top.c>> \in sees
       IN GoTo((IF seen THEN <<Script>> ELSE <<>>) \o <<Then("gone")>>)
    /\ UNCHANGED <<critters, world>>

(* A critter that a callback has destroyed is no longer in the list (or in *)
(* a group, of which the pointer is null then).                            *)
Gone ==
    /\ At("gone")
    /\ LET c == Top.c  m == Top.from IN
       /\ sees' = IF m = Global THEN sees ELSE Unseen(c)
       /\ on' = [n \in Maps |-> on[n] \ (IF n = m THEN {c} ELSE {})]
       /\ IF place[c] = m THEN GoTo(<<>>) /\ place' = [place EXCEPT ![c] = Nowhere]
                           ELSE Fail /\ UNCHANGED place
    /\ UNCHANGED <<life, master, carries, world>>

-----------------------------------------------------------------------------
(* ProcessVisibleCritters and ProcessCritterLook.                          *)
Pairs(c, others) == {<<c, x>> : x \in others \ {c}} \cup {<<x, c>> : x \in others \ {c}}
StartLook ==
    /\ At("look")
    /\ LET c == Top.c IN
       \/ (~Exists(c) \/ place[c] = Global \/ Top.from \notin {Nowhere, place[c]}) /\ GoTo(<<>>)
       \/ /\ Exists(c) /\ place[c] \in Maps /\ Registered(c) /\ Top.from \in {Nowhere, place[c]}
          /\ GoTo(<<[Then("looking") EXCEPT !.to = place[c], !.left = Pairs(c, on[place[c]])]>>)
       \/ Exists(c) /\ (place[c] = Nowhere \/ ~Registered(c)) /\ Top.from = Nowhere /\ Fail
    /\ UNCHANGED <<critters, world>>

MaySee(p) == world # "destroyed" /\ \A x \in {p[1], p[2]} : Exists(x) /\ place[x] = Top.to

(* What each is found to see is any answer, and so is the order; the looks  *)
(* that change nothing are not steps of their own.  A critter is also seen *)
(* if one is that is attached to it.                                       *)
Look ==
    /\ At("looking")
    /\ \E p \in Top.left :
         /\ MaySee(p)
         /\ \/ /\ \A a \in AttachedCritters(p[2]) : MapId(a) = Top.to
               /\ sees' = IF p \in sees THEN sees \ {p} ELSE sees \cup {p}
               /\ GoTo(<<Script, [Top EXCEPT !.left = @ \ {p}]>>)
            \/ /\ \E a \in AttachedCritters(p[2]) : MapId(a) # Top.to
               /\ Fail /\ UNCHANGED sees
    /\ UNCHANGED <<life, place, on, master, carries, world>>

EndLook == At("looking") /\ GoTo(<<>>) /\ UNCHANGED <<critters, world>>

(* MoveAttachedCritters: those of the attached that have changed the hex   *)
(* look around.                                                            *)
MoveAttachedCritters ==
    /\ At("move")
    /\ LET c == Top.c
           looks == {[Frame("look", a) EXCEPT !.from = place[c]] : a \in AttachedCritters(c)}
       IN IF place[c] \in Maps /\ \E a \in AttachedCritters(c) : ~Exists(a) \/ MapId(a) # place[c]
          THEN Fail
          ELSE GoTo(IF place[c] \in Maps THEN SetToSeq(looks) ELSE <<>>)
    /\ UNCHANGED <<critters, world>>

-----------------------------------------------------------------------------
(* CritterManager::DestroyCritter: rounds until nothing is left of it.     *)
BeginDestroy ==
    /\ At("destroy")
    /\ IF life[Top.c] = "live"
       THEN life' = [life EXCEPT ![Top.c] = "destroying"] /\ GoTo(<<Script, Then("finish")>>)
       ELSE GoTo(<<>>) /\ UNCHANGED life
    /\ UNCHANGED <<place, on, sees, master, carries, world>>

IsTorn(c) == place[c] = Nowhere /\ ~carries[c] /\ master[c] = Nowhere /\ AttachedCritters(c) = {}

Round ==
    /\ At("finish") \/ At("tear")
    /\ ~IsTorn(Top.c)
    /\ GoTo(<<Then("round")>>)
    /\ UNCHANGED <<critters, world>>

(* DestroyInventory, which goes on until there is no item.                 *)
DestroyInventory ==
    /\ At("round") /\ carries[Top.c]
    /\ carries' = [carries EXCEPT ![Top.c] = FALSE]
    /\ GoTo(<<Script, Top>>)
    /\ UNCHANGED <<life, place, on, sees, master, world>>

TearOff ==
    /\ At("round") /\ ~carries[Top.c]
    /\ IF place[Top.c] # Nowhere /\ Registered(Top.c) THEN GoTo(<<Frame("leave", Top.c), Then("detach")>>) ELSE Fail
    /\ UNCHANGED <<critters, world>>

Detach ==
    /\ At("detach")
    /\ master' = Alone(Top.c)
    /\ GoTo(<<Then("tear")>>)
    /\ UNCHANGED <<life, place, on, sees, carries, world>>

EndDestroy ==
    /\ At("finish") \/ At("tear")
    /\ IsTorn(Top.c)
    /\ life' = [life EXCEPT ![Top.c] = "destroyed"]
    /\ GoTo(<<>>)
    /\ UNCHANGED <<place, on, sees, master, carries, world>>

(* FOServer::UnloadCritter.                                                *)
Unload ==
    /\ At("unload")
    /\ IF Exists(Top.c) /\ Registered(Top.c) THEN GoTo(<<Frame("leave", Top.c), Then("unloaded")>>) ELSE Fail
    /\ UNCHANGED <<critters, world>>

Unloaded ==
    /\ At("unloaded")
    /\ IF Exists(Top.c)
       THEN /\ master' = Alone(Top.c)
            /\ life' = [life EXCEPT ![Top.c] = "destroyed"]
            /\ carries' = [carries EXCEPT ![Top.c] = FALSE]
            /\ GoTo(<<>>)
       ELSE Fail /\ UNCHANGED <<master, life, carries>>
    /\ UNCHANGED <<place, on, sees, world>>

-----------------------------------------------------------------------------
(* DestroyLocation with DestroyMapContent, map after map until it is empty: *)
(* the players go to the global map (KickPlayersToGlobalMap), a copy of    *)
(* the list of the others is destroyed one by one, also those that scripts *)
(* have taken away meanwhile; a pointer to one that is destroyed already   *)
(* is not valid any more.  What cannot be removed ends the call (the       *)
(* detector of endless loops).                                             *)
ClearMap ==
    /\ At("clear") /\ Top.all = {}
    /\ \E m \in Top.left :
         /\ Top.to \in {Nowhere, m}
         /\ LET here == [Top EXCEPT !.to = m] IN
            \/ \E p \in on[m] \cap Players : GoTo(<<[Frame("transit", p) EXCEPT !.to = Global], here>>)
            \/ on[m] # {} /\ on[m] \subseteq Npcs /\ GoTo(<<[here EXCEPT !.all = on[m]]>>)
            \/ on[m] # {} /\ \A n \in on[m] : n \in Npcs /\ life[n] # "live" /\ Refuse
            \/ on[m] = {} /\ GoTo(<<[Top EXCEPT !.to = Nowhere, !.left = @ \ {m}]>>)
    /\ UNCHANGED <<critters, world>>

ClearNpc ==
    /\ At("clear")
    /\ \E n \in Top.all :
         IF Exists(n) THEN GoTo(<<Frame("destroy", n), [Top EXCEPT !.all = @ \ {n}]>>) ELSE Fail
    /\ UNCHANGED <<critters, world>>

EndLocation ==
    /\ At("clear") /\ Top.left = {}
    /\ world' = "destroyed" /\ GoTo(<<>>)
    /\ UNCHANGED critters

-----------------------------------------------------------------------------
(* What a call under way relies on, and nothing in the code says or        *)
(* enforces, so that scripts must leave it as it is: a critter that leaves *)
(* a place for another one stays alive and unattached until it arrives,    *)
(* one that is destroyed gets no item while it is taken from its place,    *)
(* the location is not destroyed while one of its critters is moved,       *)
(* unloaded or torn off, a map that has been cleared stays empty, and no   *)
(* critter is destroyed that the call that clears a map has yet to destroy. *)
Held(f) ==
    (IF f.pc = "arrive" THEN {<<"life", f.c>>, <<"bonds", f.c>>} ELSE {})
    \cup (IF f.pc = "detach" THEN {<<"carries", f.c>>} ELSE {})
    \cup (IF f.pc \in {"left", "gone", "arrived", "train", "finish", "round", "unload"} THEN {<<"world", Nowhere>>} ELSE {})
    \cup (IF f.pc = "clear" THEN {<<"on", m>> : m \in Maps \ f.left} \cup {<<"destroyed", n>> : n \in f.all} ELSE {})

Bonds(m, c) == {a \in Critters : c \in {a, m[a]} /\ m[a] # Nowhere}

Touches ==
    /\ Callback # 0
    /\ \E k \in Callback + 1..Len(stack) : \E h \in Held(stack[k]) :
         \/ h[1] = "life" /\ life'[h[2]] # life[h[2]]
         \/ h[1] = "destroyed" /\ life'[h[2]] = "destroyed"
         \/ h[1] = "bonds" /\ Bonds(master', h[2]) # Bonds(master, h[2])
         \/ h[1] = "carries" /\ carries'[h[2]] # carries[h[2]]
         \/ h[1] = "world" /\ world' # world
         \/ h[1] = "on" /\ on'[h[2]] # on[h[2]]

Watch == broken' = (broken \/ Touches)

Scripts ==
    \/ \E c \in Critters, to \in Maps \cup {Global} : TransitTo(c, to)
    \/ \E c, cr \in Critters : AttachToCritter(c, cr)
    \/ \E c \in Critters : DetachFromCritter(c) \/ AddItem(c) \/ UnloadCritter(c)
    \/ \E c \in Npcs : DestroyCritter(c)
    \/ DestroyLocation

Engine ==
    \/ ScriptReturns
    \/ TransitLocked \/ Transit \/ Arrive \/ Arrived \/ Follow \/ Rejoin
    \/ Leave \/ Left \/ Gone
    \/ StartLook \/ Look \/ EndLook \/ MoveAttachedCritters
    \/ BeginDestroy \/ Round \/ DestroyInventory \/ TearOff \/ Detach \/ EndDestroy
    \/ Unload \/ Unloaded
    \/ ClearMap \/ ClearNpc \/ EndLocation

Next == (Scripts \/ Engine) /\ Watch
Spec == Init /\ [][Next]_vars

-----------------------------------------------------------------------------
(* Every variable keeps to its type, no critter is attached to itself or   *)
(* sees itself, and no two transfers of one critter are under way at a     *)
(* time (LockMapTransfers).                                                *)
TypeOK ==
    /\ life \in [Critters -> Lives] /\ world \in Lives
    /\ place \in [Critters -> Places]
    /\ on \in [Maps -> SUBSET Critters]
    /\ sees \subseteq {p \in Critters \X Critters : p[1] # p[2]}
    /\ master \in [Critters -> Critters \cup {Nowhere}] /\ \A c \in Critters : master[c] # c
    /\ carries \in [Critters -> BOOLEAN]
    /\ failed \in BOOLEAN /\ broken \in BOOLEAN /\ calls \in 0..MaxCalls
    /\ \A j, k \in DOMAIN stack :
         stack[j].pc \in Transfer /\ stack[k].pc \in Transfer /\ stack[j].c = stack[k].c => j = k

(* Whatever scripts do: the list of a map holds exactly the critters whose *)
(* MapId it is, critters see one another only on the same map, and one     *)
(* that is destroyed is neither on a map nor in a group.                   *)
Together ==
    /\ \A m \in Maps, c \in Critters : c \in on[m] <=> place[c] = m
    /\ \A p \in sees : MapId(p[1]) # Nowhere /\ MapId(p[1]) = MapId(p[2])
    /\ \A c \in Critters : ~Exists(c) => place[c] = Nowhere

(* A critter that is attached is on the map of its master, which is not    *)
(* attached itself.                                                        *)
Attached == \A c \in Critters : master[c] # Nowhere =>
    Exists(c) /\ Exists(master[c]) /\ MapId(c) = MapId(master[c]) /\ master[master[c]] = Nowhere

(* When no call is under way none is left halfway: every critter and the   *)
(* location are either alive or gone, who is alive is somewhere, and       *)
(* nobody is left on a map that is destroyed.                              *)
AtRest ==
    stack = <<>> =>
        /\ world # "destroying"
        /\ \A c \in Critters : life[c] # "destroying" /\ (Exists(c) => place[c] # Nowhere)
        /\ \A c \in Critters : place[c] \in Maps => world = "live"

(* As long as scripts leave alone what the calls under way rely on, no     *)
(* assertion fails, what scripts and jobs get to see is attached properly, *)
(* and every call leaves the critters and the location at rest.            *)
Orderly == ~broken => ~failed /\ (InScript => Attached) /\ AtRest

(* A transfer that no script has disturbed takes the critter to its        *)
(* destination and with it all that were attached to it, which are         *)
(* attached again at the end (Transit calls itself for each of them).      *)
Whole ==
    [][At("train") /\ Top.left = {} /\ Top.since = calls /\ ~broken =>
         /\ place[Top.c] = Top.to
         /\ \A a \in Top.all : place[a] = Top.to /\ master'[a] = Top.c]_vars
=============================================================================
