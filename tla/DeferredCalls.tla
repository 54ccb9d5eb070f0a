--------------------------- MODULE DeferredCalls ---------------------------
(***************************************************************************)
(* The deferred calls of the server (DeferredCallManager and               *)
(* ServerDeferredCallManager) with what they stand on: the game time       *)
(* (GameTimer, FrameTimeJob, SetGameTime) and the records of the saved     *)
(* calls and of the game itself, kept in a RecordStore.  A call runs       *)
(* scripts, which may add and cancel calls and set the time in the middle  *)
(* of the loop over the calls.                                             *)
(*                                                                         *)
(* Record 0 is the record of the game, record n > 0 that of the saved call *)
(* n.  A serial stands for the function and the values of a call, so that  *)
(* a call can be told from another one that got its identifier.            *)
(***************************************************************************)
EXTENDS GameCalendar, Sequences, SequencesExt

CONSTANTS
    NoRecord,
    Torn,        \* what a crash may leave of a record, see RecordStore; never loaded
    Delays,      \* the delays of calls, in milliseconds
    Moments,     \* the milliseconds of real time since the clock was set at which frames come
    StartTime,   \* the time that scripts set in a new world: [mul, date]
    Times,       \* what SetGameTime may be called with later
    Word,        \* the range of an unsigned number, 2^32 in the code
    MaxAdds, MaxResets, MaxStarts, MaxSnaps  \* bounds

Game == 0
Serials == 1..MaxAdds
RecordIds == {Game} \cup Serials
Dates == [year : Nat, month : 1..12, day : 1..31, sec : 0..DaySeconds - 1]
CallRecords == [fire : Nat, serial : Serials]
GameRecords == [lastId : 0..MaxAdds, mul : {t.mul : t \in Times \cup {StartTime}}, date : Dates]

(* SetGameTime asserts the ranges of the date; the calendar of the code    *)
(* begins with its first year.                                             *)
ASSUME TimesAssumption ==
    \A t \in Times \cup {StartTime} : t.mul \in Nat /\ t.date \in Dates /\ t.date.year >= FirstYear
ASSUME MillisecondsAssumption == Delays \cup Moments \subseteq Nat
ASSUME BoundsAssumption == /\ {MaxAdds, MaxResets, MaxStarts, MaxSnaps} \subseteq Nat
                           /\ Word \in Nat \ {0}
ASSUME RecordsAssumption == /\ NoRecord \notin CallRecords \cup GameRecords
                            /\ Torn \notin CallRecords \cup GameRecords \cup {NoRecord}

VARIABLES
    store, snaps, disk, failed,  \* the data base, see RecordStore
    calls,       \* _deferredCalls
    savedCalls,  \* _savedCalls
    base,        \* _yearStartFullTime
    whole,       \* the milliseconds since _gameplayTimeBase, at the last frame
    full,        \* _fullSecond
    pc,          \* "idle", in the "loop" of ProcessDeferredCalls or in a "script" it calls
    passFull,    \* its full_second
    skip,        \* its skip_ids
    left,        \* history: the game seconds until a call may run, by serial
    done,        \* history: the serials that must not run again: run once, or cancelled
    last,        \* history: the serial of the call that is running, or 0
    stale,       \* history: the clock was set in the pass under way
    skewed,      \* history: a crash has left a call whose identifier is free again
    adds, resets, starts  \* how often calls were added, the clock set, the server started again

records == <<store, snaps, disk, failed>>
clock == <<base, whole, full, resets>>
pass == <<pc, passFull, skip, stale>>
list == <<calls, savedCalls>>
ghosts == <<left, done, last, adds>>
process == <<skewed, starts>>
vars == <<records, clock, pass, list, ghosts, process>>

DB == INSTANCE RecordStore WITH Ids <- RecordIds, Docs <- CallRecords \cup GameRecords \cup {NoRecord},
                                Empty <- NoRecord, reply <- [id |-> {}, doc |-> NoRecord]

TimeMultiplier == store[Game].mul
SavedIn(s) == {id \in Serials : s[id] # NoRecord}

(* The products and sums of the code are those of 32 bit numbers: a delay  *)
(* may not fit them, the milliseconds that a clock has run fall back to 0  *)
(* after 2^32 (49.7 days) and the seconds of a fast clock sooner.          *)
Span(delay) == ((delay * TimeMultiplier) % Word) \div 1000
ExactSpan(now, delay) ==
    IF delay * TimeMultiplier < Word /\ now + Span(delay) < Word THEN Span(delay) ELSE 0
FullSeconds(ms) == LET dt == ms % Word IN
    ((dt \div 1000) * TimeMultiplier + (((dt % 1000) * TimeMultiplier) % Word) \div 1000) % Word

(* A server that has generated its world and whose scripts have set the    *)
(* time.                                                                   *)
Init ==
    /\ store = [id \in RecordIds |->
                  IF id = Game THEN [lastId |-> 0, mul |-> StartTime.mul, date |-> StartTime.date] ELSE NoRecord]
    /\ base = DateTimeToFullTime(StartTime.date)
    /\ disk = store /\ snaps = <<>> /\ failed = FALSE
    /\ calls = <<>> /\ savedCalls = {}
    /\ whole = 0 /\ full = 0
    /\ pc = "idle" /\ passFull = 0 /\ skip = {} /\ stale = FALSE
    /\ left = [s \in Serials |-> 0] /\ done = {} /\ last = 0 /\ adds = 0
    /\ skewed = FALSE /\ resets = 0 /\ starts = 0

-----------------------------------------------------------------------------
(* What scripts may do, from a call or from any other job.                 *)
InScript == ~failed /\ pc \in {"idle", "script"}

NextCallId == store[Game].lastId + 1
(* The time of the call forgotten.                                         *)
FireAfter_FromZero(delay) == IF delay = 0 THEN 0 ELSE Span(delay)

FireAfter(delay) == IF delay = 0 THEN 0 ELSE (full + Span(delay)) % Word

Added(delay) ==
    /\ adds < MaxAdds
    /\ adds' = adds + 1
    /\ left' = [left EXCEPT ![adds + 1] = ExactSpan(full, delay)]
    /\ UNCHANGED <<pc, passFull, skip, stale, done, last, clock, process, snaps, disk>>

AddDeferredCall(delay, repeating) ==
    /\ InScript
    /\ Added(delay)
    /\ store' = [store EXCEPT ![Game].lastId = NextCallId]
    /\ calls' = Append(calls, [id |-> NextCallId, fire |-> FireAfter(delay), delay |-> delay,
                               repeating |-> repeating, serial |-> adds + 1])
    /\ UNCHANGED <<savedCalls, failed>>

(* The counter stays as it was.                                            *)
AddSavedDeferredCall_SameId(delay) ==
    /\ InScript
    /\ Added(delay)
    /\ failed' = (store[NextCallId] # NoRecord)
    /\ store' = [store EXCEPT ![NextCallId] = [fire |-> FireAfter(delay), serial |-> adds + 1]]
    /\ savedCalls' = savedCalls \cup {NextCallId}
    /\ calls' = Append(calls, [id |-> NextCallId, fire |-> FireAfter(delay), delay |-> 0,
                               repeating |-> FALSE, serial |-> adds + 1])

(* The data base refuses to insert a record that exists; what the server   *)
(* promises ends there.                                                    *)
AddSavedDeferredCall(delay) ==
    /\ InScript
    /\ Added(delay)
    /\ failed' = (store[NextCallId] # NoRecord)
    /\ store' = [store EXCEPT ![Game].lastId = NextCallId,
                              ![NextCallId] = [fire |-> FireAfter(delay), serial |-> adds + 1]]
    /\ savedCalls' = savedCalls \cup {NextCallId}
    /\ calls' = Append(calls, [id |-> NextCallId, fire |-> FireAfter(delay), delay |-> 0,
                               repeating |-> FALSE, serial |-> adds + 1])

(* The record stays.                                                       *)
OnDeferredCallRemoved_Keeps(id) ==
    /\ UNCHANGED store
    /\ savedCalls' = savedCalls \ {id}

OnDeferredCallRemoved(id) ==
    /\ store' = IF id \in savedCalls THEN [store EXCEPT ![id] = NoRecord] ELSE store
    /\ savedCalls' = savedCalls \ {id}

(* The record stays.                                                       *)
CancelDeferredCall_KeepsRecord(id) ==
    LET found == {i \in DOMAIN calls : calls[i].id = id} IN
    /\ InScript
    /\ found # {}
    /\ calls' = RemoveAt(calls, Min(found))
    /\ done' = done \cup {calls[Min(found)].serial}
    /\ UNCHANGED <<store, savedCalls>>
    /\ UNCHANGED <<snaps, disk, failed, clock, pass, left, last, adds, process>>

CancelDeferredCall(id) ==
    LET found == {i \in DOMAIN calls : calls[i].id = id} IN
    /\ InScript
    /\ found # {}
    /\ calls' = RemoveAt(calls, Min(found))
    /\ done' = done \cup {calls[Min(found)].serial}
    /\ OnDeferredCallRemoved(id)
    /\ UNCHANGED <<snaps, disk, failed, clock, pass, left, last, adds, process>>

(* GameTimer::Reset: the clock counts from the given date, and the full    *)
(* second starts at 0 again.                                               *)
Reset(date) ==
    /\ base' = DateTimeToFullTime(date)
    /\ whole' = 0
    /\ full' = 0

SetGameTime(time) ==
    /\ InScript
    /\ resets < MaxResets
    /\ resets' = resets + 1
    /\ store' = [store EXCEPT ![Game].mul = time.mul, ![Game].date = time.date]
    /\ Reset(time.date)
    /\ stale' = (pc = "script")
    /\ UNCHANGED <<snaps, disk, failed, list, pc, passFull, skip, left, done, last, adds, process>>

-----------------------------------------------------------------------------
(* The date of the second before.                                          *)
FrameTimeJob_OldSecond(ms) ==
    /\ ~failed /\ pc = "idle"
    /\ ms > whole
    /\ whole' = ms
    /\ full' = FullSeconds(ms)
    /\ store' = IF full' = full THEN store
                ELSE [store EXCEPT ![Game].date = FullTimeToDateTime(Later(base, full))]
    /\ left' = [s \in Serials |-> Max({0, left[s] - Max({0, full' - full})})]
    /\ UNCHANGED <<base, resets, snaps, disk, failed, list, pass, done, last, adds, process>>

(* FrameTimeJob: a frame at a later moment; another second moves the date  *)
(* of the game.  Game time that passes counts for the calls that wait, a   *)
(* clock that falls back does not.                                         *)
FrameTimeJob(ms) ==
    /\ ~failed /\ pc = "idle"
    /\ ms > whole
    /\ whole' = ms
    /\ full' = FullSeconds(ms)
    /\ store' = IF full' = full THEN store
                ELSE [store EXCEPT ![Game].date = FullTimeToDateTime(Later(base, full'))]
    /\ left' = [s \in Serials |-> Max({0, left[s] - Max({0, full' - full})})]
    /\ UNCHANGED <<base, resets, snaps, disk, failed, list, pass, done, last, adds, process>>

(* ProcessDeferredCalls: the time is read once, before the loop.  A pass   *)
(* that finds no call due changes nothing.                                 *)
StartPass ==
    /\ ~failed /\ pc = "idle"
    /\ \E i \in DOMAIN calls : full >= calls[i].fire
    /\ pc' = "loop"
    /\ passFull' = full
    /\ skip' = {}
    /\ stale' = FALSE
    /\ UNCHANGED <<records, clock, list, ghosts, process>>

Due == {i \in DOMAIN calls : passFull >= calls[i].fire /\ calls[i].id \notin skip}

(* Only the call that has just run is skipped.                             *)
RunDue_SkipsOnlyThisCall ==
    LET i == Min(Due)
        call == calls[i]
        fire == IF call.delay = 0 THEN call.fire ELSE (passFull + Span(call.delay)) % Word
    IN
    /\ pc = "loop"
    /\ Due # {}
    /\ pc' = "script"
    /\ \/ /\ call.repeating
          /\ calls' = [calls EXCEPT ![i].fire = fire]
          /\ skip' = {call.id}
          /\ left' = [left EXCEPT ![call.serial] = ExactSpan(passFull, call.delay)]
          /\ UNCHANGED <<store, savedCalls, done>>
       \/ /\ ~call.repeating
          /\ calls' = RemoveAt(calls, i)
          /\ OnDeferredCallRemoved(call.id)
          /\ done' = done \cup {call.serial}
          /\ UNCHANGED <<skip, left>>
    /\ last' = call.serial
    /\ UNCHANGED <<snaps, disk, failed, clock, passFull, stale, adds, process>>

(* The search starts at the front again after every call.                  *)
RunDue ==
    LET i == Min(Due)
        call == calls[i]
        fire == IF call.delay = 0 THEN call.fire ELSE (passFull + Span(call.delay)) % Word
    IN
    /\ pc = "loop"
    /\ Due # {}
    /\ pc' = "script"
    /\ \/ /\ call.repeating
          /\ calls' = [calls EXCEPT ![i].fire = fire]
          /\ skip' = skip \cup {call.id}
          /\ left' = [left EXCEPT ![call.serial] = ExactSpan(passFull, call.delay)]
          /\ UNCHANGED <<store, savedCalls, done>>
       \/ /\ ~call.repeating
          /\ calls' = RemoveAt(calls, i)
          /\ OnDeferredCallRemoved(call.id)
          /\ done' = done \cup {call.serial}
          /\ UNCHANGED <<skip, left>>
    /\ last' = call.serial
    /\ UNCHANGED <<snaps, disk, failed, clock, passFull, stale, adds, process>>

(* One call a pass.                                                        *)
ScriptReturns_EndsPass ==
    /\ ~failed /\ pc = "script"
    /\ pc' = "idle"
    /\ last' = 0
    /\ UNCHANGED <<records, clock, list, passFull, skip, stale, left, done, adds, process>>

ScriptReturns ==
    /\ ~failed /\ pc = "script"
    /\ pc' = "loop"
    /\ last' = 0
    /\ UNCHANGED <<records, clock, list, passFull, skip, stale, left, done, adds, process>>

EndPass ==
    /\ pc = "loop"
    /\ Due = {}
    /\ pc' = "idle"
    /\ passFull' = 0 /\ skip' = {} /\ stale' = FALSE
    /\ UNCHANGED <<records, clock, list, ghosts, process>>

-----------------------------------------------------------------------------
(* StorageCommitJob; the commit thread works at any time.                  *)
CommitChanges ==
    /\ pc = "idle"
    /\ ~failed
    /\ Len(snaps) < MaxSnaps
    /\ store # DB!NewestCommit
    /\ DB!Commit
    /\ UNCHANGED <<failed, clock, pass, list, ghosts, process>>

CommitThread ==
    /\ ~failed
    /\ snaps # <<>>
    /\ (\E id \in RecordIds : disk[id] # Head(snaps)[id] /\ DB!StoreRecord(id)) \/ DB!Stored
    /\ UNCHANGED <<failed, clock, pass, list, ghosts, process>>

(* LoadDeferredCalls, in the order that the storage gives the records in,  *)
(* after GameTime.Reset with the date of the game's record.                *)
InitGameLogic(s) ==
    /\ starts < MaxStarts
    /\ starts' = starts + 1
    /\ \E ids \in SetToSeqs(SavedIn(s)) :
         calls' = [i \in DOMAIN ids |-> [id |-> ids[i], fire |-> s[ids[i]].fire, delay |-> 0,
                                         repeating |-> FALSE, serial |-> s[ids[i]].serial]]
    /\ savedCalls' = SavedIn(s)
    /\ Reset(s[Game].date)
    /\ pc' = "idle" /\ passFull' = 0 /\ skip' = {} /\ stale' = FALSE
    /\ last' = 0
    /\ UNCHANGED <<left, adds, resets>>

(* ~FOServer ends its jobs and commits with CommitChanges(true).           *)
Restart ==
    /\ ~failed /\ pc = "idle"
    /\ snaps' = <<>> /\ disk' = store
    /\ InitGameLogic(store)
    /\ UNCHANGED <<store, failed, done, skewed>>

(* What a crash leaves on the disk may run again: the promise to run once  *)
(* is given up for these calls only.                                       *)
Crash ==
    /\ ~failed
    /\ DB!CleanCrash
    /\ InitGameLogic(disk)
    /\ done' = done \ {disk[id].serial : id \in SavedIn(disk)}
    /\ skewed' = (skewed \/ \E id \in SavedIn(disk) : id > disk[Game].lastId)
    /\ UNCHANGED failed

Scripts ==
    \/ \E delay \in Delays : AddSavedDeferredCall(delay) \/ \E r \in BOOLEAN : AddDeferredCall(delay, r)
    \/ \E id \in Serials : CancelDeferredCall(id)
    \/ \E time \in Times : SetGameTime(time)

Pass == StartPass \/ RunDue \/ ScriptReturns \/ EndPass

Next ==
    \/ Scripts
    \/ Pass
    \/ \E ms \in Moments : FrameTimeJob(ms)
    \/ CommitChanges \/ CommitThread
    \/ Restart \/ Crash

Spec == Init /\ [][Next]_vars

(* Jobs repeat and scripts return.                                         *)
FairSpec == Spec /\ WF_vars(Pass)

-----------------------------------------------------------------------------
TypeOK ==
    /\ DOMAIN store = RecordIds /\ store[Game] \in GameRecords
    /\ \A id \in SavedIn(store) : store[id] \in CallRecords
    /\ disk \in [RecordIds -> CallRecords \cup GameRecords \cup {NoRecord}]
    /\ failed \in BOOLEAN /\ stale \in BOOLEAN /\ skewed \in BOOLEAN
    /\ calls \in Seq([id : Serials, fire : Nat, delay : Delays \cup {0}, repeating : BOOLEAN, serial : Serials])
    /\ savedCalls \in SUBSET Serials /\ skip \in SUBSET Serials /\ done \in SUBSET Serials
    /\ pc \in {"idle", "loop", "script"}
    /\ full \in 0..Word - 1 /\ passFull \in 0..Word - 1
    /\ left \in [Serials -> Nat]
(* A call never runs before its delay has passed in game time, through     *)
(* changes of the clock and restarts, except in a pass in which the clock  *)
(* was set: the loop compares with the time it has read before.  A delay   *)
(* that does not fit the numbers of the code is not covered.               *)
NotEarly == pc = "loop" /\ pc' = "script" /\ ~stale => left[last'] = 0

(* A call that runs once is not run again, nor is one run that has been    *)
(* cancelled, not even after a restart; only a crash can bring such a call *)
(* back, if the storage still had its record.                              *)
RunsOnce == pc = "loop" /\ pc' = "script" => last' \notin done

RunsRight == [][NotEarly /\ RunsOnce]_vars

(* Until a crash has torn the record of the game from that of a call: the  *)
(* identifiers are unique, the calls to be saved are the records, with the *)
(* time they are due, and no committed state would let an identifier be    *)
(* given out twice.  The data base refuses a call only after such a crash.  *)
Consistent(s) == \A id \in SavedIn(s) : id <= s[Game].lastId
SavedMatch ==
    ~skewed =>
        /\ ~failed
        /\ \A i, j \in DOMAIN calls : calls[i].id = calls[j].id => i = j
        /\ \A i \in DOMAIN calls : calls[i].id <= store[Game].lastId
        /\ savedCalls = SavedIn(store)
        /\ \A id \in savedCalls : \E i \in DOMAIN calls :
              calls[i].id = id /\ store[id] = [fire |-> calls[i].fire, serial |-> calls[i].serial]
        /\ \A n \in DOMAIN snaps : Consistent(snaps[n])

(* When the clock goes on, the date of the game goes on by the same time   *)
(* in the calendar, over the ends of months, leap days and years.  The     *)
(* first second after the clock was set is left out: there the code loses  *)
(* the day of the month.                                                   *)
DateAdvances ==
    [][full > 0 /\ full' > full => store'[Game].date = DateAfter(store[Game].date, full' - full)]_vars

(* A call that is due is run, unless it is cancelled, the clock is set or  *)
(* the server restarts.                                                    *)
IsDue(s) == ~failed /\ \E i \in DOMAIN calls : calls[i].serial = s /\ full >= calls[i].fire
DueRuns == \A s \in Serials : IsDue(s) ~> (last = s \/ ~IsDue(s))

(* The loop ends although it starts from the front after every call and    *)
(* calls that repeat stay in the list, due again at once if they have no   *)
(* delay: a pass runs each of them once.  (Scripts that add another due    *)
(* call in every call would keep it busy; MaxAdds bounds them.)            *)
PassEnds == pc # "idle" ~> (pc = "idle" \/ failed)
=============================================================================
