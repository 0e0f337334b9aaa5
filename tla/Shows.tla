-------------------------------- MODULE Shows --------------------------------
(***************************************************************************)
(* The shows of one station: editing the weekly schedule, which show is on  *)
(* air, the scheduler that ends the calls of a finished show and announces  *)
(* the next one (src/src/module/show/), the announcements that a message    *)
(* sends on its own (src/src/socket/index.ts).  The copy of the active show *)
(* that Redis keeps for half a minute, and no decision here reads, is left  *)
(* out: a cache of that form is the module ReadCache.                       *)
(*                                                                          *)
(* Time is a count of slots: Slots of them make a day, Days of them a week. *)
(* A call is the show it was placed for and whether it still lives; what    *)
(* else happens to calls is the module Call.                                *)
(***************************************************************************)
EXTENDS Naturals, FiniteSets

CONSTANTS
    ShowIds,     \* show documents of the station, numbered as they are created
    NoShow,      \* no show: null in the code
    Unknown,     \* never observed, or not remembered
    Calls,
    Messages,
    Slots, Days, \* slots of a day, days of a week
    Plans,       \* the days and times an editor may ask for
    MaxTime,     \* bound: slots the clock may advance
    MaxEdits,    \* bound: changes of the schedule or of the station
    MaxFailures  \* bound: ends of a call that fail, and restarts

ShowsAssumption ==
    /\ ShowIds \subseteq Nat
    /\ {Slots, Days} \subseteq Nat \ {0}
    /\ Plans \subseteq [days : SUBSET (0 .. Days - 1), start : 0 .. Slots - 1, end : 0 .. Slots - 1]
    /\ \A p \in Plans : p.days # {} /\ p.start # p.end
    /\ {NoShow, Unknown} \cap ShowIds = {} /\ NoShow # Unknown /\ Unknown \notin Plans

VARIABLES
    clock,
    plan,      \* Show.days, startTime, endTime; Unknown before the document exists
    active,    \* shows with isActive
    stationOn, \* Station.isActive
    writes,    \* edits that passed the overlap check and are not written
    calls,     \* per call its show and its state
    tick,      \* the running pass of the scheduler
    texts,     \* per message the show read when it was accepted
    last,      \* lastActiveShow, in memory
    stored,    \* Redis show:last:{station}
    heard,     \* the show the last show-started or show-ended told the listeners
    excused,   \* history: live calls whose show was not the one on air at some time
    lapses,    \* history: "save", stored is older than the last change, which Redis did not take,
               \* "change", the last change was recorded without being announced
    edits, failures

vars == <<clock, plan, active, stationOn, writes, calls, tick, texts, last, stored, heard,
          excused, lapses, edits, failures>>
scheduleVars == <<plan, active, stationOn, writes, edits>>
airVars      == <<last, stored, heard, lapses>>

Current == ShowIds \cup {NoShow}

TypeOK ==
    /\ clock     \in 0 .. MaxTime
    /\ plan      \in [ShowIds -> Plans \cup {Unknown}]
    /\ active    \subseteq {s \in ShowIds : plan[s] # Unknown}
    /\ stationOn \in BOOLEAN
    /\ writes    \subseteq [show : ShowIds, plan : Plans]
    /\ calls     \in [Calls -> [show : Current, state : {"none", "placing", "live", "over"}]]
    /\ tick      \in [phase : {"idle", "started", "computed", "ending"},
                      before : SUBSET Calls, current : Current \cup {Unknown}, doomed : SUBSET Calls]
    /\ texts     \in [Messages -> Current \cup {Unknown}]
    /\ {last, stored} \subseteq Current \cup {Unknown}
    /\ heard     \in Current
    /\ excused   \subseteq Calls
    /\ lapses    \subseteq {"save", "change"}
    /\ edits     \in 0 .. MaxEdits
    /\ failures  \in 0 .. MaxFailures

Idle == [phase |-> "idle", before |-> {}, current |-> Unknown, doomed |-> {}]

Init ==
    /\ clock     = 0
    /\ plan      = [s \in ShowIds |-> Unknown]
    /\ active    = {}
    /\ stationOn = TRUE
    /\ writes    = {}
    /\ calls     = [c \in Calls |-> [show |-> NoShow, state |-> "none"]]
    /\ tick      = Idle
    /\ texts     = [m \in Messages |-> Unknown]
    /\ last      = Unknown
    /\ stored    \in {NoShow, Unknown}   \* Unknown: the station was never observed
    /\ heard     = NoShow
    /\ excused   = {}
    /\ lapses    = {}
    /\ edits     = 0
    /\ failures  = 0

-----------------------------------------------------------------------------
(* Which show is on air                                                     *)

Time      == clock % Slots
Today     == (clock \div Slots) % Days
Yesterday == (Today + Days - 1) % Days

Overnight(p) == p.start > p.end

\* The first loop of findActiveShowForStation: shows of today.
OnSinceToday(s) ==
    /\ Today \in plan[s].days
    /\ Time >= plan[s].start
    /\ Overnight(plan[s]) \/ Time < plan[s].end

\* The second loop: overnight shows of yesterday.
OnSinceYesterday(s) ==
    /\ Yesterday \in plan[s].days
    /\ Overnight(plan[s])
    /\ Time < plan[s].end

\* computeShowStatus is "Active".
OnAir(s) == s \in active /\ (OnSinceToday(s) \/ OnSinceYesterday(s))

OnAirShows == {s \in ShowIds : OnAir(s)}

\* findActiveShowForStation: today's shows go before yesterday's; which of two
\* shows of one day comes first is the database's choice.
Found ==
    LET today == {s \in active : OnSinceToday(s)}
    IN  IF today # {}      THEN today
        ELSE IF OnAirShows # {} THEN OnAirShows
        ELSE {NoShow}

\* Mutant: shows in any order.
AnyOnAir == IF OnAirShows = {} THEN {NoShow} ELSE OnAirShows

\* getCurrentShowForStation of the scheduler: the first show on air in the order
\* of findByStations, by startTime.
Scheduled ==
    IF OnAirShows = {} THEN {NoShow}
    ELSE {s \in OnAirShows : \A t \in OnAirShows : plan[s].start <= plan[t].start}

-----------------------------------------------------------------------------
(* Editing the schedule                                                     *)

\* checkOverlap: the times of two shows that share a day.
TimesOverlap(p, q) ==
    \/ ~Overnight(p) /\ ~Overnight(q) /\ p.start < q.end /\ p.end > q.start
    \/ Overnight(p) /\ ~Overnight(q) /\ (p.start < q.end \/ p.end > q.start)
    \/ ~Overnight(p) /\ Overnight(q) /\ (q.start < p.end \/ q.end > p.start)
    \/ Overnight(p) /\ Overnight(q)

Conflict(s, p) ==
    \E t \in active \ {s} : plan[t].days \cap p.days # {} /\ TimesOverlap(p, plan[t])

Fresh == {s \in ShowIds : plan[s] = Unknown /\ \A w \in writes : w.show # s}

CheckShow(s, p) ==
    /\ edits < MaxEdits
    /\ s \in Fresh => \A t \in Fresh : s <= t
    /\ ~Conflict(s, p)
    /\ writes' = writes \cup {[show |-> s, plan |-> p]}
    /\ edits' = edits + 1
    /\ UNCHANGED <<clock, plan, active, stationOn, calls, tick, texts, failures>>
    /\ UNCHANGED airVars

\* createShow and updateShow of an active show, after their checks.
WriteShow(w) ==
    /\ writes' = writes \ {w}
    /\ plan' = [plan EXCEPT ![w.show] = w.plan]
    /\ active' = active \cup {w.show}
    /\ UNCHANGED <<clock, stationOn, calls, tick, texts, edits, failures>>
    /\ UNCHANGED airVars

\* updateShow with the status Inactive checks no overlap.
SwitchShowOff(s) ==
    /\ edits < MaxEdits
    /\ s \in active
    /\ active' = active \ {s}
    /\ edits' = edits + 1
    /\ UNCHANGED <<clock, plan, stationOn, writes, calls, tick, texts, failures>>
    /\ UNCHANGED airVars

\* deactivateStation and reactivateStation; the cascade over the shows is best
\* effort, and the second one takes every inactive show, whoever switched it off.
SwitchStation ==
    /\ edits < MaxEdits
    /\ stationOn' = ~stationOn
    /\ \/ UNCHANGED active
       \/ active' = IF stationOn THEN {} ELSE {s \in ShowIds : plan[s] # Unknown}
    /\ edits' = edits + 1
    /\ UNCHANGED <<clock, plan, writes, calls, tick, texts, failures>>
    /\ UNCHANGED airVars

-----------------------------------------------------------------------------
(* Listeners                                                                *)

\* startCall reads the show on air ...
AskForCall(c) ==
    /\ calls[c].state = "none" /\ stationOn
    /\ \E s \in Found \ {NoShow} : calls' = [calls EXCEPT ![c] = [show |-> s, state |-> "placing"]]
    /\ UNCHANGED <<clock, tick, texts, failures>>
    /\ UNCHANGED scheduleVars /\ UNCHANGED airVars

\* ... and stores the call later.
PlaceCall(c) ==
    /\ calls[c].state = "placing"
    /\ calls' = [calls EXCEPT ![c].state = "live"]
    /\ UNCHANGED <<clock, tick, texts, failures>>
    /\ UNCHANGED scheduleVars /\ UNCHANGED airVars

\* Everything of Call.tla that ends a call without the scheduler.
HangUp(c) ==
    /\ calls[c].state = "live"
    /\ calls' = [calls EXCEPT ![c].state = "over"]
    /\ UNCHANGED <<clock, tick, texts, failures>>
    /\ UNCHANGED scheduleVars /\ UNCHANGED airVars

-----------------------------------------------------------------------------
(* Announcing the show on air                                               *)

\* loadLastActiveShow: memory, else what Redis has, and neither when Redis fails
\* or its entry is older than a week.
Previous == IF last = Unknown THEN {stored, Unknown} ELSE {last}

\* Mutant: the announced show is not remembered.
SavesNothing(s) == UNCHANGED <<last, stored>> /\ lapses' = {}

\* saveLastActiveShow, which swallows a failure of Redis.
Saves(s) ==
    /\ last' = s
    /\ \/ stored' = s /\ lapses' = {}
       \/ UNCHANGED stored /\ lapses' = {"save"}

\* The first observation of a station only records the show: a change is missed.
RecordsOnly(s) ==
    /\ last' = s
    /\ \E saved \in BOOLEAN :
          /\ stored' = IF saved THEN s ELSE stored
          /\ lapses' = (IF saved THEN {} ELSE {"save"}) \cup (IF heard = s THEN {} ELSE {"change"})
    /\ UNCHANGED heard

\* Nothing changed, as far as is known: only memory is filled from Redis, and
\* what Redis has may be a show older than the last one announced.
FindsNoChange(s) ==
    /\ last' = s
    /\ lapses' = IF "save" \in lapses /\ last = Unknown /\ heard # s
                 THEN lapses \cup {"change"} ELSE lapses
    /\ UNCHANGED <<stored, heard>>

\* checkAndEmitShowTransition; the lock makes it one step, and nothing of it
\* happens while it is held for another show.
Announce(s, held) ==
    \/ held /\ UNCHANGED airVars
    \/ \E previous \in Previous :
          \/ previous = Unknown /\ RecordsOnly(s)
          \/ previous = s /\ FindsNoChange(s)
          \/ previous \notin {Unknown, s} /\ heard' = s /\ Saves(s)

MessageDue(m) == texts[m] \in ShowIds
TickDue       == tick.phase = "ending" /\ tick.doomed = {}

\* A message to the station reads the show on air ...
AcceptMessage(m) ==
    /\ texts[m] = Unknown /\ stationOn
    /\ \E s \in Found \ {NoShow} : texts' = [texts EXCEPT ![m] = s]
    /\ UNCHANGED <<clock, calls, tick, failures>>
    /\ UNCHANGED scheduleVars /\ UNCHANGED airVars

\* ... and announces that show once it is stored.
MessageAnnounces(m) ==
    /\ MessageDue(m)
    /\ texts' = [texts EXCEPT ![m] = NoShow]
    /\ Announce(texts[m], TickDue \/ \E n \in Messages \ {m} : MessageDue(n))
    /\ UNCHANGED <<clock, calls, tick, failures>>
    /\ UNCHANGED scheduleVars

-----------------------------------------------------------------------------
(* The scheduler                                                            *)

Live(c) == calls[c].state = "live"

\* computedAt: later calls are left alone.
StartTick ==
    /\ tick.phase = "idle"
    /\ tick' = [Idle EXCEPT !.phase = "started", !.before = {c \in Calls : Live(c)}]
    /\ UNCHANGED <<clock, calls, texts, failures>>
    /\ UNCHANGED scheduleVars /\ UNCHANGED airVars

\* computeCurrentShows looks at active stations only.
ComputeCurrent ==
    /\ tick.phase = "started"
    /\ \E s \in Scheduled :
          tick' = IF stationOn THEN [tick EXCEPT !.phase = "computed", !.current = s] ELSE Idle
    /\ UNCHANGED <<clock, calls, texts, failures>>
    /\ UNCHANGED scheduleVars /\ UNCHANGED airVars

\* Mutant: the calls of the show that was on air, remembered, once it is not.
CallsOfPreviousShow ==
    {c \in tick.before : Live(c) /\ calls[c].show \in Previous /\ calls[c].show # tick.current}

\* endCallsOfFinishedShows: the live calls it finds.
FinishedCalls == {c \in tick.before : Live(c) /\ calls[c].show # tick.current}

FindFinishedCalls ==
    /\ tick.phase = "computed"
    /\ tick' = [tick EXCEPT !.phase = "ending", !.doomed = FinishedCalls]
    /\ UNCHANGED <<clock, calls, texts, failures>>
    /\ UNCHANGED scheduleVars /\ UNCHANGED airVars

\* endCallBySystem changes only a call that is still live; its failure is logged.
EndFinishedCall(c) ==
    /\ c \in tick.doomed
    /\ tick' = [tick EXCEPT !.doomed = @ \ {c}]
    /\ \/ /\ calls' = IF Live(c) THEN [calls EXCEPT ![c].state = "over"] ELSE calls
          /\ UNCHANGED failures
       \/ failures < MaxFailures /\ failures' = failures + 1 /\ UNCHANGED calls
    /\ UNCHANGED <<clock, texts>>
    /\ UNCHANGED scheduleVars /\ UNCHANGED airVars

AnnounceCurrent ==
    /\ TickDue
    /\ Announce(tick.current, \E m \in Messages : MessageDue(m))
    /\ tick' = Idle
    /\ UNCHANGED <<clock, calls, texts, failures>>
    /\ UNCHANGED scheduleVars

\* The process stops and starts: only the database and Redis remain.
Restart ==
    /\ failures < MaxFailures
    /\ failures' = failures + 1
    /\ tick' = Idle
    /\ last' = Unknown /\ writes' = {}
    /\ texts' = [m \in Messages |-> IF texts[m] = Unknown THEN Unknown ELSE NoShow]
    /\ calls' = [c \in Calls |-> IF calls[c].state = "placing"
                                 THEN [calls[c] EXCEPT !.state = "over"] ELSE calls[c]]
    /\ UNCHANGED <<clock, plan, active, stationOn, stored, heard, lapses, edits>>

Advance ==
    /\ clock < MaxTime
    /\ clock' = clock + 1
    /\ UNCHANGED <<calls, tick, texts, failures>>
    /\ UNCHANGED scheduleVars /\ UNCHANGED airVars

-----------------------------------------------------------------------------

Editor    == \/ \E s \in ShowIds : (\E p \in Plans : CheckShow(s, p)) \/ SwitchShowOff(s)
             \/ \E w \in writes : WriteShow(w)
             \/ SwitchStation
Listener  == \/ \E c \in Calls : AskForCall(c) \/ PlaceCall(c) \/ HangUp(c)
             \/ \E m \in Messages : AcceptMessage(m) \/ MessageAnnounces(m)
Scheduler == \/ StartTick \/ ComputeCurrent \/ FindFinishedCalls \/ AnnounceCurrent
             \/ \E c \in Calls : EndFinishedCall(c)

\* Two shows on air that began on the same day: only edits that raced, or a
\* station switched on again, make such a schedule.
Doubled(s) ==
    \E t \in OnAirShows \ {s} : \/ OnSinceToday(s) /\ OnSinceToday(t)
                                \/ OnSinceYesterday(s) /\ OnSinceYesterday(t)

Excuse(c) == LET s == calls[c].show IN s \notin Found \/ Doubled(s)

Observed ==
    excused' = {c \in Calls : /\ calls'[c].state \in {"placing", "live"}
                              /\ c \in excused \/ Excuse(c)'}

Next == (Editor \/ Listener \/ Scheduler \/ Restart \/ Advance) /\ Observed

Spec == Init /\ [][Next]_vars

\* The interval starts a pass every ten seconds and nothing but a restart stops it,
\* nor a message that is stored from announcing its show.
Fairness ==
    /\ WF_vars(Scheduler /\ Observed)
    /\ \A m \in Messages : WF_vars(MessageAnnounces(m) /\ Observed)

FairSpec == Spec /\ Fairness

-----------------------------------------------------------------------------

\* The scheduler ends a call only if, at some time since the call read its show,
\* a listener would have found no show or another: the scheduler picks a show by
\* its start, a listener's request by its day, and they must agree also where an
\* overnight show runs into a show of the next day, which the check of overlaps
\* (of shows that share a day) lets through.
ExcusedIfHungUp == \A c \in Calls : EndFinishedCall(c) /\ calls' # calls => c \in excused

OnlyFinishedShowsHangUp == [][ExcusedIfHungUp]_vars

\* A call does not outlive its show for ever, whatever failed or restarted and
\* whatever was announced meanwhile: some pass of the scheduler ends it.
ShowsEndTheirCalls ==
    stationOn => \A c \in Calls : Live(c) => calls[c].show \in Scheduled

FinishedShowsEndCalls == []<>ShowsEndTheirCalls

\* What the listeners were told is put right again, even after a message told them of
\* the show it had read before the change, unless the change was the first thing seen
\* after a start and Redis had no show, or an older one, to compare with.
ToldRight == stationOn => heard \in Scheduled \/ "change" \in lapses

ListenersCatchUp == []<>ToldRight

-----------------------------------------------------------------------------
(* Why nobody is hung up on whose show was on air all along                 *)

\* A call is for a show, and the pass of the scheduler under way knows calls only that
\* were live when it began.
CallsHaveShows ==
    /\ \A c \in Calls : calls[c].state \in {"placing", "live"} => calls[c].show \in ShowIds
    /\ tick.doomed \subseteq tick.before /\ tick.before \subseteq Calls
    /\ \A c \in tick.before : calls[c].state \in {"live", "over"}
    /\ tick.phase # "ending" => tick.doomed = {}

\* Whom the pass is to hang up on had no show on air when it computed the current one.
DoomedAreExcused ==
    /\ tick.phase = "computed" =>
          \A c \in tick.before : Live(c) /\ calls[c].show # tick.current => c \in excused
    /\ \A c \in tick.doomed : Live(c) => c \in excused

IInv ==
    /\ clock  \in Nat
    /\ plan   \in [ShowIds -> Plans \cup {Unknown}]
    /\ active \subseteq {s \in ShowIds : plan[s] # Unknown}
    /\ writes \subseteq [show : ShowIds, plan : Plans]
    /\ calls  \in [Calls -> [show : Current, state : {"none", "placing", "live", "over"}]]
    /\ tick   \in [phase : {"idle", "started", "computed", "ending"},
                   before : SUBSET Calls, current : Current \cup {Unknown}, doomed : SUBSET Calls]
    /\ CallsHaveShows
    /\ DoomedAreExcused
=============================================================================
