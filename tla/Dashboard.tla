------------------------------- MODULE Dashboard -------------------------------
(***************************************************************************)
(* The dashboard (src/src/module/dashboard): the figures, series and lists it *)
(* derives from the rows other parts of the backend store, and the cache of   *)
(* its statistics.  A row is what the figures tell apart: its collection, who *)
(* and where, the day, and its state.  Every amount is 1, a period of a       *)
(* series is a day, and a purchase is of no station.                          *)
(***************************************************************************)
EXTENDS Naturals, FiniteSets, FiniteSetsExt

CONSTANTS
    Stations, PartnerOf,              \* the stations, and whose each is
    CountryOf,                        \* the country of each station and partner
    Listeners, HomeOf,                \* the listeners, and the country of each
    Nowhere,
    Shows, ShowStation,               \* the shows, and the station of each
    Requests,                         \* [role, station, partner, country], as buildScope leaves them
    Types,                            \* the types of transactions that occur
    Periods,                          \* the periods a series lists
    Week,                             \* the days an active listener was last seen in
    MaxRows, MaxDay, MaxHeld          \* bounds: the last on the statistics held at once

Collection == {"purchase", "admin_grant"}
Deduction  == {"message_deduction", "call_deduction"}
OtherSpend == {"poll_deduction", "challenge_deduction"}
Spent      == Deduction \cup OtherSpend

StationRole(q) == q.role \in {"station_admin", "media_station", "presenter"}
PartnerRole(q) == q.role \in {"partner_admin", "customer_care"}
PartnersOwn(q) == {s \in Stations : PartnerOf[s] = q.partner}

\* buildScope: who is of a station asks for it, who is of a partner for all or one of its
\* stations (getStats overlooks another's, the series do not), customer care, who are of
\* no partner, for all; others for what they like.
LeftByBuildScope(q) ==
    /\ DOMAIN q = {"role", "station", "partner", "country"}
    /\ q.station \in Stations \cup {Nowhere}
    /\ StationRole(q) => q.station # Nowhere /\ q.partner = Nowhere /\ q.country = Nowhere
    /\ PartnerRole(q) => q.station \in PartnersOwn(q) \cup {Nowhere} /\ q.country = Nowhere

DashboardAssumption ==
    /\ IsFiniteSet(Stations) /\ IsFiniteSet(Listeners) /\ IsFiniteSet(Shows)
    /\ DOMAIN PartnerOf = Stations /\ \A s \in Stations : PartnerOf[s] # Nowhere
    /\ DOMAIN CountryOf = Stations \cup {PartnerOf[s] : s \in Stations}
    /\ HomeOf \in [Listeners -> STRING]
    /\ Nowhere \notin Stations \cup Shows
    /\ ShowStation \in [Shows -> Stations]
    /\ \A q \in Requests : LeftByBuildScope(q)
    /\ Types \subseteq Collection \cup Spent \cup {"refund"}
    /\ {Periods, Week, MaxRows, MaxDay, MaxHeld} \subseteq Nat

VARIABLES
    rows,          \* the rows, numbered as they are stored
    today,
    reading,       \* the statistics being read: the request, what it has; or Nothing
    cache          \* the statistics held, by their key

vars == <<rows, today, reading, cache>>

Nothing == [is |-> "nothing"]

-----------------------------------------------------------------------------
(* The rows.                                                                *)

States == [message     |-> {"live", "replied", "deleted", "repliedDeleted"},
           call        |-> {"queued", "answered", "completed", "missed", "rejected", "cancelled"},
           statement   |-> {"free", "paid"},
           follow      |-> {"follows"},
           play        |-> {"done"},
           login       |-> {"done"},
           status      |-> {"live", "expired"},
           transaction |-> Types]
\* What a row is when it is stored.
Fresh  == [States EXCEPT !.message = {"live"}, !.call = {"queued"}, !.status = {"live"}]

\* What it may become.
Becomes(kind, state) ==
    CASE state = "live"     -> IF kind = "message" THEN {"replied", "deleted"} ELSE {"expired"}
      [] state = "replied"  -> {"repliedDeleted"}
      [] state = "queued"   -> {"answered", "missed", "rejected", "cancelled"}
      [] state = "answered" -> {"completed"}
      [] OTHER              -> {}

Place(kind, state) ==
    IF kind = "login" \/ state \in Collection \cup {"refund"} THEN {Nowhere} ELSE Stations

\* The show that is on when a message is sent or a call is made.
Show(kind, where) ==
    IF kind = "call" THEN {h \in Shows : ShowStation[h] = where}
    ELSE {Nowhere} \cup IF kind = "message" THEN {h \in Shows : ShowStation[h] = where} ELSE {}

RowsOf(kind) == {r \in rows : r.kind = kind}
At(S, where) == {r \in S : r.station \in where}

TypeOK ==
    /\ Cardinality(rows) <= MaxRows
    /\ \A r \in rows : /\ r.state \in States[r.kind] /\ r.user \in Listeners
                              /\ r.station \in Place(r.kind, r.state) /\ r.day \in 0 .. today
                              /\ r.show \in Show(r.kind, r.station)
    /\ today \in 0 .. MaxDay
    /\ reading = Nothing \/ reading.asked \in Requests
    /\ Cardinality(DOMAIN cache) <= MaxHeld

-----------------------------------------------------------------------------
(* Scopes.                                                                  *)

\* resolveScopeStationFilter: the station, or the partner's, or the country's.
Scope(q) ==
    IF q.station # Nowhere THEN {q.station}
    ELSE IF q.partner # Nowhere THEN PartnersOwn(q)
    ELSE IF q.country # Nowhere THEN {s \in Stations : CountryOf[s] = q.country}
    ELSE Stations

\* getStats resolves them by role.
StatsScope(q) ==
    IF StationRole(q) THEN {q.station}
    ELSE IF ~PartnerRole(q) THEN Scope(q)
    ELSE IF q.partner = Nowhere THEN Stations
    ELSE IF q.station \in PartnersOwn(q) THEN {q.station}
    ELSE PartnersOwn(q)

\* Transactions are of a station, or, for a partner, of the countries it has stations in;
\* a country alone narrows nothing.
Transactions(q) ==
    LET countries == {CountryOf[s] : s \in PartnersOwn(q)} IN
    IF q.station # Nowhere THEN At(RowsOf("transaction"), {q.station})
    ELSE IF q.partner # Nowhere /\ countries # {}
         THEN {r \in RowsOf("transaction") : HomeOf[r.user] \in countries}
    ELSE RowsOf("transaction")

InState(S, states) == {r \in S : r.state \in states}
OnDay(S, d)        == {r \in S : r.day = d}
Recent(S)          == {r \in S : r.day + Week > today}
UsersOf(S)         == {r.user : r \in S}

Sent(where) == InState(At(RowsOf("message"), where), {"live", "replied"})
Calls(where) == At(RowsOf("call"), where)

-----------------------------------------------------------------------------
(* The statistics.                                                          *)

\* Who is known at a station: by a message, a call, a follow or a deduction.
HeardAt(where) ==
    UsersOf(Sent(where) \cup Calls(where) \cup InState(At(RowsOf("transaction"), where), Spent))
FollowersAt(where) == UsersOf(At(RowsOf("follow"), where))

ListenersOf(q) ==
    IF StationRole(q) THEN HeardAt({q.station}) \cup FollowersAt({q.station})
    ELSE IF PartnerRole(q) /\ q.partner # Nowhere
         THEN {u \in Listeners : HomeOf[u] = CountryOf[q.partner]}
    ELSE Listeners

\* A follower counts as active whenever he followed; elsewhere the last sign-in counts.
ActiveOf(q) ==
    IF StationRole(q)
    THEN UsersOf(Recent(Sent({q.station}) \cup Calls({q.station})
                        \cup InState(At(RowsOf("transaction"), {q.station}), Spent)))
         \cup FollowersAt({q.station})
    ELSE ListenersOf(q) \cap UsersOf(Recent(RowsOf("login")))

Core(q) ==
    [messages  |-> Cardinality(Sent(StatsScope(q))),
     calls     |-> Cardinality(Calls(StatsScope(q))),
     revenue   |-> Cardinality(InState(At(RowsOf("statement"), StatsScope(q)), {"paid"})),
     listeners |-> Cardinality(ListenersOf(q)),
     active    |-> Cardinality(ActiveOf(q))]

\* Mutant: a refund counts as a collection.
HourlyRefunds(q) ==
    LET now == OnDay(Transactions(q), today) IN
    [collections   |-> Cardinality(InState(now, Collection \cup {"refund"})),
     disbursements |-> Cardinality(InState(now, Spent))]

\* The hours of today, together: whatever is not collected counts as disbursed.
Hourly(q) ==
    LET now == OnDay(Transactions(q), today) IN
    [collections   |-> Cardinality(InState(now, Collection)),
     disbursements |-> Cardinality(now \ InState(now, Collection))]

\* sumCreditsForPeriod over a period of days, and the period of that length before it.
SumCredits(q, from, to) ==
    Cardinality({r \in InState(Transactions(q), Collection) : r.day \in from .. to})
CashFlow(q, from, to) ==
    LET length == to + 1 - from IN
    [amount         |-> SumCredits(q, from, to),
     previousAmount |-> IF from = 0 THEN 0
                        ELSE SumCredits(q, IF length > from THEN 0 ELSE from - length, from - 1)]

Daily(q) ==
    [d \in 0 .. today |->
        [collections   |-> Cardinality(OnDay(InState(Transactions(q), Collection), d)),
         disbursements |-> Cardinality(OnDay(InState(Transactions(q), Deduction), d))]]

-----------------------------------------------------------------------------
(* Series, the oldest Periods of those that have rows, and lists.           *)

DaysOf(S)  == {r.day : r \in S}
Oldest(D)  == {d \in D : Cardinality({e \in D : e < d}) < Periods}
Series(S)  == [d \in Oldest(DaysOf(S)) |-> Cardinality(OnDay(S, d))]
Total(f)   == MapThenSumSet(LAMBDA d : f[d], DOMAIN f)

MessageActivity(q)  == Series(Sent(Scope(q)))
CallActivity(q)     == Series(Calls(Scope(q)))
ListenerActivity(q) ==
    LET S == Sent(Scope(q)) IN [d \in Oldest(DaysOf(S)) |-> Cardinality(UsersOf(OnDay(S, d)))]
RevenueActivity(q) ==
    LET S == At(RowsOf("statement"), Scope(q)) IN
    [d \in Oldest(DaysOf(S)) |-> Cardinality(OnDay(InState(S, {"paid"}), d))]
\* A status is seen once: its views are as many as the statuses.
CampaignActivity(q) == Series(At(RowsOf("status"), Scope(q)))
CampaignStats(q) ==
    LET S == At(RowsOf("status"), Scope(q)) IN
    [active |-> Cardinality(InState(S, {"live"})), expired |-> Cardinality(InState(S, {"expired"})),
     views  |-> Cardinality(S)]

\* The calls that were taken.
Taken == {"answered", "completed"}

StationOverview(q) ==
    [s \in Scope(q) |->
        [messages  |-> Cardinality(Sent({s})),
         listeners |-> Cardinality(UsersOf(Sent({s}))),
         calls     |-> Cardinality(Calls({s})),
         answered  |-> Cardinality(InState(Calls({s}), Taken)),
         missed    |-> Cardinality(InState(Calls({s}), {"missed"})),
         live      |-> Cardinality(InState(At(RowsOf("status"), {s}), {"live"}))]]

\* The limit with the highest scores, each with its score; there may be ties.
Highest(score, limit) ==
    {[s \in T |-> score[s]] : T \in
        {T \in SUBSET DOMAIN score :
            /\ Cardinality(T) = Min({limit, Cardinality(DOMAIN score)})
            /\ \A s \in T, t \in DOMAIN score \ T : score[s] >= score[t]}}

Scored(f) == [s \in {t \in DOMAIN f : f[t] > 0} |-> f[s]]

\* The stations that have messages, the most first; as many as asked for.
TopStations(q, limit) ==
    Highest(Scored([s \in Scope(q) |-> Cardinality(Sent({s}))]), limit)

\* The shows likewise; when no message is of a show, any shows, with 0, and then of a
\* station or a partner, but not of a country.
TopShows(q, limit) ==
    LET heard == Scored([h \in Shows |-> Cardinality({r \in Sent(Scope(q)) : r.show = h})])
        any   == Scope([q EXCEPT !.country = Nowhere])
    IN IF DOMAIN heard # {} THEN Highest(heard, limit)
       ELSE Highest([h \in {g \in Shows : ShowStation[g] \in any} |-> 0], limit)

\* The limit newest.
Latest(S, limit) == {r \in S : Cardinality({t \in S : t.id > r.id}) < limit}

\* The newest messages and challenge entries, each list cut before they are merged.  The
\* country is not heeded.
RecentActivity(q, limit) ==
    LET where == Scope([q EXCEPT !.country = Nowhere]) IN
    Latest(Latest(Sent(where), limit) \cup Latest(At(RowsOf("play"), where), limit), limit)

CallOperations(q) ==
    LET in(states) == Cardinality(InState(Calls(Scope(q)), states)) IN
    [total |-> Cardinality(Calls(Scope(q))), answered |-> in(Taken), queued |-> in({"queued"}),
     missed |-> in({"missed"}), rejected |-> in({"rejected"})]

\* getLiveStats, of the show on air: an answered message counts even if it was deleted.
LiveStats(h) ==
    LET of(kind, states) == Cardinality({r \in OnDay(InState(RowsOf(kind), states), today) : r.show = h})
    IN [incomingMessages       |-> of("message", {"live", "replied"}),
        calls                  |-> of("call", States.call),
        waitingCalls           |-> of("call", {"queued"}),
        uncutCalls             |-> of("call", Taken),
        successfulInteractions |-> of("call", Taken)
                                   + of("message", {"replied", "repliedDeleted"})]

CreditStats(q) ==
    [purchased |-> Cardinality(InState(Transactions(q), {"purchase"})),
     used      |-> Cardinality(InState(Transactions(q), Deduction)),
     completed |-> Cardinality(Transactions(q))]

CountryRevenue(q) ==
    LET paid == InState(At(RowsOf("statement"), Scope(q)), {"paid"}) IN
    [c \in {CountryOf[r.station] : r \in paid} |-> Cardinality({r \in paid : CountryOf[r.station] = c})]

-----------------------------------------------------------------------------
(* The rows' life: what other parts of the backend store and change.        *)

Store(kind) ==
    /\ Cardinality(rows) < MaxRows
    /\ \E state \in Fresh[kind], u \in Listeners :
         \E where \in Place(kind, state) : \E show \in Show(kind, where) :
            rows' = rows \cup {[kind |-> kind, station |-> where, show |-> show, user |-> u,
                                 day |-> today, state |-> state, id |-> Cardinality(rows)]}
    /\ UNCHANGED <<today, reading, cache>>

\* A message is answered or deleted, a call moves on, a status runs out.
Changes ==
    /\ \E r \in rows : \E state \in Becomes(r.kind, r.state) :
          rows' = (rows \ {r}) \cup {[r EXCEPT !.state = state]}
    /\ UNCHANGED <<today, reading, cache>>

NextDay ==
    /\ today < MaxDay
    /\ today' = today + 1
    /\ UNCHANGED <<rows, reading, cache>>

(* The statistics' cache.                                                   *)

StatsKey(q) ==
    <<q.role, IF StationRole(q) THEN q.station ELSE IF PartnerRole(q) THEN q.partner ELSE "global",
      q.station, q.country>>

\* getStats: what is held for the key, or a reading of it, the core figures first.
GetStats(q) ==
    /\ reading = Nothing
    /\ StatsKey(q) \notin DOMAIN cache /\ Cardinality(DOMAIN cache) < MaxHeld
    /\ reading' = [is |-> "core", asked |-> q, core |-> Core(q)]
    /\ UNCHANGED <<rows, today, cache>>

FillStats ==
    /\ reading # Nothing
    /\ LET k == StatsKey(reading.asked)
           s == [asked |-> reading.asked, core |-> reading.core, hourly |-> Hourly(reading.asked)]
       IN cache' = [c \in DOMAIN cache \cup {k} |-> IF c = k THEN s ELSE cache[c]]
    /\ reading' = Nothing
    /\ UNCHANGED <<rows, today>>

\* Two minutes.
Expires ==
    /\ \E k \in DOMAIN cache : cache' = [c \in DOMAIN cache \ {k} |-> cache[c]]
    /\ UNCHANGED <<rows, today, reading>>

Next ==
    \/ \E kind \in DOMAIN States : Store(kind)
    \/ Changes \/ NextDay
    \/ \E q \in Requests : GetStats(q)
    \/ FillStats \/ Expires

Init ==
    /\ rows = {} /\ today = 0
    /\ reading = Nothing
    /\ cache = [k \in {} |-> Nothing]

Spec == Init /\ [][Next]_vars

-----------------------------------------------------------------------------
MessagesAgree(q, overview) ==
    LET sent     == Cardinality(Sent(StatsScope(q)))
        activity == MessageActivity(q)
        senders  == ListenerActivity(q)
    IN
    /\ Cardinality(DaysOf(Sent(Scope(q)))) <= Periods => Total(activity) = sent
    /\ \A top \in TopStations(q, Cardinality(Stations)) :
          /\ Total(top) = sent
          /\ \A s \in DOMAIN top : overview[s].messages = top[s]
    /\ \A top \in TopShows(q, Cardinality(Shows)) : \A s \in Stations :
          LET ofStation == {h \in DOMAIN top : ShowStation[h] = s} IN
          Total([h \in ofStation |-> top[h]]) <= IF s \in Scope(q) THEN overview[s].messages ELSE 0
    /\ \A d \in DOMAIN senders : senders[d] <= activity[d]
    /\ ActiveOf(q) \subseteq ListenersOf(q)
    /\ \A limit \in 1 .. MaxRows :
          LET recent == RecentActivity(q, limit)
              missed == At(InState(RowsOf("message") \cup RowsOf("play"), {"live", "replied", "done"}), Scope(q)) \ recent
          IN missed # {} => /\ Cardinality(recent) = limit
                            /\ \A r \in recent, t \in missed : r.id > t.id

\* A cancelled call counts only among all calls.
CallsAgree(q, overview) ==
    LET ops       == CallOperations(q)
        cancelled == InState(Calls(Scope(q)), {"cancelled"})
    IN
    /\ ops.total = ops.answered + ops.queued + ops.missed + ops.rejected + Cardinality(cancelled)
    /\ ops.total = Total([s \in Scope(q) |-> overview[s].calls])
    /\ ops.answered = Total([s \in Scope(q) |-> overview[s].answered])
    /\ Total(CallActivity(q)) <= Core(q).calls

\* What a show had today is its station's; with nothing deleted, what succeeded came in.
ShowAgrees(h, overview) ==
    LET live    == LiveStats(h)
        s       == ShowStation[h]
        deleted == InState(At(RowsOf("message"), {s}), {"repliedDeleted"})
    IN
    /\ live.waitingCalls + live.uncutCalls <= live.calls
    /\ live.calls <= overview[s].calls /\ live.uncutCalls <= overview[s].answered
    /\ live.incomingMessages <= overview[s].messages
    /\ deleted = {} => live.successfulInteractions <= live.calls + live.incomingMessages

MoneyAgrees(q) ==
    LET flow    == CashFlow(q, today, today)
        hourly  == Hourly(q)
        daily   == Daily(q)
        revenue == Total(CountryRevenue(q))
    IN
    /\ hourly.collections = flow.amount
    /\ hourly.collections = daily[today].collections
    /\ hourly.disbursements >= daily[today].disbursements
    /\ SumCredits(q, 0, today) >= CreditStats(q).purchased
    /\ today > 0 => flow.previousAmount = daily[today - 1].collections
    /\ revenue = Core(q).revenue
    /\ Total(RevenueActivity(q)) <= revenue

CampaignsAgree(q) ==
    LET stats == CampaignStats(q) IN
    /\ stats.active + stats.expired = stats.views
    /\ Total(CampaignActivity(q)) <= stats.views

\* The widgets of a dashboard that is opened agree, whatever was stored, deleted or moved
\* on: the series, overview and rankings sum to the statistics (as long as their periods
\* fit), today's hours to today's cash flow and day, the latest activity leaves out nothing
\* newer, and the active are listeners.
FiguresAgree ==
    reading # Nothing =>
        LET q        == reading.asked
            overview == StationOverview(q)
        IN
        /\ MessagesAgree(q, overview) /\ CallsAgree(q, overview)
        /\ MoneyAgrees(q) /\ CampaignsAgree(q)
        /\ \A h \in Shows : ShowStation[h] \in Scope(q) => ShowAgrees(h, overview)

\* What is answered from the cache is of what was asked for, however old: no figure
\* counts more than there ever was in that scope.
CoreWithin(q, core) ==
    /\ core.messages <= Cardinality(At(RowsOf("message"), StatsScope(q)))
    /\ core.calls <= Cardinality(Calls(StatsScope(q)))
    /\ core.revenue <= Cardinality(At(RowsOf("statement"), StatsScope(q)))
    /\ core.listeners <= Cardinality(Listeners)

Within(q, stats) ==
    /\ CoreWithin(q, stats.core)
    /\ stats.hourly.collections <= Cardinality(InState(Transactions(q), Collection))

Served(q) == StatsKey(q) \in DOMAIN cache

\* dashboard.repository.ts:211: every filter that changes the numbers is part of the key.
\* It is not so for the partner a super admin asks for.
StatsAreOfScope == \A q \in Requests : Served(q) => Within(q, cache[StatsKey(q)])

\* It is not of it for a super admin who asks for a partner, or for a country, once it was
\* read for another partner; for everything, for a station and for a partner's own staff it is.
PartnerMatters(q) ==
    ~PartnerRole(q) /\ q.station = Nowhere /\ (q.partner # Nowhere \/ q.country # Nowhere)

StatsAreOfScopeUnlessPartner ==
    \A q \in Requests :
        Served(q) /\ (PartnerMatters(q) => cache[StatsKey(q)].asked.partner = q.partner)
            => Within(q, cache[StatsKey(q)])

-----------------------------------------------------------------------------
(* Why: the rows are what the parts that store them leave, each with a number *)
(* of its own, and they get no fewer; what was read of them, and what is held *)
(* of that, is of the scope it was read for and held under its key.           *)
RowsAreStored ==
    /\ IsFiniteSet(rows)
    /\ rows \subseteq [kind : DOMAIN States, station : Stations \cup {Nowhere},
                       show : Shows \cup {Nowhere}, user : Listeners, day : 0 .. today,
                       state : UNION {States[kind] : kind \in DOMAIN States},
                       id : 0 .. Cardinality(rows) - 1]
    /\ \A r \in rows : /\ r.state \in States[r.kind] /\ r.station \in Place(r.kind, r.state)
                       /\ r.show \in Show(r.kind, r.station)
    /\ \A r, t \in rows : r.id = t.id => r = t

Figures == [messages : Nat, calls : Nat, revenue : Nat, listeners : Nat, active : Nat]

IsReading == /\ reading \in [is : {"core"}, asked : Requests, core : Figures]
             /\ CoreWithin(reading.asked, reading.core)

CacheIsOfItsKeys ==
    \A k \in DOMAIN cache :
        /\ cache[k] \in [asked : Requests, core : Figures,
                          hourly : [collections : Nat, disbursements : Nat]]
        /\ StatsKey(cache[k].asked) = k
        /\ Within(cache[k].asked, cache[k])

IInv ==
    /\ today \in Nat
    /\ RowsAreStored
    /\ reading = Nothing \/ IsReading
    /\ CacheIsOfItsKeys
=============================================================================
