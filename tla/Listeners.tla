------------------------------- MODULE Listeners -------------------------------
(***************************************************************************)
(* What staff are told of listeners and of one another (user.service.ts): the *)
(* lists, a listener's figures and votes, the top fans.  A message bears the  *)
(* number its sender had, and the station's list goes by it; an administrator *)
(* may give a listener another number, and staff another station, which       *)
(* leaves them their partner.  Deleting a message leaves its row.             *)
(***************************************************************************)
EXTENDS Naturals, FiniteSets, FiniteSetsExt

CONSTANTS
    Listeners, Numbers, FirstNumber,  \* the listeners, and the number each starts with
    Stations, PollChannels,           \* the stations, and those that are channels of polls
    Staff, FirstPost,                 \* the other accounts: [role, station, partner] each is
                                      \* created with, Nowhere for customer care
    PartnerOf, Nowhere,
    Most,                             \* the most active senders and callers that are ranked
    Listed,                           \* how many fans the list names
    MaxRows, MaxBlocked               \* bounds, MaxRows of rows, of staff given a station and
                                      \* of the blocked together

Partners == {PartnerOf[s] : s \in Stations}
Posts    == [role    : {"presenter", "media_station", "station_admin", "customer_care"},
             station : Stations \cup {Nowhere},
             partner : Partners \cup {Nowhere}]

ListenersAssumption ==
    /\ IsFiniteSet(Listeners) /\ IsFiniteSet(Staff)
    /\ FirstNumber \in [Listeners -> Numbers]
    /\ \A u, v \in Listeners : FirstNumber[u] = FirstNumber[v] => u = v
    /\ PollChannels \subseteq Stations /\ Nowhere \notin Stations
    /\ DOMAIN PartnerOf = Stations /\ \A s \in Stations : PartnerOf[s] # Nowhere
    /\ FirstPost \in [Staff -> Posts]
    /\ \A p \in Staff :
          IF FirstPost[p].role = "customer_care"
          THEN FirstPost[p].station = Nowhere /\ FirstPost[p].partner = Nowhere
          ELSE /\ FirstPost[p].station \in Stations
               /\ FirstPost[p].partner = PartnerOf[FirstPost[p].station]
    /\ Most \in Nat \ {0} /\ Listed \in Nat \ {0}
    /\ {MaxRows, MaxBlocked} \subseteq Nat

VARIABLES
    rows,          \* messages, calls and votes: [kind, user, station, msisdn, deleted, id]
    phone,
    blocked,       \* listeners and staff
    asked,         \* a fan's details that are being read, or were
    post,          \* of each of the staff
    moved          \* history: listeners whose number, and staff whose station, was changed

vars == <<rows, phone, blocked, asked, post, moved>>

Nobody == [at |-> "nobody"]

TypeOK ==
    /\ Cardinality(rows) <= MaxRows
    /\ \A r \in rows : r.user \in Listeners /\ r.station \in Stations /\ r.msisdn \in Numbers
    /\ phone \in [Listeners -> Numbers]
    /\ blocked \subseteq Listeners \cup Staff
    /\ asked.at \in {"nobody", "counted", "answered"}
    /\ post \in [Staff -> Posts]
    /\ moved \subseteq Listeners \cup Staff

Init ==
    /\ rows = {} /\ phone = FirstNumber /\ blocked = {} /\ asked = Nobody
    /\ post = FirstPost /\ moved = {}

-----------------------------------------------------------------------------
(* The lists.                                                               *)

Of(kind)   == {r \in rows : r.kind = kind}
ByUser(S, u) == {r \in S : r.user = u}
In(S, scope) == {r \in S : scope = Nowhere \/ r.station = scope}

\* getListenerPhoneNumbersByStation: of the messages that are not deleted.
NumbersOf(s) == {r.msisdn : r \in {m \in Of("message") : m.station = s /\ ~m.deleted}}

\* getAllListeners: all, or those whose number wrote to the station, or who voted in it.
AllListeners(scope) ==
    IF scope = Nowhere THEN Listeners
    ELSE IF scope \in PollChannels
         THEN {u \in Listeners : ByUser(In(Of("vote"), scope), u) # {}}
    ELSE {u \in Listeners : phone[u] \in NumbersOf(scope)}

\* Those of the scope, and of the station asked for, which a scope of one station does
\* not heed.
StaffOf(role, scope, ask) ==
    {p \in Staff :
        /\ post[p].role = role
        /\ scope.station # Nowhere => post[p].station = scope.station
        /\ scope.station = Nowhere =>
              /\ scope.partner # Nowhere =>
                    scope.partner \in {post[p].partner, PartnerOf[post[p].station]}
              /\ ask # Nowhere => post[p].station = ask}

Presenters(scope, ask)    == StaffOf("presenter", scope, ask)
MediaStations(scope, ask) == StaffOf("media_station", scope, ask)

\* Only by the partner and the station asked for.
StationAdmins(scope, ask) ==
    {p \in Staff :
        /\ post[p].role = "station_admin"
        /\ scope.partner # Nowhere => post[p].partner = scope.partner
        /\ ask # Nowhere => post[p].station = ask}

\* Only by the partner: the country is asked for as a field no account has, and mongoose
\* drops that from the filter (strictQuery).  No customer care agent has a partner.
CustomerCare(scope) ==
    {p \in Staff : post[p].role = "customer_care" /\ scope.partner \in {Nowhere, post[p].partner}}

\* A page and its totals: of those asked for, and of both kinds.
Page(S, active) ==
    [total         |-> Cardinality(IF active THEN S \ blocked ELSE S \cap blocked),
     activeTotal   |-> Cardinality(S \ blocked),
     inactiveTotal |-> Cardinality(S \cap blocked)]

\* A row of the list counts what the listener sent, deleted or not; his own page does not
\* count what is deleted, and counts what was sent from his number by another.
MessageCount(u) == Cardinality(ByUser(Of("message"), u))
CallCount(u)    == Cardinality(ByUser(Of("call"), u))
VoteCount(u)    == Cardinality(ByUser(Of("vote"), u))

Detail(u) ==
    [totalMessages |-> Cardinality({r \in Of("message") :
                            ~r.deleted /\ (r.user = u \/ r.msisdn = phone[u])}),
     totalCalls    |-> CallCount(u),
     totalVotes    |-> VoteCount(u)]

Votes(u) == ByUser(Of("vote"), u)

-----------------------------------------------------------------------------
(* Top fans.                                                                *)

Counted(kind, scope, u) == Cardinality(ByUser(In(Of(kind), scope), u))

\* The Most that sent (or called) most; which of those that are level is up to the database.
Top(kind, scope) ==
    LET some     == {u \in Listeners : Counted(kind, scope, u) > 0}
        n        == Min({Most, Cardinality(some)})
    IN {T \in SUBSET some :
            /\ Cardinality(T) = n
            /\ \A u \in T, v \in some \ T : Counted(kind, scope, u) >= Counted(kind, scope, v)}

Weigh(messages, calls) == 2 * messages + 5 * calls

\* Mutant: only those among the most active senders are ranked.
SendersOnly(senders, callers) == senders

Ranked(senders, callers) == senders \cup callers

\* A fan's score in the list: what he is not among the Most in counts for nothing.
Score(scope, senders, callers, u) ==
    Weigh(IF u \in senders THEN Counted("message", scope, u) ELSE 0,
          IF u \in callers THEN Counted("call", scope, u) ELSE 0)

\* The lists there can be: fans with their scores, the Listed with the highest.
TopFans(scope) ==
    UNION {LET fans     == Ranked(senders, callers)
               score(u) == Score(scope, senders, callers, u)
           IN {[u \in F |-> score(u)] : F \in {F \in SUBSET fans :
                    /\ Cardinality(F) = Min({Listed, Cardinality(fans)})
                    /\ \A u \in F, v \in fans \ F : score(u) >= score(v)}}
        : senders \in Top("message", scope), callers \in Top("call", scope)}

RankIn(list, u) ==
    IF u \in DOMAIN list THEN 1 + Cardinality({v \in DOMAIN list : list[v] > list[u]}) ELSE 0

\* getTopFanById: his figures, and then his rank in a list made later.
AskFan(scope, u) ==
    /\ asked = Nobody
    /\ asked' = [at |-> "counted", scope |-> scope, fan |-> u,
                 score |-> Weigh(Counted("message", scope, u), Counted("call", scope, u))]
    /\ UNCHANGED <<rows, phone, blocked, post, moved>>

RankFan ==
    /\ asked.at = "counted"
    /\ \E list \in TopFans(asked.scope) :
          asked' = [at |-> "answered", scope |-> asked.scope, fan |-> asked.fan,
                    score |-> asked.score, rank |-> RankIn(list, asked.fan), list |-> list]
    /\ UNCHANGED <<rows, phone, blocked, post, moved>>

\* The answer is sent.
Answered ==
    /\ asked.at = "answered"
    /\ asked' = Nobody
    /\ UNCHANGED <<rows, phone, blocked, post, moved>>

-----------------------------------------------------------------------------
(* What listeners and staff do.                                             *)

Full == Cardinality(rows) + Cardinality(moved \cap Staff) + Cardinality(blocked) >= MaxRows

Acts(kind, u, s) ==
    /\ ~Full
    /\ u \notin blocked
    /\ kind = "vote" <=> s \in PollChannels
    /\ rows' = rows \cup {[kind |-> kind, user |-> u, station |-> s, msisdn |-> phone[u],
                           deleted |-> FALSE, id |-> Cardinality(rows)]}
    /\ UNCHANGED <<phone, blocked, asked, post, moved>>

DeleteMessage ==
    /\ \E r \in Of("message") :
          ~r.deleted /\ rows' = (rows \ {r}) \cup {[r EXCEPT !.deleted = TRUE]}
    /\ UNCHANGED <<phone, blocked, asked, post, moved>>

\* Another number for a listener, or another station for one of the staff, whose partner
\* stays as it is.  Once for each: a bound.
UpdateUserById(u) ==
    /\ u \notin moved
    /\ \/ /\ u \in Listeners
          /\ \E n \in Numbers \ {phone[u]} : phone' = [phone EXCEPT ![u] = n]
          /\ UNCHANGED post
       \/ /\ u \in Staff /\ ~Full
          /\ \E s \in Stations : post' = [post EXCEPT ![u].station = s]
          /\ UNCHANGED phone
    /\ moved' = moved \cup {u}
    /\ UNCHANGED <<rows, blocked, asked>>

Block(p) ==
    /\ p \in blocked \/ (~Full /\ Cardinality(blocked) < MaxBlocked)
    /\ blocked' = IF p \in blocked THEN blocked \ {p} ELSE blocked \cup {p}
    /\ UNCHANGED <<rows, phone, asked, post, moved>>

Next ==
    \/ \E u \in Listeners, s \in Stations :
          \E kind \in {"message", "call", "vote"} : Acts(kind, u, s)
    \/ DeleteMessage
    \/ \E u \in Listeners \cup Staff : UpdateUserById(u)
    \/ \E p \in Listeners \cup Staff : Block(p)
    \/ \E scope \in Stations \cup {Nowhere}, u \in Listeners : AskFan(scope, u)
    \/ RankFan \/ Answered

Spec == Init /\ [][Next]_vars

-----------------------------------------------------------------------------
\* Who was given a station of another partner's.
Strays == {p \in Staff : post[p].role # "customer_care"
                         /\ post[p].partner # PartnerOf[post[p].station]}

\* A partner's list of staff is made of those of its stations, whichever of them is asked
\* for, and of those it lost to another's station, whom it keeps; its list of administrators
\* has those too, and not those it got.  One who is of a list is counted in its totals.
StaffListsAgree(p) ==
    LET role     == post[p].role
        List(scope, ask) == IF role = "presenter" THEN Presenters(scope, ask)
                                                  ELSE MediaStations(scope, ask)
        at(s)    == [station |-> s, partner |-> Nowhere]
        of(q)    == [station |-> Nowhere, partner |-> q]
        own(q)   == {s \in Stations : PartnerOf[s] = q}
        lost(q)  == {o \in Strays : post[o].role = role /\ post[o].partner = q}
        all      == List(of(Nowhere), Nowhere)
    IN
    /\ role \in {"presenter", "media_station"} =>
          \A q \in Partners :
              /\ List(of(q), Nowhere) = (UNION {List(at(s), Nowhere) : s \in own(q)}) \cup lost(q)
              /\ \A s \in Stations :
                    List(of(q), s) = IF s \in own(q) THEN List(at(s), Nowhere)
                                     ELSE {o \in lost(q) : post[o].station = s}
    /\ role = "station_admin" =>
          \A q \in Partners :
              StationAdmins(of(q), Nowhere) =
                  ((UNION {StationAdmins(of(Nowhere), s) : s \in own(q)}) \ Strays) \cup lost(q)
    /\ role = "customer_care" => p \in CustomerCare(of(Nowhere))
    /\ Page(all, TRUE).total + Page(all, FALSE).total = Cardinality(all)
    /\ p \in all => Page(all, p \notin blocked).total > 0

\* A list and a listener's page tell the same, but for what is deleted, as long as
\* nobody's number was changed; then nobody who wrote to a station is missing from its
\* list or a stranger in it; and the lists of staff agree.
ListsAgree ==
    /\ moved \cap Listeners = {} =>
          /\ \A u \in Listeners :
                MessageCount(u) = Detail(u).totalMessages
                                  + Cardinality({r \in ByUser(Of("message"), u) : r.deleted})
          /\ \A s \in Stations \ PollChannels :
                AllListeners(s) = {r.user : r \in {m \in Of("message") :
                                                        m.station = s /\ ~m.deleted}}
    /\ \A u \in Listeners : /\ Detail(u).totalVotes = Cardinality(Votes(u))
                            /\ Votes(u) # {} => \E s \in PollChannels : u \in AllListeners(s)
    /\ \A p \in Staff : StaffListsAgree(p)

\* A fan's rank was never worked out over fewer of his messages and calls than his page
\* shows, though they are read one after the other and messages are deleted in between; and
\* no fan with a higher score is left out, as long as all who are active are ranked.
FansAgree ==
    asked.at = "answered" /\ Cardinality(Listeners) <= Most =>
        /\ asked.rank > 0 => asked.list[asked.fan] >= asked.score
        /\ asked.rank = 0 /\ asked.score > 0 =>
              /\ Cardinality(DOMAIN asked.list) = Listed
              /\ \A v \in DOMAIN asked.list : asked.list[v] >= asked.score

ListenersAgree == ListsAgree /\ FansAgree

-----------------------------------------------------------------------------
(* Why: each row bears its sender's number as long as it is not changed, rows *)
(* are never removed, and so a fan's messages and calls get no fewer between  *)
(* the reading of his figures and that of his rank; nobody's role or partner  *)
(* changes.                                                                   *)
RowsAreStored ==
    /\ IsFiniteSet(rows)
    /\ rows \subseteq [kind : {"message", "call", "vote"}, user : Listeners, station : Stations,
                       msisdn : Numbers, deleted : BOOLEAN, id : 0 .. Cardinality(rows) - 1]
    /\ \A r \in rows : r.kind = "vote" <=> r.station \in PollChannels
    /\ \A r, t \in rows : r.id = t.id => r = t

NumbersStay ==
    moved \cap Listeners = {} =>
        /\ phone = FirstNumber
        /\ \A r \in rows : r.msisdn = FirstNumber[r.user]

PartnersStay ==
    /\ post \in [Staff -> Posts]
    /\ \A p \in Staff :
          /\ post[p].role = FirstPost[p].role
          /\ post[p].partner = FirstPost[p].partner
          /\ FirstPost[p].station \in Stations => post[p].station \in Stations

ScoreGrows ==
    asked.at = "counted" =>
        /\ asked.scope \in Stations \cup {Nowhere} /\ asked.fan \in Listeners /\ asked.score \in Nat
        /\ asked.score <= Weigh(Counted("message", asked.scope, asked.fan),
                                Counted("call", asked.scope, asked.fan))

IInv ==
    /\ phone \in [Listeners -> Numbers]
    /\ PartnersStay /\ RowsAreStored /\ NumbersStay /\ ScoreGrows /\ FansAgree
=============================================================================
