-------------------------------- MODULE People --------------------------------
(***************************************************************************)
(* What people do with the system.  Who may use it and from where: the        *)
(* creation of accounts, the sign-in by phone, the second factor, the refresh *)
(* tokens, the sessions and their sockets, who is there, the stations' API    *)
(* keys and the push tokens.  What listeners use: the threads of messages,    *)
(* the statuses, the weekly posts, the support tickets and the stations.      *)
(* What staff are told of them: statements, dashboard and lists.  They share  *)
(* no state, so a behaviour is one of one of them: service says of which, and *)
(* v1 .. v11 are that module's variables, those it does not need constant.    *)
(***************************************************************************)
EXTENDS Naturals, TLC

CONSTANTS
    A, B, R, D,          \* whoever and whatever there is several of: see the instances
    Devices,             \* of one listener, by which he reads
    Messages, AnsweredCalls,  \* of his, with statements
    Tokens,              \* refresh tokens
    Books, Board, Crowd, \* what is given to statements, dashboard and lists: see the instances
    MaxThread, MaxClock, MaxFaults, MaxCodes, MaxAttempts, MaxResets, MaxOutages, MaxHits, MaxMessages, MaxRestarts

\* A station for the message and one for the call, and everybody who may ask.
TwoBooks ==
    LET sources == Messages \cup AnsweredCalls IN
    [stationOf |-> [s \in sources |-> IF s \in Messages THEN "s1" ELSE "s2"],
     showOf    |-> [s \in sources |-> IF s \in Messages THEN "h1" ELSE "h2"],
     partnerOf |-> [s \in {"s1", "s2"} |-> "p"],
     viewers   |-> [role : {"user"}, id : {"listener", "other"}]
                   \cup [role : {"station_admin"}, id : {"s1", "s2"}]
                   \cup [role : {"customer_care"}, id : {"any", "s1"}]
                   \cup [role : {"partner_admin"}, id : {"p", "q"}]
                   \cup [role : {"presenter"}, id : {"h1", "h2"}]
                   \cup [role : {"super_admin"}, id : {"any"}]]

\* A request for figures: by whom, and of which station, partner or country.
Request(role, station, partner, country) ==
    [role |-> role, station |-> station, partner |-> partner, country |-> country]

\* Two partners with a station and a show each, in two countries.
TwoPartners ==
    [stations    |-> {"s1", "s2"},
     partnerOf   |-> [s \in {"s1", "s2"} |-> IF s = "s1" THEN "p1" ELSE "p2"],
     countryOf   |-> [s \in {"s1", "s2", "p1", "p2"} |-> IF s \in {"s1", "p1"} THEN "c1" ELSE "c2"],
     listeners   |-> {"u"},
     homeOf      |-> [u \in {"u"} |-> "c1"],
     shows       |-> {"h1", "h2"},
     showStation |-> [h \in {"h1", "h2"} |-> IF h = "h1" THEN "s1" ELSE "s2"],
     requests    |-> {Request("super_admin", "n", "n", "n"), Request("super_admin", "n", "n", "c1"),
                      Request("super_admin", "n", "p1", "n"), Request("partner_admin", "n", "p2", "n"),
                      Request("station_admin", "s1", "n", "n")},
     types       |-> {"purchase", "message_deduction", "refund"},
     periods |-> 1, week |-> 1, maxRows |-> 2, maxDay |-> 1, maxHeld |-> 1]

\* Two listeners, a station and a channel of polls, and staff of each and of neither.
TwoFans ==
    [firstNumber  |-> [u \in {"u", "v"} |-> IF u = "u" THEN "1" ELSE "2"],
     numbers      |-> {"1", "2"},
     partnerOf    |-> [s \in {"s", "c"} |-> IF s = "s" THEN "p" ELSE "q"],
     pollChannels |-> {"c"},
     post         |-> [p \in {"w", "x", "y"} |->
                        IF p = "w" THEN [role |-> "presenter", station |-> "s", partner |-> "p"]
                        ELSE IF p = "x" THEN [role |-> "station_admin", station |-> "c", partner |-> "q"]
                        ELSE [role |-> "customer_care", station |-> "n", partner |-> "n"]],
     most |-> 2, listed |-> 1, maxRows |-> 2, maxBlocked |-> 1]

\* The sets are of interchangeable values.
Symmetry == Permutations(A) \cup Permutations(B) \cup Permutations(R)

VARIABLES service, v1, v2, v3, v4, v5, v6, v7, v8, v9, v10, v11

vars == <<service, v1, v2, v3, v4, v5, v6, v7, v8, v9, v10, v11>>

Is(name) == service = name

StaffAccounts == INSTANCE StaffAccounts WITH
    Requests <- R, Names <- A, Usernames <- B, Nobody <- "nobody",
    job <- v1, container <- v2, auth <- v3, profile <- v4, late <- v5, faults <- v6

SignIn == INSTANCE SignIn WITH
    Requests <- A,
    auths <- v1, codes <- v2, profiles <- v3, job <- v4

TwoFactor == INSTANCE TwoFactor WITH
    Secrets <- R, NoSecret <- "none", Requests <- A,
    doc <- v1, enforced <- v2, job <- v3, fresh <- v4, proved <- v5, crossed <- v6,
    resets <- v7

Refresh == INSTANCE Refresh WITH
    NoToken <- 0, Requests <- R,
    issued <- v1, given <- v2, request <- v3, grace <- v4, revoked <- v5, session <- v6,
    usable <- v7, used <- v8, outages <- v9

Sessions == INSTANCE Sessions WITH
    Sessions <- A, Sockets <- D, Admins <- B,
    row <- v1, marker <- v2, login <- v3, admin <- v4, socket <- v5, spared <- v6,
    late <- v7, closed <- v8, faults <- v9

ApiKeys == INSTANCE ApiKeys WITH
    Keys <- A, Admins <- D, Displays <- B, None <- "none",
    key <- v1, before <- v2, hits <- v3, served <- v4, open <- v5, closing <- v6,
    spared <- v7, admin <- v8, display <- v9

Notifications == INSTANCE Notifications WITH
    Accounts <- A, Phones <- D, None <- "none", Updates <- B, Sends <- D,
    token <- v1, update <- v2, mixed <- v3, send <- v4, status <- v5, shown <- v6

Presence == INSTANCE Presence WITH
    Sockets <- R, Rooms <- {"station"}, MAX_CONNECTIONS_PER_USER <- 2, MAX_ROOMS_PER_SOCKET <- 3,
    sockets <- v1, handshake <- v2, userConnectionCount <- v3, rooms <- v4, joining <- v5,
    online <- v6, closing <- v7, refreshing <- v8, lapsed <- v9, returned <- v10, stray <- v11

Thread == INSTANCE Thread WITH
    Shows <- A, NoShow <- "none", Staff <- B, MaxMessages <- MaxThread,
    thread <- v1, clock <- v2, lastReadAt <- v3, job <- v4, seen <- v5

Statuses == INSTANCE Statuses WITH
    People <- A, Requests <- B, MaxStops <- 1,
    live <- v1, views <- v2, likes <- v3, viewCount <- v4, likeCount <- v5, job <- v6,
    deletion <- v7, uncounted <- v8, stops <- v9

WeeklyPosts == INSTANCE WeeklyPosts WITH
    Runs <- A, Weeks <- {"w1", "w2"}, Fans <- B, None <- "none", MaxRemoved <- 1,
    post <- v1, ranking <- v2, run <- v3, removed <- v4

Support == INSTANCE Support WITH
    Tickets <- A, Agents <- B, Devices <- D, None <- "none",
    ticket <- v1, request <- v2, mixed <- v3

Statements == INSTANCE Statements WITH
    Calls <- AnsweredCalls,
    StationOf <- Books.stationOf, ShowOf <- Books.showOf, PartnerOf <- Books.partnerOf,
    Viewers <- Books.viewers, Anywhere <- "any",
    row <- v1, statement <- v2, booking <- v3, given <- v4, sync <- v5, late <- v6, cut <- v7,
    held <- v8, restarts <- v9

Dashboard == INSTANCE Dashboard WITH
    Stations <- Board.stations, PartnerOf <- Board.partnerOf, CountryOf <- Board.countryOf,
    Listeners <- Board.listeners, HomeOf <- Board.homeOf, Nowhere <- "n",
    Shows <- Board.shows, ShowStation <- Board.showStation, Requests <- Board.requests,
    Types <- Board.types, Periods <- Board.periods, Week <- Board.week,
    MaxRows <- Board.maxRows, MaxDay <- Board.maxDay, MaxHeld <- Board.maxHeld,
    rows <- v1, today <- v2, reading <- v3, cache <- v4

Listeners == INSTANCE Listeners WITH
    Listeners <- DOMAIN Crowd.firstNumber, Numbers <- Crowd.numbers,
    FirstNumber <- Crowd.firstNumber,
    Stations <- DOMAIN Crowd.partnerOf, PollChannels <- Crowd.pollChannels,
    Staff <- DOMAIN Crowd.post, FirstPost <- Crowd.post, PartnerOf <- Crowd.partnerOf, Nowhere <- "n",
    Most <- Crowd.most, Listed <- Crowd.listed,
    MaxRows <- Crowd.maxRows, MaxBlocked <- Crowd.maxBlocked,
    rows <- v1, phone <- v2, blocked <- v3, asked <- v4, moved <- v5, post <- v6

StationList == INSTANCE StationList WITH
    People <- A, Stations <- D, Requests <- B, Hours <- 2,
    Window <- [s \in D |-> [from |-> 1, to |-> 0]],
    follow <- v1, followersCount <- v2, toggle <- v3, isActive <- v4, shows <- v5, switch <- v6,
    list <- v7, hour <- v8, faults <- v9

ASSUME PeopleAssumption ==
    /\ StaffAccounts!AccountsAssumption
    /\ TwoFactor!SecretsAssumption
    /\ Refresh!TokensAssumption
    /\ ApiKeys!KeysAssumption
    /\ Notifications!NotificationsAssumption
    /\ Presence!PresenceAssumption
    /\ Thread!BoundsAssumption /\ Thread!WorkersAssumption
    /\ WeeklyPosts!FansAssumption
    /\ Support!SupportAssumption
    /\ Statements!StatementsAssumption
    /\ Dashboard!DashboardAssumption
    /\ Listeners!ListenersAssumption
    /\ StationList!StationListAssumption

-----------------------------------------------------------------------------
\* The variables from v(i) on are not used.
Unused10 == v10 = "unused" /\ v11 = "unused"
Unused9 == v9 = "unused" /\ Unused10
Unused8 == v8 = "unused" /\ Unused9
Unused7 == v7 = "unused" /\ Unused8
Unused6 == v6 = "unused" /\ Unused7
Unused5 == v5 = "unused" /\ Unused6
Unused4 == v4 = "unused" /\ Unused5

Init ==
    \/ Is("staff accounts") /\ StaffAccounts!Init /\ Unused7
    \/ Is("sign-in") /\ SignIn!Init /\ Unused5
    \/ Is("2FA") /\ TwoFactor!Init /\ Unused8
    \/ Is("refresh") /\ Refresh!Init /\ Unused10
    \/ Is("sessions") /\ Sessions!Init /\ Unused10
    \/ Is("API keys") /\ ApiKeys!Init /\ Unused10
    \/ Is("notifications") /\ Notifications!Init /\ Unused7
    \/ Is("presence") /\ Presence!Init
    \/ Is("thread") /\ Thread!Init /\ Unused6
    \/ Is("status") /\ Statuses!Init /\ Unused10
    \/ Is("weekly posts") /\ WeeklyPosts!Init /\ Unused5
    \/ Is("support") /\ Support!Init /\ Unused4
    \/ Is("statements") /\ Statements!Init /\ Unused10
    \/ Is("dashboard") /\ Dashboard!Init /\ Unused5
    \/ Is("listeners") /\ Listeners!Init /\ Unused7
    \/ Is("stations") /\ StationList!Init /\ Unused10

StaffAccountsStep == Is("staff accounts") /\ StaffAccounts!Next /\ UNCHANGED <<service, v7, v8, v9, v10, v11>>
SignInStep == Is("sign-in") /\ SignIn!Next /\ UNCHANGED <<service, v5, v6, v7, v8, v9, v10, v11>>
TwoFactorStep == Is("2FA") /\ TwoFactor!Next /\ UNCHANGED <<service, v8, v9, v10, v11>>
RefreshStep == Is("refresh") /\ Refresh!Next /\ UNCHANGED <<service, v10, v11>>
SessionsStep == Is("sessions") /\ Sessions!Next /\ UNCHANGED <<service, v10, v11>>
ApiKeysStep == Is("API keys") /\ ApiKeys!Next /\ UNCHANGED <<service, v10, v11>>
NotificationsStep == Is("notifications") /\ Notifications!Next /\ UNCHANGED <<service, v7, v8, v9, v10, v11>>
PresenceStep == Is("presence") /\ Presence!Next /\ UNCHANGED <<service>>
ThreadStep == Is("thread") /\ Thread!Next /\ UNCHANGED <<service, v6, v7, v8, v9, v10, v11>>
StatusesStep == Is("status") /\ Statuses!Next /\ UNCHANGED <<service, v10, v11>>
WeeklyPostsStep == Is("weekly posts") /\ WeeklyPosts!Next /\ UNCHANGED <<service, v5, v6, v7, v8, v9, v10, v11>>
SupportStep == Is("support") /\ Support!Next /\ UNCHANGED <<service, v4, v5, v6, v7, v8, v9, v10, v11>>
StatementsStep == Is("statements") /\ Statements!Next /\ UNCHANGED <<service, v10, v11>>
DashboardStep == Is("dashboard") /\ Dashboard!Next /\ UNCHANGED <<service, v5, v6, v7, v8, v9, v10, v11>>
ListenersStep == Is("listeners") /\ Listeners!Next /\ UNCHANGED <<service, v7, v8, v9, v10, v11>>
StationListStep == Is("stations") /\ StationList!Next /\ UNCHANGED <<service, v10, v11>>

Next ==
    \/ StaffAccountsStep
    \/ SignInStep
    \/ TwoFactorStep
    \/ RefreshStep
    \/ SessionsStep
    \/ ApiKeysStep
    \/ NotificationsStep
    \/ PresenceStep
    \/ ThreadStep
    \/ StatusesStep
    \/ WeeklyPostsStep
    \/ SupportStep
    \/ StatementsStep
    \/ DashboardStep
    \/ ListenersStep
    \/ StationListStep

Spec == Init /\ [][Next]_vars

-----------------------------------------------------------------------------
\* Who has a profile can sign in and owns what he administers, a station has one
\* Media Station account, or a second whose creation was under way, a phone number is
\* one listener, however its first sign-ins overlap, and while a second factor is on,
\* its secret is one the person holds.
AccountsAreWhole ==
    /\ Is("staff accounts") => StaffAccounts!AccountsAreWhole
    /\ Is("sign-in")        => SignIn!OneListener
    /\ Is("2FA")            => TwoFactor!SecretIsHeld

\* A client whose answer was lost, or that asks twice, keeps a token that works.
ClientsKeepAToken == Is("refresh") => Refresh!ClientsKeepAToken

\* What was withdrawn lets nobody in: a revoked session has neither a marker nor a
\* socket, and a replaced key and a closed station's keys answer nobody (nor does a
\* key show more fetches than it answered).
RevokedIsOut ==
    /\ Is("sessions") => Sessions!RevokedIsOut
    /\ Is("API keys") => ApiKeys!KeysAnswerFor

\* A push token belongs to one account, but for updates of it that overlapped.
OneAccountPerToken == Is("notifications") => Notifications!OneAccountPerToken

\* The sockets of an account are counted, only those that are live are in rooms, and the
\* operator's marker is there while one of them is, but for what overtook it.
SocketsAreCounted == Is("presence") => Presence!SocketsAreCounted

\* A message counts as answered exactly when a stored reply answers it; unread replies of
\* a chat are those the listener has not had before them, and a ticket has no more unread
\* messages than were sent to that side.
ThreadsAreTrue ==
    /\ Is("thread")  => Thread!AnsweredByReply /\ Thread!UnreadIsUnseen
    /\ Is("support") => Support!UnreadAreSent

\* The counts of a status follow its rows of views and likes, a station's count of
\* followers its rows of follows, and the list of stations which of them are switched on.
CountsFollowRows ==
    /\ Is("status") => Statuses!CountsFollowRows
    /\ Is("stations") => StationList!FollowersAndListAgree

\* A statement says what the ledger and the message or call say, and is listed to whom may
\* open it, and to staff without a station; the figures of a dashboard, the lists of
\* listeners and the ranks of fans agree with one another, a partner's staff are those of
\* its stations and those it lost to another's, the posts under one start of a week are
\* those of one ranking, and what is served from the cache is of what was asked for.
ReportsAgree ==
    /\ Is("weekly posts") => WeeklyPosts!OneRanking
    /\ Is("statements") => Statements!StatementsFollowLedger /\ Statements!ReportsAgree
    /\ Is("dashboard") => Dashboard!FiguresAgree /\ Dashboard!StatsAreOfScopeUnlessPartner
    /\ Is("listeners") => Listeners!ListenersAgree

\* dashboard.repository.ts:211: every filter that changes the numbers is part of the key.
StatsAreOfScope == Is("dashboard") => Dashboard!StatsAreOfScope

\* What is over stays over: an assigned ticket changes hands, a closed one opens, only by a
\* claim that read it before, and what was bought with money is made free only by a repair
\* that looked before it was.
OnlyLateReadersOverwrite ==
    [][/\ Is("support") => Support!LateClaimIfTakenOver
       /\ Is("statements") => Statements!LateSyncIfFreed]_vars

\* Why each of these services does what is stated above: see the modules.
PeopleInv ==
    /\ Is("staff accounts") => StaffAccounts!IInv
    /\ Is("sign-in")        => SignIn!IInv
    /\ Is("2FA")            => TwoFactor!IInv
    /\ Is("refresh")        => Refresh!IInv
    /\ Is("sessions")       => Sessions!IInv
    /\ Is("API keys")       => ApiKeys!IInv
    /\ Is("notifications")  => Notifications!IInv
    /\ Is("support")        => Support!IInv
    /\ Is("thread")         => Thread!IInv
    /\ Is("status")         => Statuses!IInv
    /\ Is("stations")       => StationList!IInv
    /\ Is("presence")       => Presence!IInv
    /\ Is("weekly posts")   => WeeklyPosts!IInv
    /\ Is("statements")     => Statements!IInv
    /\ Is("dashboard")      => Dashboard!IInv
    /\ Is("listeners")      => Listeners!IInv
=============================================================================
