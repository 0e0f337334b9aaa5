-------------------------------- MODULE OnAir --------------------------------
(***************************************************************************)
(* What goes on around a show: shows and their scheduler, calls, decisions    *)
(* about messages, the caches by which requests are let in, the cached        *)
(* balance, the connection to Redis that both rest on, and the uploads of     *)
(* what is shown.  They share no state, so a behaviour is one of one of them: *)
(* service says of which, and v1 .. v15 are that module's variables, those it *)
(* does not need constant.                                                    *)
(***************************************************************************)
EXTENDS Naturals, FiniteSets

CONSTANTS
    ShowIds,
    NoShow, Unknown,     \* no show is on air; none was read yet, or a show has no plan
    Slots, Days, Plans,  \* of a day, of a week, and when a show may be
    Calls, Messages, Moderators,
    Guests, Admins,      \* requests that are let in or not, and administrators'
    Requests, FilesOf, MAX_CONCURRENT_JOBS,   \* uploads and the slots for their videos
    Callers, maxRetries, \* who needs Redis, and retries of a first connection
    MaxTime, MaxEdits, MaxFailures, MaxChanges, MaxStops, MaxOutages

VARIABLES service, v1, v2, v3, v4, v5, v6, v7, v8, v9, v10, v11, v12, v13, v14, v15

vars == <<service, v1, v2, v3, v4, v5, v6, v7, v8, v9, v10, v11, v12, v13, v14, v15>>

Is(name) == service = name

\* One request with an image and a video, and one with a video.
TwoUploads == [r \in {"a", "b"} |-> IF r = "a" THEN <<"image", "video">> ELSE <<"video">>]

\* A show of one evening that runs into the next day, and one of that next day.
EveningAndNextDay == {[days |-> {0}, start |-> 2, end |-> 1], [days |-> {1}, start |-> 0, end |-> 2]}

Shows == INSTANCE Shows WITH
    clock <- v1, plan <- v2, active <- v3, stationOn <- v4, writes <- v5, calls <- v6,
    tick <- v7, texts <- v8, lapses <- v9, failures <- v10, last <- v11, stored <- v12,
    heard <- v13, excused <- v14, edits <- v15

Call == INSTANCE Call WITH
    Listeners <- {"l1", "l2"}, Operators <- {"o1", "o2"},
    NoOne <- "no one", MaxRestarts <- 1,
    status <- v1, startedBy <- v2, handledBy <- v3, elapsed <- v4, queueTimers <- v5,
    joinTimers <- v6, onCall <- v7, accepts <- v8, unmarks <- v9, graces <- v10,
    joined <- v11, restarts <- v12

Moderation == INSTANCE Moderation WITH
    Author <- "author",
    msg <- v1, inWindow <- v2, job <- v3, approved <- v4, onScreen <- v5

Access == INSTANCE Access WITH
    Requests <- Guests,
    profile <- v1, status <- v2, cachedProfile <- v3, cachedStatus <- v4, request <- v5,
    admin <- v6, excused <- v7, changes <- v8

ReadCache == INSTANCE ReadCache WITH
    Readers <- {"r1", "r2"}, Writers <- {"writer"}, TTL <- 3, MaxWrites <- 3,
    balance <- v1, entry <- v2, reader <- v3, writer <- v4, redis <- v5

Uploads == INSTANCE Uploads WITH
    step <- v1, at <- v2, body <- v3, store <- v4, runningJobs <- v5, waitingJobs <- v6,
    dirs <- v7, left <- v8, stops <- v9

RedisLink == INSTANCE RedisLink WITH
    up <- v1, client <- v2, retries <- v3, isConnected <- v4, hasConnectedOnce <- v5,
    connectionPromise <- v6, cooldown <- v7, caller <- v8, outages <- v9

ASSUME OnAirAssumption ==
    /\ Shows!ShowsAssumption
    /\ Moderation!AuthorAssumption /\ Moderation!BoundsAssumption
    /\ Uploads!UploadsAssumption /\ RedisLink!RedisLinkAssumption

-----------------------------------------------------------------------------
\* The variables from v(i) on are not used.
Unused15 == v15 = "unused"
Unused14 == v14 = "unused" /\ Unused15
Unused13 == v13 = "unused" /\ Unused14
Unused12 == v12 = "unused" /\ Unused13
Unused11 == v11 = "unused" /\ Unused12
Unused10 == v10 = "unused" /\ Unused11
Unused9 == v9 = "unused" /\ Unused10
Unused8 == v8 = "unused" /\ Unused9
Unused7 == v7 = "unused" /\ Unused8
Unused6 == v6 = "unused" /\ Unused7

Init ==
    \/ Is("shows") /\ Shows!Init
    \/ Is("call") /\ Call!Init /\ Unused13
    \/ Is("moderation") /\ Moderation!Init /\ Unused6
    \/ Is("access") /\ Access!Init /\ Unused9
    \/ Is("balance cache") /\ ReadCache!Init /\ Unused6
    \/ Is("uploads") /\ Uploads!Init /\ Unused10
    \/ Is("Redis") /\ RedisLink!Init /\ Unused10

ShowsStep == Is("shows") /\ Shows!Next /\ UNCHANGED <<service>>
CallStep == Is("call") /\ Call!Next /\ UNCHANGED <<service, v13, v14, v15>>
ModerationStep == Is("moderation") /\ Moderation!Next /\ UNCHANGED <<service, v6, v7, v8, v9, v10, v11, v12, v13, v14, v15>>
AccessStep == Is("access") /\ Access!Next /\ UNCHANGED <<service, v9, v10, v11, v12, v13, v14, v15>>
ReadCacheStep == Is("balance cache") /\ ReadCache!Next /\ UNCHANGED <<service, v6, v7, v8, v9, v10, v11, v12, v13, v14, v15>>
UploadsStep == Is("uploads") /\ Uploads!Next /\ UNCHANGED <<service, v10, v11, v12, v13, v14, v15>>
RedisLinkStep == Is("Redis") /\ RedisLink!Next /\ UNCHANGED <<service, v10, v11, v12, v13, v14, v15>>

Next ==
    \/ ShowsStep
    \/ CallStep
    \/ ModerationStep
    \/ AccessStep
    \/ ReadCacheStep
    \/ UploadsStep
    \/ RedisLinkStep

\* The fairness of each module, while it runs.
Fairness ==
    /\ WF_(Shows!vars)(Is("shows") /\ Shows!Scheduler /\ Shows!Observed)
    /\ \A m \in Messages :
          WF_(Shows!vars)(Is("shows") /\ Shows!MessageAnnounces(m) /\ Shows!Observed)
    /\ \A c \in Calls : /\ WF_(Call!vars)(Is("call") /\ Call!TimePasses(c))
                        /\ WF_(Call!vars)(Is("call") /\ Call!SweepStaleCall(c))
    /\ \A r \in Guests : /\ WF_(Access!vars)(Is("access") /\ Access!RequestStep(r))
                         /\ WF_(Access!vars)(Is("access") /\ Access!FillProfile(r))
    /\ WF_(Access!vars)(Is("access") /\ Access!ProfileExpires)
    /\ WF_(Access!vars)(Is("access") /\ Access!StatusExpires)
    /\ WF_(ReadCache!vars)(Is("balance cache") /\ ReadCache!Tick)
    /\ \A r \in Requests : WF_(Uploads!vars)(Is("uploads") /\ Uploads!RequestStep(r))
    /\ WF_(RedisLink!vars)(Is("Redis") /\ RedisLink!ClientStep)
    /\ WF_(RedisLink!vars)(Is("Redis") /\ RedisLink!CooldownEnds)
    /\ WF_(RedisLink!vars)(Is("Redis") /\ \E c \in Callers : RedisLink!StartConnection(c))
    /\ \A c \in Callers : WF_(RedisLink!vars)(Is("Redis") /\ RedisLink!Served(c))

Spec == Init /\ [][Next]_vars /\ Fairness

-----------------------------------------------------------------------------
\* The scheduler hangs up on nobody whose show was on air for listeners all along.
OnlyFinishedShowsHangUp == [][Is("shows") => Shows!ExcusedIfHungUp]_vars

\* A call outlives neither its show, nor its timers and sweeps, for ever.
CallsEnd ==
    /\ []<>(Is("shows") => Shows!ShowsEndTheirCalls)
    /\ \A c \in Calls : []<>(Is("call") => v1[c] \notin Call!Live)

\* Listeners are told of the show on air, whatever announced another meanwhile, but for a
\* change that the first look after a start found nothing in Redis to tell from.
ListenersCatchUp == []<>(Is("shows") => Shows!ToldRight)

\* The screen shows what was approved, or an edit made after the approval.
ScreenShowsApproved == Is("moderation") => Moderation!ScreenShowsApproved

\* Of moderators who disagree one has the last word.
DecisionsSettle ==
    \E s \in Moderation!Statuses : <>[](Is("moderation") => v1.status = s)

\* A change of an account takes effect with the answer to the administrator, but for an
\* entry whose deletion failed or that an overlapping request stored; and caches follow in
\* the end: requests are let in or not by the account as it is, the balance shown is the
\* balance.
CachesFollow ==
    /\ [](Is("access") => Access!ChangesTakeEffect)
    /\ <>[](Is("access") /\ Access!Out) => <>[](Is("access") => Access!NoneIs("admitted"))
    /\ <>[](Is("access") /\ ~Access!Out) => <>[](Is("access") => Access!NoneIs("refused"))
    /\ <>[](Is("balance cache") => ~ReadCache!Stale)

\* An upload ends, with its files in the store if it goes on; the slots for videos and the
\* temporary directories come free whatever fails on the way.
UploadsEndWhole ==
    /\ [](Is("uploads") => Uploads!UploadsAreWhole)
    /\ <>[](Is("uploads") => Uploads!Settled)

\* The connection to Redis, once there was one, is never given up: it comes back with Redis,
\* the process knows it, and no caller waits for it for ever.
RedisComesBack ==
    /\ [](Is("Redis") => RedisLink!KnowsItsState)
    /\ [][Is("Redis") => RedisLink!GivesUpOnlyAtFirst]_vars
    /\ <>[](Is("Redis") /\ v1) => <>[](Is("Redis") => RedisLink!Back)
    /\ \A c \in Callers :
          \/ []<>(Is("Redis") => ~v1) /\ []<>(Is("Redis") => v5)
          \/ []<>(Is("Redis") => v8[c] = "idle")

\* What each module relies on from one step to the next: see there.
OnAirInv ==
    /\ Is("shows")      => Shows!IInv
    /\ Is("moderation") => Moderation!IInv
    /\ Is("access")     => Access!IInv
    /\ Is("uploads")    => Uploads!IInv
    /\ Is("Redis")      => RedisLink!IInv
=============================================================================
