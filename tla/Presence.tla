------------------------------- MODULE Presence -------------------------------
(***************************************************************************)
(* The sockets of one account (src/src/socket/index.ts): how many there are,  *)
(* which rooms they are in, and the marker operator:<id>:online in Redis that *)
(* says the operator is there (src/src/module/call/call.service.ts).          *)
(* Event handlers run between one another's awaits; commands reach Redis in   *)
(* the order they are given, and one that fails is only logged.  The process  *)
(* may restart.  What a disconnect does to a call is Call's.                  *)
(***************************************************************************)
EXTENDS Naturals, FiniteSets

CONSTANTS
    Sockets,
    Rooms,                     \* what a socket may ask to join: the station, a show, a ticket
    MAX_CONNECTIONS_PER_USER,
    MAX_ROOMS_PER_SOCKET

PresenceAssumption ==
    /\ MAX_CONNECTIONS_PER_USER \in Nat \ {0}
    /\ MAX_ROOMS_PER_SOCKET \in Nat \ {0}
    /\ "station" \in Rooms

VARIABLES
    sockets,       \* of each of the account's live sockets, the live ones that connected before it
    handshake,     \* what each socket awaits: "new", its "auth", "nothing", or it is "over"
    userConnectionCount,
    rooms,         \* the rooms each socket is in, its own account's aside
    joining,       \* the room a join of each socket is being verified for
    online,        \* the marker
    closing,       \* disconnect handlers that look for the operator's call
    refreshing,    \* refreshes that have read the marker
    lapsed,        \* history: the marker ran out, or could not be set
    returned,      \* history: a socket connected while such a handler was under way
    stray          \* history: the marker was left where it is: its deletion failed, or the
                   \* process went, or a refresh was under way when it was taken away

vars == <<sockets, handshake, userConnectionCount, rooms, joining, online, closing, refreshing,
          lapsed, returned, stray>>

Nothing == "nothing"
Live    == DOMAIN sockets

TypeOK ==
    /\ Live \subseteq Sockets /\ sockets \in [Live -> SUBSET Live]
    /\ handshake \in [Sockets -> {"new", "auth", Nothing, "over"}]
    /\ userConnectionCount \in Nat
    /\ rooms \in [Sockets -> SUBSET Rooms]
    /\ joining \in [Sockets -> Rooms \cup {Nothing}]
    /\ {online, lapsed, returned, stray} \subseteq BOOLEAN
    /\ closing \subseteq Sockets /\ refreshing \subseteq Sockets

Init ==
    /\ sockets = [s \in {} |-> {}]
    /\ handshake = [s \in Sockets |-> "new"]
    /\ userConnectionCount = 0
    /\ rooms = [s \in Sockets |-> {}]
    /\ joining = [s \in Sockets |-> Nothing]
    /\ online = FALSE
    /\ closing = {} /\ refreshing = {}
    /\ lapsed = FALSE /\ returned = FALSE /\ stray = FALSE

Marker == <<online, refreshing, lapsed, stray>>

-----------------------------------------------------------------------------
(* The handshake, the connection and its end.                               *)

\* io.use: the token, the account and its session are looked up; any may refuse it.
Handshake(s) ==
    /\ handshake[s] = "new"
    /\ \E h \in {"auth", "over"} : handshake' = [handshake EXCEPT ![s] = h]
    /\ UNCHANGED <<sockets, userConnectionCount, rooms, joining, closing, returned, Marker>>

\* The sockets in gone leave, one after the other in the order they came.
Without(gone)    == [s \in Live \ gone |-> sockets[s] \ gone]
Newest(s, gone)  == gone \ {s} \subseteq sockets[s]
Less(n)          == IF n <= 1 THEN 0 ELSE n - 1

\* The disconnect handler's start, for each of them: the count, and, for the one that leaves
\* none behind, the search for the operator's call.
Close(gone, left, count) ==
    /\ rooms' = [s \in Sockets |-> IF s \in gone THEN {} ELSE rooms[s]]
    /\ userConnectionCount' = count
    /\ \/ left # {} /\ closing' = closing
       \/ left = {} /\ \E s \in gone : Newest(s, gone) /\ closing' = closing \cup {s}

\* Mutant: the count is not read again after the eviction.
StaleCount(count) == userConnectionCount + 1

NewCount(count) == count + 1

\* "connection": one too many evicts the oldest, whose handler runs at once, before the
\* new socket is in its account's room.  setOperatorOnline swallows a Redis failure.
Full    == userConnectionCount >= MAX_CONNECTIONS_PER_USER /\ Live # {}
Evicted == IF Full THEN {{s} : s \in {t \in Live : sockets[t] = {}}} ELSE {{}}

Connect(s) ==
    /\ handshake[s] = "auth"
    /\ \E gone \in Evicted :
          /\ sockets' = [t \in (Live \ gone) \cup {s} |-> IF t = s THEN Live \ gone ELSE sockets[t] \ gone]
          /\ handshake' = [t \in Sockets |-> IF t = s THEN Nothing ELSE IF t \in gone THEN "over" ELSE handshake[t]]
          /\ Close(gone, IF Full THEN Live \ gone ELSE {s},
                   NewCount(IF Full THEN Less(userConnectionCount) ELSE userConnectionCount))
    /\ online' \in {TRUE, online}
    /\ lapsed' = ~online'
    /\ returned' = (closing' # {})
    /\ UNCHANGED <<joining, refreshing, stray>>

Ends(s) ==
    /\ sockets' = Without({s})
    /\ handshake' = [handshake EXCEPT ![s] = "over"]
    /\ Close({s}, Live \ {s}, Less(userConnectionCount))

\* The client goes, or is dropped.
Disconnect(s) ==
    /\ s \in Live
    /\ Ends(s)
    /\ UNCHANGED <<joining, returned, Marker>>

\* The rest of the handler: the marker goes, unless Redis fails, which is swallowed.
RemoveOperatorOnline(s) ==
    /\ s \in closing
    /\ closing' = closing \ {s}
    /\ online' \in {FALSE, online}
    /\ stray' = (online' \/ refreshing # {})
    /\ UNCHANGED <<sockets, handshake, userConnectionCount, rooms, joining, refreshing, lapsed, returned>>

\* disconnectUserSockets: every socket of the account, or of one session.
DisconnectUserSockets ==
    /\ \E gone \in (SUBSET Live) \ {{}} :
          /\ sockets' = Without(gone)
          /\ handshake' = [s \in Sockets |-> IF s \in gone THEN "over" ELSE handshake[s]]
          /\ Close(gone, Live \ gone, userConnectionCount - Cardinality(gone))
    /\ UNCHANGED <<joining, returned, Marker>>

\* The process goes, and all it had in memory with it; the marker stays in Redis.
Restart ==
    /\ sockets' = Without(Live)
    /\ handshake' = [s \in Sockets |-> IF handshake[s] = "new" THEN "new" ELSE "over"]
    /\ userConnectionCount' = 0
    /\ rooms' = [s \in Sockets |-> {}]
    /\ joining' = [s \in Sockets |-> Nothing]
    /\ closing' = {} /\ refreshing' = {}
    /\ stray' = online
    /\ UNCHANGED <<online, lapsed, returned>>

-----------------------------------------------------------------------------
(* Rooms.                                                                   *)

\* join-station: at once, unless there are too many rooms or it is not theirs.  The
\* marker is refreshed, if it is there and Redis answers.
JoinStation(s) ==
    /\ s \in Live
    /\ Cardinality(rooms[s]) + 2 < MAX_ROOMS_PER_SOCKET
    /\ rooms' = [rooms EXCEPT ![s] = @ \cup {"station"}]
    /\ refreshing' \in {refreshing, IF online THEN refreshing \cup {s} ELSE refreshing}
    /\ UNCHANGED <<sockets, handshake, userConnectionCount, joining, online, closing, lapsed, returned, stray>>

\* join-show and join-support-conversation look their room up first.
AskToJoin(s, room) ==
    /\ s \in Live /\ joining[s] = Nothing
    /\ joining' = [joining EXCEPT ![s] = room]
    /\ UNCHANGED <<sockets, handshake, userConnectionCount, rooms, closing, returned, Marker>>

\* A socket that is gone joins nothing any more: its join does nothing.
Joins(s) == s \in Live

JoinOrNot(s) ==
    /\ joining[s] # Nothing
    /\ joining' = [joining EXCEPT ![s] = Nothing]
    /\ \/ Joins(s) /\ rooms' = [rooms EXCEPT ![s] = @ \cup {joining[s]}]
       \/ UNCHANGED rooms
    /\ UNCHANGED <<sockets, handshake, userConnectionCount, closing, returned, Marker>>

Leave(s, room) ==
    /\ room \in rooms[s]
    /\ rooms' = [rooms EXCEPT ![s] = @ \ {room}]
    /\ UNCHANGED <<sockets, handshake, userConnectionCount, joining, closing, returned, Marker>>

-----------------------------------------------------------------------------
(* The marker's life.                                                       *)

\* refreshOperatorOnline, on a "ping" or a join: it is read, and set again if it was there.
Ping(s) ==
    /\ s \in Live /\ online
    /\ refreshing' = refreshing \cup {s}
    /\ UNCHANGED <<sockets, handshake, userConnectionCount, rooms, joining, online, closing, lapsed, returned, stray>>

Refresh(s) ==
    /\ s \in refreshing
    /\ refreshing' = refreshing \ {s}
    /\ \/ online' = TRUE /\ lapsed' = FALSE
       \/ UNCHANGED <<online, lapsed>>
    /\ UNCHANGED <<sockets, handshake, userConnectionCount, rooms, joining, closing, returned, stray>>

\* A minute without a refresh.
Expires ==
    /\ online
    /\ online' = FALSE /\ lapsed' = TRUE
    /\ stray' = (refreshing # {})
    /\ UNCHANGED <<sockets, handshake, userConnectionCount, rooms, joining, closing, refreshing, returned>>

Next ==
    \/ \E s \in Sockets :
          \/ Handshake(s) \/ Connect(s) \/ Disconnect(s) \/ RemoveOperatorOnline(s)
          \/ JoinStation(s) \/ JoinOrNot(s) \/ Ping(s) \/ Refresh(s)
          \/ \E room \in Rooms : AskToJoin(s, room) \/ Leave(s, room)
    \/ DisconnectUserSockets
    \/ Restart \/ Expires

Spec == Init /\ [][Next]_vars

-----------------------------------------------------------------------------
\* The count is that of the live sockets, and never above the limit.
CountIsLive ==
    /\ userConnectionCount = Cardinality(Live)
    /\ Cardinality(Live) <= MAX_CONNECTIONS_PER_USER

\* Only live sockets are in rooms, whatever they were still joining when they went.
RoomsAreLive == \A s \in Sockets : rooms[s] # {} => s \in Live

\* The operator is marked as there while he is, but for a marker that ran out or could
\* not be set, or went with a socket whose handler was overtaken by a new one's; and gone
\* once he is, until it runs out, but for a marker that could not be deleted, that the
\* process left behind, or that a refresh set again which had read it before it went.
OnlineFollowsSockets ==
    /\ Live # {} => online \/ lapsed \/ returned
    /\ Live = {} /\ closing = {} => ~online \/ stray

SocketsAreCounted == CountIsLive /\ RoomsAreLive /\ OnlineFollowsSockets

-----------------------------------------------------------------------------
(* Why: whoever has connected has its handshake behind it, and the handler    *)
(* that takes the marker away is the last one's to leave.                     *)
LiveHaveConnected == \A s \in Live : handshake[s] = Nothing

\* A handler is still at work when there are sockets again only if one returned; and a
\* refresh that outlives it read the marker before.
OthersAreKnown ==
    /\ Live # {} /\ closing # {} => returned
    /\ Live = {} /\ closing = {} /\ refreshing # {} => stray

IInv ==
    /\ Live \subseteq Sockets /\ IsFiniteSet(Live)
    /\ handshake \in [Sockets -> {"new", "auth", Nothing, "over"}]
    /\ rooms \in [Sockets -> SUBSET Rooms]
    /\ joining \in [Sockets -> Rooms \cup {Nothing}]
    /\ {online, lapsed, returned, stray} \subseteq BOOLEAN
    /\ LiveHaveConnected /\ OthersAreKnown
    /\ CountIsLive /\ RoomsAreLive /\ OnlineFollowsSockets
=============================================================================
