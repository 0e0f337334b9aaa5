------------------------------ MODULE Sessions ------------------------------
(* The device sessions of one account. A session has a row in the database,   *)
(* a marker in Redis that every request and every socket handshake looks for, *)
(* and live sockets. Logging in, logging out and an administrator's revoking  *)
(* of one session or of all of them each touch the three one after the other. *)
(* The approval of studio devices is left out.                                *)
EXTENDS Naturals

CONSTANTS
    Sessions,  \* session ids, each given out once
    Sockets,   \* connections clients open
    Admins,    \* requests that end sessions
    MaxFaults  \* Redis commands that fail, and restarts

VARIABLES
    row,     \* status of a session's document
    marker,  \* the key session:active exists
    login,   \* how far registerSession is
    admin,   \* what each request that ends sessions has left to do
    socket,  \* each connection and the session it shows
    spared,  \* sessions a fault hit, or that were registered during a revocation of them
    late,    \* sockets whose handshake was under way when sockets were closed, or met a fault
    closed,  \* sessions an administrator's request has ended, sockets included
    faults

vars == <<row, marker, login, admin, socket, spared, late, closed, faults>>

Idle == [op |-> "none", of |-> {}, left |-> {}]
Jobs == [op : {"none", "one", "own", "list", "all"}, of : SUBSET Sessions, left : SUBSET Sessions]
Gone == [pc |-> "gone"]

TypeOK ==
    /\ row \in [Sessions -> {"none", "active", "revoked"}]
    /\ marker \in [Sessions -> BOOLEAN]
    /\ login \in [Sessions -> {"none", "created", "done"}]
    /\ admin \in [Admins -> Jobs]
    /\ socket \in [Sockets -> [pc : {"checked", "live"}, session : Sessions] \union {Gone}]
    /\ spared \subseteq Sessions
    /\ late \subseteq Sockets
    /\ closed \subseteq Sessions
    /\ faults \in 0 .. MaxFaults

Init ==
    /\ row = [s \in Sessions |-> "none"]
    /\ marker = [s \in Sessions |-> FALSE]
    /\ login = [s \in Sessions |-> "none"]
    /\ admin = [a \in Admins |-> Idle]
    /\ socket = [k \in Sockets |-> Gone]
    /\ spared = {}
    /\ late = {}
    /\ closed = {}
    /\ faults = 0

Fault == faults < MaxFaults /\ faults' = faults + 1

(* registerSession: the row first, then the marker. Redis errors are logged.  *)

CreateRow(s) ==
    /\ login[s] = "none"
    /\ login' = [login EXCEPT ![s] = "created"]
    /\ row' = [row EXCEPT ![s] = "active"]
    /\ spared' = IF \E a \in Admins : admin[a].op = "list" THEN spared \union {s} ELSE spared
    /\ UNCHANGED <<marker, admin, socket, late, closed, faults>>

SetMarker(s) ==
    /\ login[s] = "created"
    /\ login' = [login EXCEPT ![s] = "done"]
    /\ \/ /\ marker' = [marker EXCEPT ![s] = TRUE]
          /\ UNCHANGED <<spared, faults>>
       \/ /\ Fault
          /\ spared' = spared \union {s}
          /\ UNCHANGED marker
    /\ UNCHANGED <<row, admin, socket, late, closed>>

(* The marker lives for thirty days, and refresh deletes it at the absolute   *)
(* limit; the row stays active.                                               *)
MarkerEnds(s) ==
    /\ login[s] = "done"
    /\ marker[s]
    /\ marker' = [marker EXCEPT ![s] = FALSE]
    /\ spared' = spared \union {s}
    /\ UNCHANGED <<row, login, admin, socket, late, closed, faults>>

(* revokeSession by an administrator and logoutOwnSession: the row, then the  *)
(* marker; the administrator's request also closes the session's sockets.     *)

RegisteringOf(S) == {s \in S : login[s] = "created"}

RevokeSession(a, s) ==
    /\ admin[a] = Idle
    /\ row[s] # "none"
    /\ row' = [row EXCEPT ![s] = "revoked"]
    /\ admin' = [admin EXCEPT ![a] = [op |-> "one", of |-> {s}, left |-> {s}]]
    /\ spared' = spared \union RegisteringOf({s})
    /\ UNCHANGED <<marker, login, socket, late, closed, faults>>

LogoutOwnSession(a, s) ==
    /\ admin[a] = Idle
    /\ login[s] = "done"
    /\ row' = [row EXCEPT ![s] = "revoked"]
    /\ admin' = [admin EXCEPT ![a] = [op |-> "own", of |-> {s}, left |-> {s}]]
    /\ UNCHANGED <<marker, login, socket, spared, late, closed, faults>>

(* revokeAllUserSessions: lists the active rows, deletes their markers, then  *)
(* revokes every row that is active by then.                                  *)

\* a bug: looks up one session only
ListsOne == IF \E s \in Sessions : row[s] = "active" THEN {CHOOSE s \in Sessions : row[s] = "active"} ELSE {}

Listed == {s \in Sessions : row[s] = "active"}

ListSessions(a) ==
    /\ admin[a] = Idle
    /\ admin' = [admin EXCEPT ![a] = [op |-> "list", of |-> Listed, left |-> Listed]]
    /\ spared' = spared \union RegisteringOf(Sessions)
    /\ UNCHANGED <<row, marker, login, socket, late, closed, faults>>

DeleteMarker(a, s) ==
    /\ s \in admin[a].left
    /\ admin' = [admin EXCEPT ![a].left = @ \ {s}]
    /\ \/ /\ marker' = [marker EXCEPT ![s] = FALSE]
          /\ UNCHANGED <<spared, faults>>
       \/ /\ Fault
          /\ spared' = spared \union {s}
          /\ UNCHANGED marker
    /\ UNCHANGED <<row, login, socket, late, closed>>

RevokeRows(a) ==
    /\ admin[a].op = "list"
    /\ admin[a].left = {}
    /\ row' = [s \in Sessions |-> IF row[s] = "active" THEN "revoked" ELSE row[s]]
    /\ admin' = [admin EXCEPT ![a].op = "all"]
    /\ UNCHANGED <<marker, login, socket, spared, late, closed, faults>>

(* disconnectUserSockets, half a second later: of one session, or of the user. *)
\* a bug: the sockets are closed before the marker is gone, and clients reconnect
ClosesFirst(a) == TRUE

MayClose(a) == admin[a].left = {}
Closes(a, k) == admin[a].op = "all" \/ socket[k].session \in admin[a].of
Live == {k \in Sockets : socket[k].pc = "live"}

CloseSockets(a) ==
    /\ admin[a].op \in {"one", "all"}
    /\ MayClose(a)
    /\ socket' = [k \in Sockets |-> IF k \in Live /\ Closes(a, k) THEN Gone ELSE socket[k]]
    /\ late' = late \union {k \in Sockets : socket[k].pc = "checked"}
    /\ closed' = closed \union admin[a].of
    /\ admin' = [admin EXCEPT ![a] = Idle]
    /\ UNCHANGED <<row, marker, login, spared, faults>>

LogoutDone(a) ==
    /\ admin[a].op = "own"
    /\ admin[a].left = {}
    /\ admin' = [admin EXCEPT ![a] = Idle]
    /\ UNCHANGED <<row, marker, login, socket, spared, late, closed, faults>>

(* A socket's handshake looks for the marker, and lets the socket in when     *)
(* Redis cannot be asked; the connection handler then joins the user's room.  *)

Handshake(k, s) ==
    /\ socket[k] = Gone
    /\ login[s] = "done"
    /\ \/ /\ marker[s]
          /\ late' = late \ {k}
          /\ UNCHANGED faults
       \/ /\ Fault
          /\ late' = late \union {k}
    /\ socket' = [socket EXCEPT ![k] = [pc |-> "checked", session |-> s]]
    /\ UNCHANGED <<row, marker, login, admin, spared, closed>>

Connect(k) ==
    /\ socket[k].pc = "checked"
    /\ socket' = [socket EXCEPT ![k].pc = "live"]
    /\ UNCHANGED <<row, marker, login, admin, spared, late, closed, faults>>

Disconnect(k) ==
    /\ socket[k] # Gone
    /\ socket' = [socket EXCEPT ![k] = Gone]
    /\ UNCHANGED <<row, marker, login, admin, spared, late, closed, faults>>

(* Requests under way are lost, rows and markers stay.                        *)
Restart ==
    /\ Fault
    /\ admin' = [a \in Admins |-> Idle]
    /\ socket' = [k \in Sockets |-> Gone]
    /\ login' = [s \in Sessions |-> IF login[s] = "created" THEN "done" ELSE login[s]]
    /\ spared' = spared \union RegisteringOf(Sessions) \union
                    {s \in Sessions : \E a \in Admins : \/ s \in admin[a].left
                                                        \/ admin[a].op = "list" /\ s \in admin[a].of}
    /\ late' = {}
    /\ UNCHANGED <<row, marker, closed>>

Next ==
    \/ \E s \in Sessions : CreateRow(s) \/ SetMarker(s) \/ MarkerEnds(s)
    \/ \E a \in Admins :
        \/ \E s \in Sessions : RevokeSession(a, s) \/ LogoutOwnSession(a, s) \/ DeleteMarker(a, s)
        \/ ListSessions(a) \/ RevokeRows(a) \/ CloseSockets(a) \/ LogoutDone(a)
    \/ \E k \in Sockets : (\E s \in Sessions : Handshake(k, s)) \/ Connect(k) \/ Disconnect(k)
    \/ Restart

Spec == Init /\ [][Next]_vars

-----------------------------------------------------------------------------
Worked(s) == \E a \in Admins : s \in admin[a].of \/ admin[a].op = "list"

(* Row and marker of a session agree once nobody works on it: a revoked       *)
(* session finds no marker and an active one does, unless a Redis command     *)
(* about it failed, its time ran out or it was registered during its          *)
(* revocation (registerSession, revokeSession, revokeAllUserSessions).        *)
RowsMatchMarkers ==
    \A s \in Sessions \ spared :
        login[s] = "done" /\ ~ Worked(s) => (marker[s] <=> row[s] = "active")

(* A session an administrator ended has no socket left and gets none, unless  *)
(* a handshake was under way when its sockets were closed (revokeSession,     *)
(* disconnectUserSockets and the handshake in initSocket).                    *)
EndedSessionsAreOffline ==
    \A k \in Live \ late : socket[k].session \notin closed \ spared

(* Both together: a revoked session is out, requests and sockets alike. *)
RevokedIsOut == RowsMatchMarkers /\ EndedSessionsAreOffline

-----------------------------------------------------------------------------
(* Why: a request that ends sessions leaves neither row nor marker behind     *)
(* where it has passed, a list of sessions has all that are active, and what  *)
(* is neither active nor being ended has no marker.                           *)
RegisteredInOrder ==
    \A s \in Sessions \ spared :
        /\ login[s] = "none" => row[s] = "none"
        /\ login[s] # "done" => ~marker[s]
        /\ login[s] = "created" => row[s] = "active" /\ \A a \in Admins : admin[a].op # "list"
        /\ login[s] = "done" => row[s] # "none"

EndingsLeaveNothing ==
    \A a \in Admins :
        /\ admin[a].left \subseteq admin[a].of
        /\ admin[a].op \in {"none", "all"} => admin[a].left = {}
        /\ admin[a].op = "none" => admin[a].of = {}
        /\ \A s \in Sessions \ spared :
            /\ admin[a].op = "list" /\ row[s] = "active" => s \in admin[a].of
            /\ s \in admin[a].of =>
                  /\ login[s] = "done"
                  /\ s \notin admin[a].left => ~marker[s]
                  /\ admin[a].op # "list" => row[s] = "revoked"

MarkersAreExplained ==
    \A s \in Sessions \ spared : login[s] = "done" =>
        /\ row[s] = "active" => marker[s] \/ \E a \in Admins : admin[a].op = "list"
        /\ marker[s] => row[s] = "active" \/ \E a \in Admins : s \in admin[a].left

ClosedStayOut ==
    /\ \A s \in closed \ spared : login[s] = "done" /\ ~marker[s]
    /\ \A k \in Sockets \ late : socket[k].pc # "gone" => socket[k].session \notin closed \ spared

IInv ==
    /\ row \in [Sessions -> {"none", "active", "revoked"}]
    /\ marker \in [Sessions -> BOOLEAN]
    /\ login \in [Sessions -> {"none", "created", "done"}]
    /\ admin \in [Admins -> Jobs]
    /\ socket \in [Sockets -> [pc : {"checked", "live"}, session : Sessions] \union {Gone}]
    /\ closed \subseteq Sessions
    /\ RegisteredInOrder /\ EndingsLeaveNothing /\ MarkersAreExplained /\ ClosedStayOut
=============================================================================
