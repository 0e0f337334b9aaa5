--------------------------------- MODULE Call ---------------------------------
(***************************************************************************)
(* Listener calls to a station (src/src/module/call/call.service.ts and the *)
(* disconnect grace of src/src/socket/index.ts): a call waits in the queue, *)
(* an operator accepts or rejects it, the listener joins, somebody or some  *)
(* timer ends it.  Timers live in the process' memory, the operator's       *)
(* "on call" marker in Redis, the call itself in MongoDB.                   *)
(***************************************************************************)
EXTENDS Naturals, FiniteSets, TLC

CONSTANTS
    Calls,        \* call documents that may be created
    Listeners,
    Operators,
    NoOne,        \* startedBy or handledBy unset, marker absent
    MaxRestarts   \* bound: restarts of the process

ASSUME NoOneAssumption   == NoOne \notin Operators \cup Calls \cup Listeners
ASSUME RestartAssumption == MaxRestarts \in Nat

VARIABLES
    status,       \* Call.status, "none" before the document exists
    startedBy,    \* Call.startedBy
    handledBy,    \* Call.handledBy
    elapsed,      \* time since createdAt (queued) or answeredAt (answered)
    queueTimers,  \* callQueueTimeouts: calls with an armed queue timer
    joinTimers,   \* callJoinTimeouts
    onCall,       \* Redis operator:{id}:on_call
    accepts,      \* acceptCall requests suspended at an await
    unmarks,      \* removeOperatorOnCall(op, call) calls suspended at an await
    graces,       \* operators' disconnect grace timers
    joined,       \* calls whose listener was given a token by joinCall
    restarts

vars == <<status, startedBy, handledBy, elapsed, queueTimers, joinTimers, onCall,
          accepts, unmarks, graces, joined, restarts>>

Live      == {"queued", "answered"}
Final     == {"missed", "rejected", "cancelled", "completed"}
Accept    == [op : Operators, call : Calls, prev : Calls \cup {NoOne},
              next : {"claim", "switch", "mark"}]
Unmark    == [op : Operators, call : Calls, next : {"get", "delete"}]
Grace     == [op : Operators, call : Calls]

TypeOK ==
    /\ status      \in [Calls -> {"none"} \cup Live \cup Final]
    /\ startedBy   \in [Calls -> Listeners \cup {NoOne}]
    /\ handledBy   \in [Calls -> Operators \cup {NoOne}]
    /\ elapsed     \in [Calls -> {"fresh", "over", "stale"}]
    /\ queueTimers \subseteq Calls
    /\ joinTimers  \subseteq Calls
    /\ onCall      \in [Operators -> Calls \cup {NoOne}]
    /\ accepts     \subseteq Accept
    /\ unmarks     \subseteq Unmark
    /\ graces      \subseteq Grace
    /\ joined      \subseteq Calls
    /\ restarts    \in 0..MaxRestarts

Init ==
    /\ status      = [c \in Calls |-> "none"]
    /\ startedBy   = [c \in Calls |-> NoOne]
    /\ handledBy   = [c \in Calls |-> NoOne]
    /\ elapsed     = [c \in Calls |-> "fresh"]
    /\ queueTimers = {}
    /\ joinTimers  = {}
    /\ onCall      = [o \in Operators |-> NoOne]
    /\ accepts     = {}
    /\ unmarks     = {}
    /\ graces      = {}
    /\ joined      = {}
    /\ restarts    = 0

-----------------------------------------------------------------------------
(* Requesting a call                                                        *)

\* Mutant: without the partial unique index nothing stops the second insert of
\* two simultaneous requests, both past the "existing active call" check.
LiveIndexAbsent(l) == TRUE

\* The unique index on startedBy over queued and answered calls.
LiveIndexAllows(l) ==
    \A d \in Calls : startedBy[d] = l => status[d] \notin Live

\* The transaction commits the queued call and the deduction, and the queue timer
\* is armed.  (One step: the timer's own update is conditional and a restart
\* registers it again, so the turn between commit and arming shows nowhere.)
\* A repeat of the request creates nothing.
RequestCall(c, l) ==
    /\ status[c] = "none"
    /\ LiveIndexAllows(l)
    /\ status'      = [status EXCEPT ![c] = "queued"]
    /\ startedBy'   = [startedBy EXCEPT ![c] = l]
    /\ queueTimers' = queueTimers \cup {c}
    /\ UNCHANGED <<handledBy, elapsed, joinTimers, onCall, accepts, unmarks, graces, joined, restarts>>

-----------------------------------------------------------------------------
(* Ending calls.  Every path is one conditional update followed by the      *)
(* clearing of both timers and, if somebody handled it, of the marker.      *)

\* removeOperatorOnCall(handledBy, c), for a call that had an operator.
UnmarkHandler(c) ==
    unmarks \cup [op : {handledBy[c]} \ {NoOne}, call : {c}, next : {"get"}]

\* Leaves call c with status s, in the one turn after the update's answer.
Finish(c, s) ==
    /\ status'      = [status EXCEPT ![c] = s]
    /\ queueTimers' = queueTimers \ {c}
    /\ joinTimers'  = joinTimers \ {c}
    /\ unmarks'     = UnmarkHandler(c)

\* Mutant: the claim forgets its status condition, like an update by _id.
ClaimableAlways(c) == status[c] # "none"
Claimable(c)       == status[c] = "queued"

EndedStatus(c) == IF status[c] = "answered" THEN "completed" ELSE "missed"

\* endCallBySystem: the show ended, the listener's grace ran out; also the
\* effect of endCall by either party, and of cancelCall on an answered call.
EndCall(c) ==
    /\ status[c] \in Live
    /\ Finish(c, EndedStatus(c))
    /\ UNCHANGED <<startedBy, handledBy, elapsed, onCall, accepts, graces, joined, restarts>>

CancelCall(c) ==
    /\ status[c] = "queued"
    /\ Finish(c, "cancelled")
    /\ UNCHANGED <<startedBy, handledBy, elapsed, onCall, accepts, graces, joined, restarts>>

\* A rejected call names the operator, who never was on it: no marker to clear.
RejectCall(c, o) ==
    /\ status[c] = "queued"
    /\ status'      = [status EXCEPT ![c] = "rejected"]
    /\ handledBy'   = [handledBy EXCEPT ![c] = o]
    /\ queueTimers' = queueTimers \ {c}
    /\ UNCHANGED <<startedBy, elapsed, joinTimers, onCall, accepts, unmarks, graces, joined, restarts>>

QueueTimeout(c) ==
    /\ c \in queueTimers
    /\ elapsed[c] # "fresh"
    /\ queueTimers' = queueTimers \ {c}
    /\ status' = IF status[c] = "queued" THEN [status EXCEPT ![c] = "missed"] ELSE status
    /\ UNCHANGED <<startedBy, handledBy, elapsed, joinTimers, onCall, accepts, unmarks, graces, joined, restarts>>

JoinTimeout(c) ==
    /\ c \in joinTimers
    /\ elapsed[c] # "fresh"
    /\ joinTimers' = joinTimers \ {c}
    /\ \/ /\ status[c] = "answered"
          /\ status'  = [status EXCEPT ![c] = "missed"]
          /\ unmarks' = UnmarkHandler(c)
       \/ /\ status[c] # "answered"
          /\ UNCHANGED <<status, unmarks>>
    /\ UNCHANGED <<startedBy, handledBy, elapsed, queueTimers, onCall, accepts, graces, joined, restarts>>

-----------------------------------------------------------------------------
(* The operator's marker                                                    *)

\* The call getOperatorOnCallId finds: the marker, else a live call in the
\* database (the latest answered one; which one, if there are several, is open).
CurrentCall(o) ==
    IF onCall[o] # NoOne THEN {onCall[o]}
    ELSE LET answered == {c \in Calls : status[c] = "answered" /\ handledBy[c] = o}
         IN  IF answered = {} THEN {NoOne} ELSE answered

\* removeOperatorOnCall reads the marker and deletes it in a second round trip;
\* it gives up when the marker names another call or Redis does not answer.
UnmarkGet(u) ==
    /\ u.next = "get"
    /\ \/ /\ onCall[u.op] \in {u.call, NoOne}
          /\ unmarks' = (unmarks \ {u}) \cup {[u EXCEPT !.next = "delete"]}
       \/ unmarks' = unmarks \ {u}
    /\ UNCHANGED <<status, startedBy, handledBy, elapsed, queueTimers, joinTimers, onCall, accepts, graces, joined, restarts>>

UnmarkDelete(u) ==
    /\ u.next = "delete"
    /\ unmarks' = unmarks \ {u}
    /\ onCall'  = [onCall EXCEPT ![u.op] = NoOne]
    /\ UNCHANGED <<status, startedBy, handledBy, elapsed, queueTimers, joinTimers, accepts, graces, joined, restarts>>

\* The 2 h expiry of the key, or a restart of Redis.
MarkerLost(o) ==
    /\ onCall[o] # NoOne
    /\ onCall' = [onCall EXCEPT ![o] = NoOne]
    /\ UNCHANGED <<status, startedBy, handledBy, elapsed, queueTimers, joinTimers, accepts, unmarks, graces, joined, restarts>>

-----------------------------------------------------------------------------
(* acceptCall: remember the current call, claim the new one, end the old    *)
(* one, set the marker and arm the join timer, with an await between each.  *)

AcceptCall(o, c) ==
    /\ status[c] # "none"
    /\ \A a \in accepts : a.op # o \/ a.call # c
    /\ \E p \in CurrentCall(o) :
          accepts' = accepts \cup {[op |-> o, call |-> c, prev |-> p, next |-> "claim"]}
    /\ UNCHANGED <<status, startedBy, handledBy, elapsed, queueTimers, joinTimers, onCall, unmarks, graces, joined, restarts>>

\* Mutant: the answer of the claim is not looked at.
ClaimCallUnchecked(a) ==
    /\ a.next = "claim"
    /\ accepts' = (accepts \ {a}) \cup {[a EXCEPT !.next = "switch"]}
    /\ IF Claimable(a.call)
       THEN /\ status'      = [status EXCEPT ![a.call] = "answered"]
            /\ handledBy'   = [handledBy EXCEPT ![a.call] = a.op]
            /\ elapsed'     = [elapsed EXCEPT ![a.call] = "fresh"]
            /\ queueTimers' = queueTimers \ {a.call}
       ELSE UNCHANGED <<status, handledBy, elapsed, queueTimers>>
    /\ UNCHANGED <<startedBy, joinTimers, onCall, unmarks, graces, joined, restarts>>

ClaimCall(a) ==
    /\ a.next = "claim"
    /\ IF Claimable(a.call)
       THEN /\ status'      = [status EXCEPT ![a.call] = "answered"]
            /\ handledBy'   = [handledBy EXCEPT ![a.call] = a.op]
            /\ elapsed'     = [elapsed EXCEPT ![a.call] = "fresh"]
            /\ queueTimers' = queueTimers \ {a.call}
            /\ accepts'     = (accepts \ {a}) \cup {[a EXCEPT !.next = "switch"]}
       ELSE /\ accepts' = accepts \ {a}
            /\ UNCHANGED <<status, handledBy, elapsed, queueTimers>>
    /\ UNCHANGED <<startedBy, joinTimers, onCall, unmarks, graces, joined, restarts>>

\* The previous call, if it is still live and handled by this operator.
SwitchCall(a) ==
    /\ a.next = "switch"
    /\ accepts' = (accepts \ {a}) \cup {[a EXCEPT !.next = "mark"]}
    /\ IF a.prev \notin {NoOne, a.call} /\ status[a.prev] \in Live /\ handledBy[a.prev] = a.op
       THEN Finish(a.prev, EndedStatus(a.prev))
       ELSE UNCHANGED <<status, queueTimers, joinTimers, unmarks>>
    /\ UNCHANGED <<startedBy, handledBy, elapsed, onCall, graces, joined, restarts>>

MarkOnCall(a) ==
    /\ a.next = "mark"
    /\ accepts'    = accepts \ {a}
    /\ onCall'     = [onCall EXCEPT ![a.op] = a.call]
    /\ joinTimers' = joinTimers \cup {a.call}
    /\ UNCHANGED <<status, startedBy, handledBy, elapsed, queueTimers, unmarks, graces, joined, restarts>>

JoinCall(c) ==
    /\ status[c] = "answered"
    /\ joinTimers' = joinTimers \ {c}
    /\ joined'     = joined \cup {c}
    /\ UNCHANGED <<status, startedBy, handledBy, elapsed, queueTimers, onCall, accepts, unmarks, graces, restarts>>

-----------------------------------------------------------------------------
(* An operator's last socket goes away: one grace timer per operator, for   *)
(* the call found at that moment.  Reconnecting cancels it.                 *)

OperatorDisconnects(o) ==
    /\ \E c \in CurrentCall(o) \ {NoOne} :
          graces' = {g \in graces : g.op # o} \cup {[op |-> o, call |-> c]}
    /\ UNCHANGED <<status, startedBy, handledBy, elapsed, queueTimers, joinTimers, onCall, accepts, unmarks, joined, restarts>>

OperatorReconnects(o) ==
    /\ graces' = {g \in graces : g.op # o}
    /\ UNCHANGED <<status, startedBy, handledBy, elapsed, queueTimers, joinTimers, onCall, accepts, unmarks, joined, restarts>>

\* An already ended call only has its marker cleared.
GraceExpires(g) ==
    /\ graces' = graces \ {g}
    /\ IF status[g.call] \in Live /\ handledBy[g.call] = g.op
       THEN Finish(g.call, EndedStatus(g.call))
       ELSE /\ unmarks' = unmarks \cup {[op |-> g.op, call |-> g.call, next |-> "get"]}
            /\ UNCHANGED <<status, queueTimers, joinTimers>>
    /\ UNCHANGED <<startedBy, handledBy, elapsed, onCall, accepts, joined, restarts>>

-----------------------------------------------------------------------------
(* Time, restarts and the stale-call sweep                                  *)

TimePasses(c) ==
    /\ \/ status[c] = "queued"   /\ elapsed[c] = "fresh"
       \/ status[c] = "answered" /\ elapsed[c] # "stale"
    /\ elapsed' = [elapsed EXCEPT ![c] = IF @ = "fresh" THEN "over" ELSE "stale"]
    /\ UNCHANGED <<status, startedBy, handledBy, queueTimers, joinTimers, onCall, accepts, unmarks, graces, joined, restarts>>

\* Queued past the queue timeout, answered for more than 4 h.
Stale(c) ==
    \/ status[c] = "queued"   /\ elapsed[c] # "fresh"
    \/ status[c] = "answered" /\ elapsed[c] = "stale"

\* cleanupStaleCalls, at startup and every 30 min.  Ending a call it had found
\* stale before somebody answered it is an EndCall.
SweepStaleCall(c) ==
    /\ Stale(c)
    /\ Finish(c, EndedStatus(c))
    /\ UNCHANGED <<startedBy, handledBy, elapsed, onCall, accepts, graces, joined, restarts>>

\* Mutant: only the join timers are registered again.
QueueTimersForgotten == {}

\* reregisterTimeouts: timers with time remaining, whether or not the listener
\* has joined, which only the lost memory knew.
QueueTimersAfterRestart == {c \in Calls : status[c] = "queued"   /\ elapsed[c] = "fresh"}
JoinTimersAfterRestart  == {c \in Calls : status[c] = "answered" /\ elapsed[c] = "fresh"}

Restart ==
    /\ restarts < MaxRestarts
    /\ restarts'    = restarts + 1
    /\ accepts'     = {}
    /\ unmarks'     = {}
    /\ graces'      = {}
    /\ queueTimers' = QueueTimersAfterRestart
    /\ joinTimers'  = JoinTimersAfterRestart
    /\ UNCHANGED <<status, startedBy, handledBy, elapsed, onCall, joined>>

Listener(c) == \/ \E l \in Listeners : RequestCall(c, l)
               \/ EndCall(c) \/ CancelCall(c) \/ JoinCall(c)
Operator(o) == \/ \E c \in Calls : AcceptCall(o, c) \/ RejectCall(c, o)
               \/ OperatorDisconnects(o) \/ OperatorReconnects(o) \/ MarkerLost(o)
Timers(c)   == QueueTimeout(c) \/ JoinTimeout(c) \/ TimePasses(c) \/ SweepStaleCall(c)

Next ==
    \/ \E c \in Calls : Listener(c) \/ Timers(c)
    \/ \E o \in Operators : Operator(o)
    \/ \E a \in accepts : ClaimCall(a) \/ SwitchCall(a) \/ MarkOnCall(a)
    \/ \E u \in unmarks : UnmarkGet(u) \/ UnmarkDelete(u)
    \/ \E g \in graces : GraceExpires(g)
    \/ Restart

Spec == Init /\ [][Next]_vars

\* Clocks advance and the 30 min interval of the sweep fires for ever.
Fairness == \A c \in Calls : WF_vars(TimePasses(c)) /\ WF_vars(SweepStaleCall(c))
FairSpec == Spec /\ Fairness

-----------------------------------------------------------------------------
(* Properties                                                               *)

\* A listener never has two live calls, hence never pays for two, however many
\* requests race past the check of requestCall (call.service.ts:380-402).
OneLiveCallPerListener ==
    \A c, d \in Calls :
        (c # d /\ status[c] \in Live /\ status[d] \in Live) => startedBy[c] # startedBy[d]

\* A call that has ended never comes back, whichever of accept, reject, cancel,
\* hang-up, timeouts and sweep race for it: its refund or its charge stands.
EndedCallsStayEnded ==
    [][\A c \in Calls : status[c] \in Final => status'[c] = status[c]]_vars

\* The on-call marker, read by switch and disconnect to end "the operator's
\* call", only ever names a call this very operator has claimed.
MarkerNamesOwnCall ==
    \A o \in Operators : onCall[o] # NoOne => handledBy[onCall[o]] = o

\* A waiting caller always has an armed timer or is due for the sweep,
\* across restarts too (call.service.ts:1286-1287).
WaitingCallsAreTimed ==
    \A c \in Calls :
        status[c] = "queued" => c \in queueTimers \/ elapsed[c] # "fresh"

\* No call stays queued or answered for ever, whoever vanishes.
LiveCallsEnd ==
    \A c \in Calls : status[c] \in Live ~> status[c] \in Final

\* What the comments claim and the code breaks.
\* "Remember the current call of this operator" ... "end the previous one
\* (switch)" (call.service.ts:702, 733): an operator with no accept in progress
\* is on one call at most.
OneCallPerOperator ==
    \A o \in Operators :
        (\A a \in accepts : a.op # o) =>
            Cardinality({c \in Calls : status[c] = "answered" /\ handledBy[c] = o}) <= 1

\* "ending an old call can never wipe the marker of the call the operator
\* switched to" (call.service.ts:155).
OldCallKeepsNewMarker ==
    [][\A u \in unmarks : UnmarkDelete(u) => onCall[u.op] \in {u.call, NoOne}]_vars

\* The join timer ends a call as missed because the "connection [was] not
\* established" (call.service.ts:347): never one the listener has joined.
JoinedCallsAreNotMissed ==
    \A c \in joined : status[c] # "missed"

-----------------------------------------------------------------------------
\* For TLC: calls, operators and listeners are only compared.
CallSymmetry == Permutations(Calls) \cup Permutations(Operators) \cup Permutations(Listeners)
=============================================================================
