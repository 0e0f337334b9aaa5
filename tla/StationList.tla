------------------------------ MODULE StationList ------------------------------
(***************************************************************************)
(* Followers, and the list of stations that listeners share (module/follow,   *)
(* getPublicStations and the switching of stations in module/station): the    *)
(* rows of Follow, the count kept on the station, and the list in Redis, for  *)
(* 45 s, with everything but who follows and how many.  An invalidation is    *)
(* not awaited.                                                               *)
(***************************************************************************)
EXTENDS Integers, FiniteSets

CONSTANTS
    People, Stations,
    Requests,                   \* toggles of a follow
    Hours,                      \* the hours of a day
    Window,                     \* when the show of each station is on: [from, to]
    MaxFaults                   \* bound: restarts and cascades that fail, together

StationListAssumption ==
    /\ Hours \in Nat \ {0}
    /\ \A s \in Stations : Window[s].from \in 0 .. Hours - 1 /\ Window[s].to \in 0 .. Hours - 1
    /\ MaxFaults \in Nat

VARIABLES
    follow,            \* the rows
    followersCount,
    toggle,            \* each request: where it is
    isActive, shows,   \* of each station: itself and its shows
    switch,            \* the switching of a station under way
    list,              \* the cached list, and the one being made
    hour,
    faults             \* history: a count that was left wrong, a late fill; and the faults so far

vars == <<follow, followersCount, toggle, isActive, shows, switch, list, hour, faults>>

Idle  == [at |-> "idle"]
None  == [is |-> "none"]
RowsOf(s) == {f \in follow : f[2] = s}
Active    == {s \in Stations : isActive[s]}

FaultsSoFar == faults.stops + faults.failures

TypeOK ==
    /\ follow \subseteq People \X Stations
    /\ followersCount \in [Stations -> Int]
    /\ \A r \in Requests :
          toggle[r].at \in {"idle", "delete", "create", "count", "uncount", "invalidate"}
    /\ isActive \in [Stations -> BOOLEAN] /\ shows \in [Stations -> BOOLEAN]
    /\ switch.at \in {"idle", "cascade", "invalidate"}
    /\ hour \in 0 .. Hours - 1
    /\ {faults.stops, faults.failures} \subseteq 0 .. MaxFaults /\ FaultsSoFar <= MaxFaults

Init ==
    /\ follow = {} /\ followersCount = [s \in Stations |-> 0]
    /\ toggle = [r \in Requests |-> Idle]
    /\ isActive = [s \in Stations |-> TRUE] /\ shows = [s \in Stations |-> TRUE]
    /\ switch = Idle
    /\ list = [held |-> None, made |-> None]
    /\ hour = 0
    /\ faults = [skewed |-> {}, late |-> FALSE, stops |-> 0, failures |-> 0]

-----------------------------------------------------------------------------
(* toggleFollow.                                                            *)

NotFollows == <<isActive, shows, switch, hour>>

Goes(r, at) == toggle' = [toggle EXCEPT ![r].at = at]

FindFollow(r, u, s) ==
    /\ toggle[r] = Idle
    /\ toggle' = [toggle EXCEPT ![r] =
            [at |-> IF <<u, s>> \in follow THEN "delete" ELSE "create", who |-> <<u, s>>]]
    /\ UNCHANGED <<follow, followersCount, list, faults, NotFollows>>

\* The row that was found may be gone by now; the count goes down all the same.  (Once for
\* each station: a bound.)
DeleteFollow(r) ==
    /\ toggle[r].at = "delete"
    /\ toggle[r].who \in follow \/ toggle[r].who[2] \notin faults.skewed
    /\ follow' = follow \ {toggle[r].who}
    /\ faults' = IF toggle[r].who \in follow THEN faults
                 ELSE [faults EXCEPT !.skewed = @ \cup {toggle[r].who[2]}]
    /\ Goes(r, "uncount")
    /\ UNCHANGED <<followersCount, list, NotFollows>>

\* Mutant: the unique index is not there to refuse a second row, or its error is ignored.
AnyNew(r) == TRUE

IsNew(r) == toggle[r].who \notin follow

\* A duplicate answers "following", without counting.
CreateFollow(r) ==
    /\ toggle[r].at = "create"
    /\ follow' = follow \cup {toggle[r].who}
    /\ IF IsNew(r) THEN Goes(r, "count") ELSE toggle' = [toggle EXCEPT ![r] = Idle]
    /\ UNCHANGED <<followersCount, list, faults, NotFollows>>

CountFollow(r) ==
    /\ toggle[r].at \in {"count", "uncount"}
    /\ followersCount' = [followersCount EXCEPT
            ![toggle[r].who[2]] = @ + IF toggle[r].at = "count" THEN 1 ELSE 0 - 1]
    /\ Goes(r, "invalidate")
    /\ UNCHANGED <<follow, list, faults, NotFollows>>

InvalidateFollow(r) ==
    /\ toggle[r].at = "invalidate"
    /\ toggle' = [toggle EXCEPT ![r] = Idle]
    /\ list' = [list EXCEPT !.held = None]
    /\ UNCHANGED <<follow, followersCount, faults, NotFollows>>

-----------------------------------------------------------------------------
(* deactivateStation and reactivateStation: the station, then its shows, best *)
(* effort, then the lists.                                                  *)

NotSwitched == <<follow, followersCount, toggle, hour>>

SwitchStation(s) ==
    /\ switch = Idle
    /\ isActive' = [isActive EXCEPT ![s] = ~@]
    /\ switch' = [at |-> "cascade", of |-> s]
    /\ UNCHANGED <<shows, list, faults, NotSwitched>>

Cascade ==
    /\ switch.at = "cascade"
    /\ switch' = [switch EXCEPT !.at = "invalidate"]
    /\ \/ /\ shows' = [shows EXCEPT ![switch.of] = isActive[switch.of]]
          /\ UNCHANGED faults
       \/ /\ FaultsSoFar < MaxFaults
          /\ faults' = [faults EXCEPT !.failures = @ + 1]
          /\ UNCHANGED shows
    /\ UNCHANGED <<isActive, list, NotSwitched>>

Invalidated(held) == None

InvalidateStation ==
    /\ switch.at = "invalidate"
    /\ switch' = Idle
    /\ list' = [list EXCEPT !.held = Invalidated(list.held)]
    /\ UNCHANGED <<isActive, shows, faults, NotSwitched>>

-----------------------------------------------------------------------------
(* getPublicStations.                                                       *)

\* getCurrentShowForStation: a window may go over midnight.
OnNow(w) ==
    IF w.from <= w.to THEN w.from <= hour /\ hour < w.to ELSE hour >= w.from \/ hour < w.to

CurrentShow(s) == shows[s] /\ OnNow(Window[s])

\* Nothing is held: the active stations are read, with their shows of now.
ReadStations ==
    /\ list.held = None /\ list.made = None
    /\ list' = [list EXCEPT !.made = [is |-> "list", live |-> [s \in Active |-> CurrentShow(s)]]]
    /\ UNCHANGED <<faults, isActive, shows, switch, NotSwitched>>

\* It is stored, whatever went on meanwhile.
StoreStations ==
    /\ list.made # None
    /\ list' = [held |-> list.made, made |-> None]
    /\ faults' = [faults EXCEPT !.late = DOMAIN list.made.live # Active]
    /\ UNCHANGED <<isActive, shows, switch, NotSwitched>>

\* An answer from what is held: who follows and how many are read again.
Answer(u) ==
    [s \in DOMAIN list.held.live |->
        [isLive |-> list.held.live[s], isFollowing |-> <<u, s>> \in follow,
         followersCount |-> followersCount[s]]]

-----------------------------------------------------------------------------
(* Time and faults.                                                         *)

Expires ==
    /\ list.held # None
    /\ list' = [list EXCEPT !.held = None]
    /\ UNCHANGED <<faults, isActive, shows, switch, NotSwitched>>

HourPasses ==
    /\ hour' = (hour + 1) % Hours
    /\ UNCHANGED <<follow, followersCount, toggle, isActive, shows, switch, list, faults>>

\* The process stops: its requests end where they are.
Restart ==
    /\ FaultsSoFar < MaxFaults
    /\ faults' = [faults EXCEPT !.stops = @ + 1,
            !.skewed = @ \cup {toggle[r].who[2] : r \in
                {x \in Requests : toggle[x].at \in {"count", "uncount"}}},
            !.late = @ \/ switch # Idle]
    /\ toggle' = [r \in Requests |-> Idle]
    /\ switch' = Idle
    /\ list' = [list EXCEPT !.made = None]
    /\ UNCHANGED <<follow, followersCount, isActive, shows, hour>>

Next ==
    \/ \E r \in Requests :
          \/ \E u \in People, s \in Stations : FindFollow(r, u, s)
          \/ DeleteFollow(r) \/ CreateFollow(r) \/ CountFollow(r) \/ InvalidateFollow(r)
    \/ \E s \in Stations : SwitchStation(s)
    \/ Cascade \/ InvalidateStation \/ ReadStations \/ StoreStations \/ Expires
    \/ HourPasses \/ Restart

Spec == Init /\ [][Next]_vars

-----------------------------------------------------------------------------
Under(s, at) == Cardinality({r \in Requests : toggle[r].at = at /\ toggle[r].who[2] = s})

\* Where no toggle deleted a row another one had deleted, and none was cut off before
\* it counted, a station's count is its rows, but for those about to be counted.
CountFollowsRows ==
    \A s \in Stations \ faults.skewed :
        followersCount[s] = Cardinality(RowsOf(s)) - Under(s, "count") + Under(s, "uncount")

\* Once a switch is over, the list has the active stations and no other, unless it was read
\* before the switch and stored after it; and an answer never shows a stranger's follow.
ListIsOfActive ==
    (list.held # None /\ switch = Idle /\ ~faults.late) =>
        /\ DOMAIN list.held.live = Active
        /\ \A u \in People : \A s \in DOMAIN Answer(u) :
              Answer(u)[s].isFollowing => Answer(u)[s].followersCount > 0 \/ s \in faults.skewed
                                          \/ Under(s, "count") > 0

FollowersAndListAgree == CountFollowsRows /\ ListIsOfActive

-----------------------------------------------------------------------------
(* Why: a row that is written or deleted and its count to come are one step.  *)

Toggling(s, at) == {r \in Requests : toggle[r].at = at /\ toggle[r].who[2] = s}

ListedAreActive ==
    list.held # None /\ switch = Idle /\ ~faults.late => DOMAIN list.held.live = Active

IInv ==
    /\ follow \subseteq People \X Stations /\ IsFiniteSet(follow)
    /\ followersCount \in [Stations -> Int]
    /\ toggle \in [Requests -> {Idle} \cup
            [at : {"delete", "create", "count", "uncount", "invalidate"}, who : People \X Stations]]
    /\ \A s \in Stations : IsFiniteSet(Toggling(s, "count")) /\ IsFiniteSet(Toggling(s, "uncount"))
    /\ isActive \in [Stations -> BOOLEAN]
    /\ switch \in {Idle} \cup [at : {"cascade", "invalidate"}, of : Stations]
    /\ list = [held |-> list.held, made |-> list.made]
    /\ faults \in [skewed : SUBSET Stations, late : BOOLEAN, stops : Nat, failures : Nat]
    /\ CountFollowsRows
    /\ ListedAreActive
=============================================================================
