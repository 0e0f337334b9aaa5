---------------------------- MODULE StaffAccounts ----------------------------
(* How an account of the dashboard comes to be, together with the station or  *)
(* the partner it administers: checks, then up to three inserts. Stations and *)
(* staff are created between startTransaction and commitTransaction, but the  *)
(* repositories do not hand the session to the inserts, so each takes effect  *)
(* by itself and an abort takes nothing back.                                 *)
EXTENDS Naturals, FiniteSets

CONSTANTS
    Requests,   \* creations under way
    Names,      \* station codes, or names of partners
    Usernames,
    Nobody,
    MaxFaults   \* inserts that fail, or processes that stop before them

AccountsAssumption == Nobody \notin Requests

VARIABLES
    job,        \* what each creation was asked for and does next
    container,  \* creations whose station or partner exists
    auth,       \* the creation whose sign-in document holds a username
    profile,    \* creations whose user document exists
    late,       \* Media Station creations past their check when another one's account came
    faults

vars == <<job, container, auth, profile, late, faults>>

Kinds == {"station", "partner", "media", "presenter", "care"}
Owns(k) == k \in {"station", "partner"}   \* creates the thing it administers
Steps == {"new", "name", "username", "container", "auth", "profile", "done", "failed"}
Jobs  == [step : Steps, kind : Kinds, name : Names, username : Usernames]

TypeOK ==
    /\ job \in [Requests -> Jobs]
    /\ container \subseteq Requests
    /\ auth \in [Usernames -> Requests \union {Nobody}]
    /\ profile \subseteq Requests
    /\ late \subseteq Requests
    /\ faults \in 0 .. MaxFaults

Init ==
    /\ job \in [Requests -> {j \in Jobs : j.step = "new"}]
    /\ container = {}
    /\ auth = [u \in Usernames |-> Nobody]
    /\ profile = {}
    /\ late = {}
    /\ faults = 0

To(r, step) == job' = [job EXCEPT ![r].step = step]
Is(r, kind) == job[r].kind = kind
Media == {r \in profile : Is(r, "media")}

-----------------------------------------------------------------------------
(* The checks: each is a read of its own before any insert                    *)

\* Another document with this station code, or this partner name.
NameTaken(r) == \E o \in container : job[o].kind = job[r].kind /\ job[o].name = job[r].name

Start(r) ==
    /\ job[r].step = "new"
    /\ To(r, IF Owns(job[r].kind) \/ Is(r, "media") THEN "name" ELSE "username")
    /\ UNCHANGED <<container, auth, profile, late, faults>>

\* "MVP: One media station account per station": all are of one station here.
Refused(r) == IF Is(r, "media") THEN Media # {} ELSE NameTaken(r)

CheckName(r) ==
    /\ job[r].step = "name"
    /\ To(r, IF Refused(r) THEN "failed" ELSE "username")
    /\ UNCHANGED <<container, auth, profile, late, faults>>

CheckUsername(r) ==
    /\ job[r].step = "username"
    /\ To(r, CASE auth[job[r].username] # Nobody -> "failed"
               [] Owns(job[r].kind)              -> "container"
               [] OTHER                          -> "auth")
    /\ UNCHANGED <<container, auth, profile, late, faults>>

-----------------------------------------------------------------------------
(* The inserts                                                                *)

\* Only stationCode has a unique index; a partner's name has none.
CreateContainer(r) ==
    /\ job[r].step = "container"
    /\ IF Is(r, "station") /\ NameTaken(r)
       THEN To(r, "failed") /\ UNCHANGED container
       ELSE To(r, "auth")   /\ container' = container \union {r}
    /\ UNCHANGED <<auth, profile, late, faults>>

\* Mutant: an insert that the unique index refuses is taken for done.
GoOn(r) == "profile"

\* After a duplicate username: the catch block aborts and throws.
OnDuplicate(r) == "failed"

\* The unique index on username decides between creations that both passed the check.
CreateAuth(r) ==
    /\ job[r].step = "auth"
    /\ IF auth[job[r].username] = Nobody
       THEN /\ auth' = [auth EXCEPT ![job[r].username] = r]
            /\ To(r, "profile")
       ELSE /\ To(r, OnDuplicate(r))
            /\ UNCHANGED auth
    /\ UNCHANGED <<container, profile, late, faults>>

CreateProfile(r) ==
    /\ job[r].step = "profile"
    /\ profile' = profile \union {r}
    /\ To(r, "done")
    /\ late' = IF Is(r, "media")
               THEN late \union {o \in Requests \ {r} :
                       Is(o, "media") /\ job[o].step \in {"username", "auth", "profile"}}
               ELSE late
    /\ UNCHANGED <<container, auth, faults>>

\* An insert fails, or the process stops: what is inserted stays.
Fail(r) ==
    /\ job[r].step \in {"container", "auth", "profile"}
    /\ faults < MaxFaults
    /\ faults' = faults + 1
    /\ To(r, "failed")
    /\ UNCHANGED <<container, auth, profile, late>>

Next ==
    \E r \in Requests :
        \/ Start(r) \/ CheckName(r) \/ CheckUsername(r)
        \/ CreateContainer(r) \/ CreateAuth(r) \/ CreateProfile(r) \/ Fail(r)

Spec == Init /\ [][Next]_vars

-----------------------------------------------------------------------------
(* Who has a profile can sign in, and with the username he was given: it is   *)
(* his own, and what he administers exists. The index on usernames, consulted *)
(* before the profile is written, is what two overlapping creations leave it  *)
(* to.                                                                        *)
ProfilesAreWhole ==
    \A r \in profile : /\ auth[job[r].username] = r
                       /\ Owns(job[r].kind) => r \in container

(* A station has a second Media Station account only if its creation had      *)
(* passed the check when the first one's account came into being.             *)
SecondMediaWasLate == Cardinality(Media \ late) <= 1

(* The two above, of any overlapping creations whatever their inserts do.     *)
AccountsAreWhole == ProfilesAreWhole /\ SecondMediaWasLate

(* "Use transaction for atomicity: station + auth + user": a creation that    *)
(* failed, and aborted, leaves neither a station nor a sign-in document.      *)
AbortedLeavesNothing ==
    \A r \in Requests : job[r].step = "failed" /\ ~Is(r, "partner") =>
        r \notin container /\ \A u \in Usernames : auth[u] # r

-----------------------------------------------------------------------------
(* Why: what a creation relies on from one insert to the next, and that a     *)
(* Media Station creation past its check is late once there is an account.    *)
CreationsAreInOrder ==
    \A r \in Requests :
        /\ job[r].step = "container" => Owns(job[r].kind)
        /\ job[r].step = "auth" /\ Owns(job[r].kind) => r \in container
        /\ job[r].step = "profile" => /\ auth[job[r].username] = r
                                      /\ Owns(job[r].kind) => r \in container

LateOnesAreKnown ==
    \A r \in Media : \A o \in Requests :
        Is(o, "media") /\ job[o].step \in {"username", "auth", "profile"} => o \in late

IInv ==
    /\ job \in [Requests -> Jobs]
    /\ auth \in [Usernames -> Requests \union {Nobody}]
    /\ profile \subseteq Requests
    /\ CreationsAreInOrder /\ ProfilesAreWhole /\ LateOnesAreKnown
    /\ \A r, o \in Media \ late : r = o
=============================================================================
