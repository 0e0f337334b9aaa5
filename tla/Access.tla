------------------------------- MODULE Access -------------------------------
(* Whether the auth middleware lets one account's requests in. It decides by  *)
(* two caches in Redis: the user document, which says whether the account is  *)
(* blocked, and the status of its login. Administrators block and unblock the *)
(* account, directly or with its partner, write by write, and drop the cache  *)
(* entries afterwards. Redis may fail at every command: a read then counts as *)
(* a miss, and a write or a deletion is skipped.                              *)
EXTENDS Naturals, Sequences

CONSTANTS
    Requests,   \* requests of the account at one time
    Admins,     \* administrators' requests at one time
    MaxChanges  \* bound on the number of administrators' requests and restarts

VARIABLES
    profile, status,             \* user.isBlocked and auth.status in the database
    cachedProfile, cachedStatus, \* the cache entries
    request,  \* each request's progress, the status it read and the profile it still has to store
    admin,    \* what each administrator's request has left to do
    excused,  \* cache entries that may be outdated: a deletion failed, or a reader overlapped
    changes

db == <<profile, status>>
cache == <<cachedProfile, cachedStatus>>
vars == <<profile, status, cachedProfile, cachedStatus, request, admin, excused, changes>>

Idle == [pc |-> "idle", status |-> "none", fill |-> "none"]
Steps == {"blocked", "open", "inactive", "active", "dropStatus", "dropProfile"}

TypeOK ==
    /\ profile \in {"open", "blocked"}
    /\ status \in {"active", "inactive"}
    /\ cachedProfile \in {"none", "open", "blocked"}
    /\ cachedStatus \in {"none", "active", "inactive"}
    /\ request \in [Requests -> [pc : {"idle", "profile", "status", "readStatus", "fillStatus", "admitted", "refused"},
                                 status : {"none", "active", "inactive"}, fill : {"none", "open", "blocked"}]]
    /\ \A a \in Admins : admin[a] \in Seq(Steps)
    /\ excused \subseteq {"profile", "status"}
    /\ changes \in 0 .. MaxChanges

Init ==
    /\ profile = "open"
    /\ status = "active"
    /\ cachedProfile = "none"
    /\ cachedStatus = "none"
    /\ request = [r \in Requests |-> Idle]
    /\ admin = [a \in Admins |-> <<>>]
    /\ excused = {}
    /\ changes = 0

-----------------------------------------------------------------------------
(* A request: the user document from the cache, or from the database and then *)
(* into the cache, which nobody waits for; then the status, from its cache or *)
(* from the database and then into the cache.                                 *)

\* requests that will store what they read of the database earlier
HoldsProfile == \E r \in Requests : request[r].fill # "none"
HoldsStatus == \E r \in Requests : request[r].pc = "fillStatus"

To(r, pc) == request' = [request EXCEPT ![r].pc = pc]
Verdict(p) == IF p = "open" THEN "status" ELSE "refused"

\* a bug: what the cache answered is stored again, for its full lifetime
FillsAlways(cached) == cached
Fills(cached) == "none"

ProfileHit(r) ==
    /\ request[r].pc = "idle"
    /\ request[r].fill = "none"
    /\ cachedProfile # "none"
    /\ request' = [request EXCEPT ![r] = [@ EXCEPT !.pc = Verdict(cachedProfile), !.fill = Fills(cachedProfile)]]
    /\ UNCHANGED <<db, cache, admin, excused, changes>>

ProfileMiss(r) ==
    /\ request[r].pc = "idle"
    /\ request[r].fill = "none"
    /\ To(r, "profile")
    /\ UNCHANGED <<db, cache, admin, excused, changes>>

ReadProfile(r) ==
    /\ request[r].pc = "profile"
    /\ request' = [request EXCEPT ![r] = [@ EXCEPT !.pc = Verdict(profile), !.fill = profile]]
    /\ UNCHANGED <<db, cache, admin, excused, changes>>

FillProfile(r) ==
    /\ request[r].fill # "none"
    /\ cachedProfile' \in {request[r].fill, cachedProfile}
    /\ request' = [request EXCEPT ![r].fill = "none"]
    /\ UNCHANGED <<db, cachedStatus, admin, excused, changes>>

Decision(s) == IF s = "active" THEN "admitted" ELSE "refused"

StatusHit(r) ==
    /\ request[r].pc = "status"
    /\ cachedStatus # "none"
    /\ To(r, Decision(cachedStatus))
    /\ UNCHANGED <<db, cache, admin, excused, changes>>

StatusMiss(r) ==
    /\ request[r].pc = "status"
    /\ To(r, "readStatus")
    /\ UNCHANGED <<db, cache, admin, excused, changes>>

ReadStatus(r) ==
    /\ request[r].pc = "readStatus"
    /\ request' = [request EXCEPT ![r] = [@ EXCEPT !.pc = "fillStatus", !.status = status]]
    /\ UNCHANGED <<db, cache, admin, excused, changes>>

FillStatus(r) ==
    /\ request[r].pc = "fillStatus"
    /\ cachedStatus' \in {request[r].status, cachedStatus}
    /\ request' = [request EXCEPT ![r] = [@ EXCEPT !.pc = Decision(request[r].status), !.status = "none"]]
    /\ UNCHANGED <<db, cachedProfile, admin, excused, changes>>

Answer(r) ==
    /\ request[r].pc \in {"admitted", "refused"}
    /\ To(r, "idle")
    /\ UNCHANGED <<db, cache, admin, excused, changes>>

ProfileExpires ==
    /\ cachedProfile # "none"
    /\ cachedProfile' = "none"
    /\ excused' = IF HoldsProfile THEN excused ELSE excused \ {"profile"}
    /\ UNCHANGED <<db, cachedStatus, request, admin, changes>>

StatusExpires ==
    /\ cachedStatus # "none"
    /\ cachedStatus' = "none"
    /\ excused' = IF HoldsStatus THEN excused ELSE excused \ {"status"}
    /\ UNCHANGED <<db, cachedProfile, request, admin, changes>>

-----------------------------------------------------------------------------
(* Administrators. reactivatePartner drops no cache entry; updates of the     *)
(* profile drop the document's.                                               *)

\* a bug: the entries are dropped before the account is changed
DropsFirst == <<"dropStatus", "dropProfile", "blocked", "inactive">>

DeactivateUser == <<"blocked", "inactive", "dropStatus", "dropProfile">>
ReactivateUser == <<"open", "active", "dropStatus", "dropProfile">>
DeactivatePartner == <<"inactive", "dropStatus">>
ReactivatePartner == <<"active">>
UpdateProfile == <<"dropProfile">>

Start(a, op) ==
    /\ changes < MaxChanges
    /\ admin[a] = <<>>
    /\ changes' = changes + 1
    /\ admin' = [admin EXCEPT ![a] = op]
    /\ UNCHANGED <<db, cache, request, excused>>

Does(a, step) == admin[a] # <<>> /\ Head(admin[a]) = step /\ admin' = [admin EXCEPT ![a] = Tail(@)]

SetProfile(a, p) ==
    /\ Does(a, p)
    /\ profile' = p
    /\ excused' = IF HoldsProfile THEN excused \union {"profile"} ELSE excused
    /\ UNCHANGED <<status, cache, request, changes>>

SetStatus(a, s) ==
    /\ Does(a, s)
    /\ status' = s
    /\ excused' = IF HoldsStatus \/ Len(admin[a]) = 1 THEN excused \union {"status"} ELSE excused
    /\ UNCHANGED <<profile, cache, request, changes>>

DropStatus(a) ==
    /\ Does(a, "dropStatus")
    /\ \/ cachedStatus' = "none" /\ UNCHANGED excused
       \/ excused' = excused \union {"status"} /\ UNCHANGED cachedStatus
    /\ UNCHANGED <<db, cachedProfile, request, changes>>

DropProfile(a) ==
    /\ Does(a, "dropProfile")
    /\ \/ cachedProfile' = "none" /\ UNCHANGED excused
       \/ excused' = excused \union {"profile"} /\ UNCHANGED cachedProfile
    /\ UNCHANGED <<db, cachedStatus, request, changes>>

(* Requests under way are lost; the database and Redis stay as they are.      *)
Restart ==
    /\ changes < MaxChanges
    /\ changes' = changes + 1
    /\ request' = [r \in Requests |-> Idle]
    /\ admin' = [a \in Admins |-> <<>>]
    /\ excused' = IF \E a \in Admins : admin[a] # <<>> THEN {"profile", "status"} ELSE excused
    /\ UNCHANGED <<db, cache>>

RequestStep(r) ==
    ReadProfile(r) \/ StatusHit(r) \/ StatusMiss(r) \/ ReadStatus(r) \/ FillStatus(r) \/ Answer(r)

Next ==
    \/ \E r \in Requests : ProfileHit(r) \/ ProfileMiss(r) \/ FillProfile(r) \/ RequestStep(r)
    \/ ProfileExpires \/ StatusExpires
    \/ \E a \in Admins :
        \/ \E op \in {DeactivateUser, ReactivateUser, DeactivatePartner, ReactivatePartner, UpdateProfile} : Start(a, op)
        \/ \E p \in {"blocked", "open"} : SetProfile(a, p)
        \/ \E s \in {"active", "inactive"} : SetStatus(a, s)
        \/ DropStatus(a) \/ DropProfile(a)
    \/ Restart

(* Requests proceed and cache entries expire, after five and two minutes.     *)
Fairness ==
    /\ \A r \in Requests : WF_vars(RequestStep(r)) /\ WF_vars(FillProfile(r))
    /\ WF_vars(ProfileExpires)
    /\ WF_vars(StatusExpires)

Spec == Init /\ [][Next]_vars
FairSpec == Spec /\ Fairness

-----------------------------------------------------------------------------
(* A change of the account takes effect with the administrator's request and  *)
(* the deletions it issues: an entry outlives them only if its deletion       *)
(* failed, was cut off or never made, or a request that read the database     *)
(* before stored it after (deactivateUser, UserCache.invalidateAuthStatus).   *)
ChangesTakeEffect ==
    (\A a \in Admins : admin[a] = <<>>) =>
        /\ cachedProfile \in {profile, "none"} \/ "profile" \in excused
        /\ cachedStatus \in {status, "none"} \/ "status" \in excused

(* Why: what an administrator's request has left is the end of one of the five. *)
Remaining == {<<>>, UpdateProfile, ReactivatePartner, <<"dropStatus">>, DeactivatePartner,
    <<"dropStatus", "dropProfile">>, <<"inactive", "dropStatus", "dropProfile">>,
    <<"active", "dropStatus", "dropProfile">>, DeactivateUser, ReactivateUser}
WillDo(a, step) == \E i \in DOMAIN admin[a] : admin[a][i] = step
IInv ==
    /\ profile \in {"open", "blocked"} /\ status \in {"active", "inactive"}
    /\ request \in [Requests -> [pc : {"idle", "profile", "status", "readStatus", "fillStatus", "admitted", "refused"},
                                 status : {"none", "active", "inactive"}, fill : {"none", "open", "blocked"}]]
    /\ admin \in [Admins -> Remaining]
    /\ cachedProfile \in {profile, "none"} \/ "profile" \in excused \/ \E a \in Admins : WillDo(a, "dropProfile")
    /\ cachedStatus \in {status, "none"} \/ "status" \in excused \/ \E a \in Admins : WillDo(a, "dropStatus")
    /\ \A r \in Requests : request[r].fill \in {profile, "none"} \/ "profile" \in excused
    /\ \A r \in Requests : request[r].pc = "fillStatus" => request[r].status = status \/ "status" \in excused

Out == profile = "blocked" \/ status = "inactive"
NoneIs(pc) == \A r \in Requests : request[r].pc # pc

(* However stale the caches get, in the end they follow the account: once it  *)
(* stays blocked no request is let in any more, and once it stays open none   *)
(* is refused (the lifetimes set in auth and UserCache).                      *)
RequestsFollowAccount ==
    /\ <>[]Out => <>[]NoneIs("admitted")
    /\ <>[](~ Out) => <>[]NoneIs("refused")

=============================================================================
