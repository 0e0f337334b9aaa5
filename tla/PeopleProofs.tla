---------------------------- MODULE PeopleProofs ----------------------------
(***************************************************************************)
(* Theorems of People: who may use the system and from where, and what is     *)
(* late.  Each service has an inductive invariant of its own, IInv of its     *)
(* module; the lemmas say that it holds at first and that every step of the   *)
(* service keeps it, and PeopleInv puts them together.  The slots v1 .. v11   *)
(* are called by the names the service has for them.                          *)
(***************************************************************************)
EXTENDS People, Totals, Integers, Sequences, FiniteSetTheorems, TLAPS

\* The instances count as the library does.
LEMMA SameOperators ==
  /\ \A T : StaffAccounts!Cardinality(T) = Cardinality(T)
  /\ \A T : Notifications!Cardinality(T) = Cardinality(T)
  /\ \A T : ApiKeys!Cardinality(T) = Cardinality(T)
  /\ \A T : ApiKeys!IsFiniteSet(T) = IsFiniteSet(T)
  /\ \A T : Statuses!Cardinality(T) = Cardinality(T)
  /\ \A T : Statuses!IsFiniteSet(T) = IsFiniteSet(T)
  /\ \A T : StationList!Cardinality(T) = Cardinality(T)
  /\ \A T : StationList!IsFiniteSet(T) = IsFiniteSet(T)
  /\ \A T : WeeklyPosts!Cardinality(T) = Cardinality(T)
  /\ \A T : WeeklyPosts!IsFiniteSet(T) = IsFiniteSet(T)
  /\ \A T : Presence!Cardinality(T) = Cardinality(T)
  /\ \A T : Presence!IsFiniteSet(T) = IsFiniteSet(T)
  /\ \A T : Statements!Cardinality(T) = Cardinality(T)
  /\ \A T : Statements!IsFiniteSet(T) = IsFiniteSet(T)
  /\ \A T : Listeners!Cardinality(T) = Cardinality(T)
  /\ \A T : Listeners!IsFiniteSet(T) = IsFiniteSet(T)
  /\ \A T : Dashboard!Cardinality(T) = Cardinality(T)
  /\ \A T : Dashboard!IsFiniteSet(T) = IsFiniteSet(T)
<1>1. \A T : StaffAccounts!Cardinality(T) = Cardinality(T)
  BY DEF StaffAccounts!Cardinality, Cardinality
<1>2. \A T : Notifications!Cardinality(T) = Cardinality(T)
  BY DEF Notifications!Cardinality, Cardinality
<1>3. \A T : ApiKeys!Cardinality(T) = Cardinality(T)
  BY DEF ApiKeys!Cardinality, Cardinality
<1>4. \A T : ApiKeys!IsFiniteSet(T) = IsFiniteSet(T)
  BY DEF ApiKeys!IsFiniteSet, IsFiniteSet
<1>5. \A T : Statuses!Cardinality(T) = Cardinality(T)
  BY DEF Statuses!Cardinality, Cardinality
<1>6. \A T : Statuses!IsFiniteSet(T) = IsFiniteSet(T)
  BY DEF Statuses!IsFiniteSet, IsFiniteSet
<1>7. \A T : StationList!Cardinality(T) = Cardinality(T)
  BY DEF StationList!Cardinality, Cardinality
<1>8. \A T : StationList!IsFiniteSet(T) = IsFiniteSet(T)
  BY DEF StationList!IsFiniteSet, IsFiniteSet
<1>9. \A T : WeeklyPosts!Cardinality(T) = Cardinality(T)
  BY DEF WeeklyPosts!Cardinality, Cardinality
<1>10. \A T : WeeklyPosts!IsFiniteSet(T) = IsFiniteSet(T)
  BY DEF WeeklyPosts!IsFiniteSet, IsFiniteSet
<1>11. \A T : Presence!Cardinality(T) = Cardinality(T)
  BY DEF Presence!Cardinality, Cardinality
<1>12. \A T : Presence!IsFiniteSet(T) = IsFiniteSet(T)
  BY DEF Presence!IsFiniteSet, IsFiniteSet
<1>13. \A T : Statements!Cardinality(T) = Cardinality(T)
  BY DEF Statements!Cardinality, Cardinality
<1>14. \A T : Statements!IsFiniteSet(T) = IsFiniteSet(T)
  BY DEF Statements!IsFiniteSet, IsFiniteSet
<1>15. \A T : Listeners!Cardinality(T) = Cardinality(T)
  BY DEF Listeners!Cardinality, Cardinality
<1>16. \A T : Listeners!IsFiniteSet(T) = IsFiniteSet(T)
  BY DEF Listeners!IsFiniteSet, IsFiniteSet
<1>17. \A T : Dashboard!Cardinality(T) = Cardinality(T)
  BY DEF Dashboard!Cardinality, Cardinality
<1>18. \A T : Dashboard!IsFiniteSet(T) = IsFiniteSet(T)
  BY DEF Dashboard!IsFiniteSet, IsFiniteSet
<1> QED
  BY <1>1, <1>2, <1>3, <1>4, <1>5, <1>6, <1>7, <1>8, <1>9, <1>10, <1>11, <1>12,
     <1>13, <1>14, <1>15, <1>16, <1>17, <1>18

-----------------------------------------------------------------------------
(* StaffAccounts.                                                             *)

\* At most one element, counted.
LEMMA AtMostOne ==
  ASSUME NEW T, \A x, y \in T : x = y
  PROVE  Cardinality(T) <= 1
<1>1. CASE T = {}
  BY <1>1, FS_EmptySet
<1>2. CASE T # {}
  <2>1. PICK x \in T : TRUE
    BY <1>2
  <2>2. T = {x}
    BY <2>1
  <2> QED
    BY <2>2, FS_Singleton
<1> QED
  BY <1>1, <1>2

\* No creation is under way, and there is no account.
LEMMA StaffAccountsAtFirst == StaffAccounts!Init => StaffAccounts!IInv
BY DEF StaffAccounts!Init, StaffAccounts!IInv, StaffAccounts!Jobs, StaffAccounts!CreationsAreInOrder,
   StaffAccounts!ProfilesAreWhole, StaffAccounts!LateOnesAreKnown, StaffAccounts!Media

\* One creation goes on to another step.
LEMMA StaffAccountsGo ==
  ASSUME StaffAccounts!IInv, NEW r \in R, NEW step \in StaffAccounts!Steps, StaffAccounts!To(r, step)
  PROVE  /\ v1' \in [R -> StaffAccounts!Jobs]
         /\ \A o \in R : /\ v1'[o].step = IF o = r THEN step ELSE v1[o].step
                         /\ v1'[o].kind = v1[o].kind /\ v1'[o].username = v1[o].username
                         /\ v1'[o].name = v1[o].name
BY DEF StaffAccounts!IInv, StaffAccounts!To, StaffAccounts!Jobs

\* The four functions that create staff: their checks, their inserts, and a failure between any two.
LEMMA StaffAccountsKept ==
  ASSUME StaffAccounts!AccountsAssumption, StaffAccounts!IInv, StaffAccounts!Next
  PROVE  StaffAccounts!IInv'
<1> DEFINE job == v1  container == v2  auth == v3  profile == v4  late == v5
<1> USE DEF StaffAccounts!Steps, StaffAccounts!Owns, StaffAccounts!Kinds
<1>1. PICK r \in R : \/ StaffAccounts!Start(r) \/ StaffAccounts!CheckName(r)
                     \/ StaffAccounts!CheckUsername(r) \/ StaffAccounts!CreateContainer(r)
                     \/ StaffAccounts!CreateAuth(r) \/ StaffAccounts!CreateProfile(r)
                     \/ StaffAccounts!Fail(r)
  BY DEF StaffAccounts!Next
<1>2. \A o \in R : job[o].kind \in StaffAccounts!Kinds /\ job[o].username \in B /\ job[o].step \in StaffAccounts!Steps
  BY DEF StaffAccounts!IInv, StaffAccounts!Jobs
<1>3. CASE StaffAccounts!Start(r)
  <2>1. PICK step \in {"name", "username"} :
           StaffAccounts!To(r, step) /\ (StaffAccounts!Is(r, "media") => step = "name")
    BY <1>3 DEF StaffAccounts!Start
  <2>2. UNCHANGED <<container, auth, profile, late>> /\ job[r].step = "new"
    BY <1>3 DEF StaffAccounts!Start
  <2> QED
    BY <2>1, <2>2, StaffAccountsGo
    DEF StaffAccounts!IInv, StaffAccounts!CreationsAreInOrder, StaffAccounts!Is,
        StaffAccounts!ProfilesAreWhole, StaffAccounts!LateOnesAreKnown, StaffAccounts!Media
<1>4. CASE StaffAccounts!CheckName(r)
  <2>1. PICK step \in {"failed", "username"} :
           /\ StaffAccounts!To(r, step)
           /\ StaffAccounts!Is(r, "media") /\ step = "username" => StaffAccounts!Media = {}
    BY <1>4 DEF StaffAccounts!CheckName, StaffAccounts!Refused
  <2>2. UNCHANGED <<container, auth, profile, late>> /\ job[r].step = "name"
    BY <1>4 DEF StaffAccounts!CheckName
  <2> QED
    BY <2>1, <2>2, StaffAccountsGo
    DEF StaffAccounts!IInv, StaffAccounts!CreationsAreInOrder, StaffAccounts!Is,
        StaffAccounts!ProfilesAreWhole, StaffAccounts!LateOnesAreKnown, StaffAccounts!Media
<1>5. CASE StaffAccounts!CheckUsername(r)
  <2>1. PICK step \in {"failed", "container", "auth"} :
           /\ StaffAccounts!To(r, step)
           /\ step = "auth" => ~StaffAccounts!Owns(job[r].kind)
           /\ step = "container" => StaffAccounts!Owns(job[r].kind)
    BY <1>5 DEF StaffAccounts!CheckUsername
  <2>2. UNCHANGED <<container, auth, profile, late>> /\ job[r].step = "username"
    BY <1>5 DEF StaffAccounts!CheckUsername
  <2> QED
    BY <2>1, <2>2, StaffAccountsGo
    DEF StaffAccounts!IInv, StaffAccounts!CreationsAreInOrder, StaffAccounts!Is,
        StaffAccounts!ProfilesAreWhole, StaffAccounts!LateOnesAreKnown, StaffAccounts!Media
<1>6. CASE StaffAccounts!CreateContainer(r) \/ StaffAccounts!Fail(r)
  <2>1. PICK step \in {"failed", "auth"} :
           /\ StaffAccounts!To(r, step)
           /\ step = "auth" => job[r].step = "container" /\ r \in container'
    BY <1>6 DEF StaffAccounts!CreateContainer, StaffAccounts!Fail
  <2>2. UNCHANGED <<auth, profile, late>> /\ container \subseteq container'
    BY <1>6 DEF StaffAccounts!CreateContainer, StaffAccounts!Fail
  <2>3. job[r].step = "container" => ~StaffAccounts!Is(r, "media")
    BY DEF StaffAccounts!IInv, StaffAccounts!CreationsAreInOrder, StaffAccounts!Is
  <2> QED
    BY <2>1, <2>2, <2>3, StaffAccountsGo
    DEF StaffAccounts!IInv, StaffAccounts!CreationsAreInOrder, StaffAccounts!Is,
        StaffAccounts!ProfilesAreWhole, StaffAccounts!LateOnesAreKnown, StaffAccounts!Media
<1>7. CASE StaffAccounts!CreateAuth(r)
  <2>1. CASE auth[job[r].username] = "nobody"
    <3>1. /\ auth' = [auth EXCEPT ![job[r].username] = r] /\ StaffAccounts!To(r, "profile")
          /\ job[r].step = "auth" /\ UNCHANGED <<container, profile, late>>
      BY <1>7, <2>1 DEF StaffAccounts!CreateAuth
    <3> QED
      BY <1>2, <2>1, <3>1, StaffAccountsGo
      DEF StaffAccounts!IInv, StaffAccounts!CreationsAreInOrder, StaffAccounts!Is, StaffAccounts!AccountsAssumption,
          StaffAccounts!ProfilesAreWhole, StaffAccounts!LateOnesAreKnown, StaffAccounts!Media
  <2>2. CASE auth[job[r].username] # "nobody"
    <3>1. StaffAccounts!To(r, "failed") /\ UNCHANGED <<container, auth, profile, late>>
      BY <1>7, <2>2 DEF StaffAccounts!CreateAuth, StaffAccounts!OnDuplicate
    <3> QED
      BY <3>1, StaffAccountsGo
      DEF StaffAccounts!IInv, StaffAccounts!CreationsAreInOrder, StaffAccounts!Is,
          StaffAccounts!ProfilesAreWhole, StaffAccounts!LateOnesAreKnown, StaffAccounts!Media
  <2> QED
    BY <2>1, <2>2
<1>8. CASE StaffAccounts!CreateProfile(r)
  <2>1. /\ StaffAccounts!To(r, "done") /\ job[r].step = "profile"
        /\ profile' = profile \union {r} /\ UNCHANGED <<container, auth>>
    BY <1>8 DEF StaffAccounts!CreateProfile
  <2>2. late' = IF job[r].kind = "media"
                THEN late \union {o \in R \ {r} :
                        job[o].kind = "media" /\ job[o].step \in {"username", "auth", "profile"}}
                ELSE late
    BY <1>8 DEF StaffAccounts!CreateProfile, StaffAccounts!Is
  <2>3. \A o \in R : /\ job'[o].step = IF o = r THEN "done" ELSE job[o].step
                     /\ job'[o].kind = job[o].kind /\ job'[o].username = job[o].username
    BY <2>1, StaffAccountsGo
  <2>4. StaffAccounts!Media' = IF job[r].kind = "media" THEN StaffAccounts!Media \union {r} ELSE StaffAccounts!Media
    BY <2>1, <2>3 DEF StaffAccounts!Media, StaffAccounts!Is, StaffAccounts!IInv
  <2>5. StaffAccounts!Media \subseteq R
    BY DEF StaffAccounts!Media, StaffAccounts!IInv
  <2>6. StaffAccounts!CreationsAreInOrder' /\ StaffAccounts!ProfilesAreWhole'
    BY <2>1, <2>3
    DEF StaffAccounts!IInv, StaffAccounts!CreationsAreInOrder, StaffAccounts!ProfilesAreWhole
  <2>7. StaffAccounts!LateOnesAreKnown'
    BY <2>1, <2>2, <2>3, <2>4, <2>5 DEF StaffAccounts!IInv, StaffAccounts!LateOnesAreKnown, StaffAccounts!Is
  <2>8. \A m, o \in (StaffAccounts!Media \ late)' : m = o
    <3>1. job[r].kind = "media" /\ StaffAccounts!Media # {} => r \in late
      BY <2>1 DEF StaffAccounts!IInv, StaffAccounts!LateOnesAreKnown, StaffAccounts!Is
    <3> QED
      BY <2>2, <2>4, <3>1 DEF StaffAccounts!IInv
  <2> QED
    BY <2>1, <2>6, <2>7, <2>8, StaffAccountsGo DEF StaffAccounts!IInv
<1> QED
  BY <1>1, <1>3, <1>4, <1>5, <1>6, <1>7, <1>8

\* An inductive invariant of the creations gives what is stated of them.
LEMMA StaffAccountsWhole == StaffAccounts!IInv => StaffAccounts!AccountsAreWhole
<1> SUFFICES ASSUME StaffAccounts!IInv PROVE StaffAccounts!AccountsAreWhole
  OBVIOUS
<1>1. Cardinality(StaffAccounts!Media \ v5) <= 1
  BY AtMostOne DEF StaffAccounts!IInv
<1> QED
  BY <1>1, SameOperators
  DEF StaffAccounts!IInv, StaffAccounts!AccountsAreWhole, StaffAccounts!SecondMediaWasLate

-----------------------------------------------------------------------------
(* SignIn.                                                                    *)

\* What a sequence is after one element was changed, or one appended.
LEMMA OneElementChanges ==
  ASSUME NEW T, NEW s \in Seq(T), NEW i \in DOMAIN s, NEW e \in T
  PROVE  /\ [s EXCEPT ![i] = e] \in Seq(T) /\ DOMAIN [s EXCEPT ![i] = e] = DOMAIN s
         /\ \A k \in DOMAIN s : [s EXCEPT ![i] = e][k] = IF k = i THEN e ELSE s[k]
         /\ i \in Nat /\ s[i] \in T
OBVIOUS

\* Changing an element that is not there changes nothing.
LEMMA NoElementChanges ==
  ASSUME NEW T, NEW s \in Seq(T), NEW i, i \notin DOMAIN s, NEW e
  PROVE  [s EXCEPT ![i] = e] = s
OBVIOUS

\* What a sequence is with one more element.
LEMMA OneIsAppended ==
  ASSUME NEW T, NEW s \in Seq(T), NEW e \in T
  PROVE  /\ Append(s, e) \in Seq(T) /\ Len(Append(s, e)) = Len(s) + 1 /\ Len(s) + 1 \in Nat
         /\ DOMAIN Append(s, e) = DOMAIN s \union {Len(s) + 1}
         /\ Append(s, e)[Len(s) + 1] = e
         /\ \A k \in DOMAIN s : Append(s, e)[k] = s[k]
OBVIOUS

\* Nobody has asked for a code.
LEMMA SignInAtFirst == SignIn!Init => SignIn!IInv
BY DEF SignIn!Init, SignIn!IInv, SignIn!Idle, SignIn!CallsAreAboutDocuments, SignIn!OneListener

\* One call goes on with another thing to do.
LEMMA SignInGoes ==
  ASSUME SignIn!IInv, NEW r \in A, NEW j, SignIn!Goes(r, j),
         j \in [step : {"idle", "create", "code", "use", "verify", "find", "profile"}, auth : Nat, code : Nat]
  PROVE  /\ v4' \in [A -> [step : {"idle", "create", "code", "use", "verify", "find", "profile"},
                           auth : Nat, code : Nat]]
         /\ \A o \in A : v4'[o] = IF o = r THEN j ELSE v4[o]
BY DEF SignIn!IInv, SignIn!Goes

\* initiate and verifyOtp, whichever calls for one number overlap.
LEMMA SignInKept ==
  ASSUME SignIn!IInv, SignIn!Next
  PROVE  SignIn!IInv'
<1> DEFINE auths == v1  codes == v2  profiles == v3  job == v4
           Code == [auth : Nat, used : BOOLEAN, attempts : Nat, expired : BOOLEAN]
           Todo == [step : {"idle", "create", "code", "use", "verify", "find", "profile"},
                    auth : Nat, code : Nat]
\* A call that goes on, without a write of documents or profiles.
<1>1. ASSUME NEW r \in A, NEW j \in Todo, SignIn!Goes(r, j),
             j.step \in {"code", "use", "verify", "find", "profile"} => j.auth \in DOMAIN auths,
             j.step \in {"find", "profile"} => auths[j.auth],
             UNCHANGED <<auths, profiles>>, codes' \in Seq(Code)
      PROVE  SignIn!IInv'
  <2>1. job' \in [A -> Todo] /\ \A o \in A : job'[o] = IF o = r THEN j ELSE job[o]
    BY <1>1, SignInGoes
  <2>2. SignIn!CallsAreAboutDocuments'
    BY <1>1, <2>1 DEF SignIn!IInv, SignIn!CallsAreAboutDocuments
  <2>3. SignIn!OneListener'
    BY <1>1 DEF SignIn!IInv, SignIn!OneListener
  <2> QED
    BY <1>1, <2>1, <2>2, <2>3 DEF SignIn!IInv
<1>2. \A r \in A : job[r] \in Todo /\ job[r] = [step |-> job[r].step, auth |-> job[r].auth, code |-> job[r].code]
  BY DEF SignIn!IInv
<1>3. codes \in Seq(Code) /\ auths \in Seq(BOOLEAN) /\ profiles \in Seq(Nat)
  BY DEF SignIn!IInv
<1>4. SignIn!Idle \in Todo /\ SignIn!Idle.step = "idle"
  BY DEF SignIn!Idle
<1> HIDE DEF Todo, Code
<1>5. CASE SignIn!Expire
  <2>1. PICK c \in DOMAIN codes : codes' = [codes EXCEPT ![c].expired = TRUE]
    BY <1>5 DEF SignIn!Expire
  <2>2. codes' \in Seq(Code)
    <3>1. codes[c] \in Code
      BY <1>3, OneElementChanges
    <3>2. [codes[c] EXCEPT !.expired = TRUE] \in Code
      BY <3>1 DEF Code
    <3> QED
      BY <1>3, <2>1, <3>2, OneElementChanges
  <2>3. UNCHANGED <<auths, profiles, job>>
    BY <1>5 DEF SignIn!Expire
  <2> QED
    BY <2>2, <2>3 DEF SignIn!IInv, SignIn!CallsAreAboutDocuments, SignIn!OneListener, Code
<1>6. ASSUME NEW r \in A, SignIn!Initiate(r) PROVE SignIn!IInv'
  <2>1. UNCHANGED <<auths, codes, profiles>>
    BY <1>6 DEF SignIn!Initiate
  <2>2. /\ [SignIn!Idle EXCEPT !.step = "create"] \in Todo
        /\ [SignIn!Idle EXCEPT !.step = "create"].step = "create"
    BY <1>4 DEF Todo
  <2>3. CASE DOMAIN auths = {}
    BY <1>1, <1>3, <1>6, <2>1, <2>2, <2>3 DEF SignIn!Initiate, SignIn!Found
  <2>4. CASE DOMAIN auths # {}
    <3>1. PICK a \in DOMAIN auths : SignIn!Goes(r, [SignIn!Idle EXCEPT !.step = "code", !.auth = a])
      BY <1>6, <2>4 DEF SignIn!Initiate, SignIn!Found
    <3>2. a \in Nat
      BY <1>3
    <3>3. /\ [SignIn!Idle EXCEPT !.step = "code", !.auth = a] \in Todo
          /\ [SignIn!Idle EXCEPT !.step = "code", !.auth = a].step = "code"
          /\ [SignIn!Idle EXCEPT !.step = "code", !.auth = a].auth = a
      BY <1>4, <3>2 DEF Todo
    <3> QED
      BY <1>1, <1>3, <2>1, <3>1, <3>3
  <2> QED
    BY <2>3, <2>4
<1>7. ASSUME NEW r \in A, SignIn!CreateAuth(r) PROVE SignIn!IInv'
  <2>1. auths' = Append(auths, FALSE) /\ UNCHANGED <<codes, profiles>>
    BY <1>7 DEF SignIn!CreateAuth
  <2>2. SignIn!Goes(r, [job[r] EXCEPT !.step = "code", !.auth = Len(auths')])
    BY <1>7 DEF SignIn!CreateAuth
  <2>3. /\ Len(auths') = Len(auths) + 1 /\ auths' \in Seq(BOOLEAN)
        /\ auths'[Len(auths')] = FALSE
        /\ \A a \in DOMAIN auths : a \in DOMAIN auths' /\ auths'[a] = auths[a]
        /\ DOMAIN auths' = DOMAIN auths \union {Len(auths')}
    <3> DEFINE no == FALSE
    <3>1. no \in BOOLEAN /\ auths' = Append(auths, no)
      BY <2>1
    <3> HIDE DEF no
    <3>2. /\ Len(auths') = Len(auths) + 1 /\ auths' \in Seq(BOOLEAN)
          /\ auths'[Len(auths')] = no
          /\ \A a \in DOMAIN auths : a \in DOMAIN auths' /\ auths'[a] = auths[a]
          /\ DOMAIN auths' = DOMAIN auths \union {Len(auths')}
      BY <1>3, <3>1, OneIsAppended
    <3> QED
      BY <3>2 DEF no
  <2>4. Len(auths') \in Nat
    BY <2>3
  <2> DEFINE j == [job[r] EXCEPT !.step = "code", !.auth = Len(auths')]
  <2>6. j \in Todo /\ j.step = "code" /\ j.auth = Len(auths')
    BY <1>2, <2>4 DEF Todo
  <2> HIDE DEF j
  <2>7. job' \in [A -> Todo] /\ \A o \in A : job'[o] = IF o = r THEN j ELSE job[o]
    BY <2>2, <2>6, SignInGoes DEF j, Todo
  <2>8. SignIn!CallsAreAboutDocuments'
    BY <2>3, <2>6, <2>7 DEF SignIn!IInv, SignIn!CallsAreAboutDocuments
  <2>9. SignIn!OneListener'
    BY <2>1, <2>3 DEF SignIn!IInv, SignIn!OneListener
  <2> QED
    BY <1>3, <2>1, <2>3, <2>7, <2>8, <2>9 DEF SignIn!IInv, Todo, Code
<1>8. ASSUME NEW r \in A, SignIn!StoreCode(r) \/ SignIn!Stop(r) PROVE SignIn!IInv'
  <2>1. UNCHANGED <<auths, profiles>> /\ SignIn!Goes(r, SignIn!Idle)
    BY <1>8 DEF SignIn!StoreCode, SignIn!Stop, SignIn!Ends
  <2>2. codes' \in Seq(Code)
    <3>1. CASE SignIn!StoreCode(r)
      <4>1. [auth |-> job[r].auth, used |-> FALSE, attempts |-> 0, expired |-> FALSE] \in Code
        BY <1>2 DEF Todo, Code
      <4> QED
        BY <1>3, <3>1, <4>1, OneIsAppended DEF SignIn!StoreCode
    <3>2. CASE SignIn!Stop(r)
      BY <1>3, <3>2 DEF SignIn!Stop
    <3> QED
      BY <1>8, <3>1, <3>2
  <2> QED
    BY <1>1, <1>4, <2>1, <2>2
<1>9. ASSUME NEW r \in A, SignIn!VerifyOtp(r) PROVE SignIn!IInv'
  <2>1. PICK a \in DOMAIN auths : \E c \in DOMAIN codes :
           \/ SignIn!Goes(r, [step |-> "use", auth |-> a, code |-> c]) /\ UNCHANGED codes
           \/ codes' = [codes EXCEPT ![c].attempts = @ + 1] /\ UNCHANGED job
    BY <1>9 DEF SignIn!VerifyOtp, SignIn!Found, SignIn!Latest
  <2>2. PICK c \in DOMAIN codes :
           \/ SignIn!Goes(r, [step |-> "use", auth |-> a, code |-> c]) /\ UNCHANGED codes
           \/ codes' = [codes EXCEPT ![c].attempts = @ + 1] /\ UNCHANGED job
    BY <2>1
  <2>3. UNCHANGED <<auths, profiles>>
    BY <1>9 DEF SignIn!VerifyOtp
  <2>4. a \in Nat /\ c \in Nat
    BY <1>3
  <2>5. CASE SignIn!Goes(r, [step |-> "use", auth |-> a, code |-> c]) /\ UNCHANGED codes
    <3>1. [step |-> "use", auth |-> a, code |-> c] \in Todo
      BY <2>4 DEF Todo
    <3> QED
      BY <1>1, <1>3, <2>3, <2>5, <3>1
  <2>6. CASE codes' = [codes EXCEPT ![c].attempts = @ + 1] /\ UNCHANGED job
    <3>1. codes[c] \in Code
      BY <1>3, OneElementChanges
    <3>2. [codes[c] EXCEPT !.attempts = @ + 1] \in Code
      BY <3>1 DEF Code
    <3>3. codes' \in Seq(Code)
      BY <1>3, <2>6, <3>2, OneElementChanges
    <3> QED
      BY <2>3, <2>6, <3>3 DEF SignIn!IInv, SignIn!CallsAreAboutDocuments, SignIn!OneListener, Code
  <2> QED
    BY <2>2, <2>5, <2>6
<1>10. ASSUME NEW r \in A, SignIn!MarkUsed(r) PROVE SignIn!IInv'
  <2>1. /\ job[r].step = "use" /\ SignIn!Goes(r, [job[r] EXCEPT !.step = "verify"])
        /\ UNCHANGED <<auths, profiles>>
    BY <1>10 DEF SignIn!MarkUsed, SignIn!Step
  <2>2. codes' = [codes EXCEPT ![job[r].code].used = TRUE]
    BY <1>10 DEF SignIn!MarkUsed
  <2>3. codes' \in Seq(Code)
    <3>1. CASE job[r].code \in DOMAIN codes
      <4>1. codes[job[r].code] \in Code
        BY <1>3, <3>1, OneElementChanges
      <4>2. [codes[job[r].code] EXCEPT !.used = TRUE] \in Code
        BY <4>1 DEF Code
      <4> QED
        BY <1>3, <2>2, <3>1, <4>2, OneElementChanges
    <3>2. CASE job[r].code \notin DOMAIN codes
      BY <1>3, <2>2, <3>2, NoElementChanges
    <3> QED
      BY <3>1, <3>2
  <2>4. job[r].auth \in DOMAIN auths
    BY <2>1 DEF SignIn!IInv, SignIn!CallsAreAboutDocuments
  <2>5. /\ [job[r] EXCEPT !.step = "verify"] \in Todo
        /\ [job[r] EXCEPT !.step = "verify"].step = "verify"
        /\ [job[r] EXCEPT !.step = "verify"].auth = job[r].auth
    BY <1>2 DEF Todo
  <2> QED
    BY <1>1, <2>1, <2>3, <2>4, <2>5
<1>11. ASSUME NEW r \in A, SignIn!VerifyPhone(r) PROVE SignIn!IInv'
  <2>1. CASE ~SignIn!MayVerify(job[r].auth)
    BY <1>1, <1>3, <1>4, <1>11, <2>1 DEF SignIn!VerifyPhone, SignIn!Ends
  <2>2. CASE SignIn!MayVerify(job[r].auth)
    <3>1. /\ job[r].step = "verify" /\ auths' = [auths EXCEPT ![job[r].auth] = TRUE]
          /\ SignIn!Goes(r, [job[r] EXCEPT !.step = "find"]) /\ UNCHANGED <<codes, profiles>>
      BY <1>11, <2>2 DEF SignIn!VerifyPhone, SignIn!Step
    <3>2. job[r].auth \in DOMAIN auths
      BY <3>1 DEF SignIn!IInv, SignIn!CallsAreAboutDocuments
    <3>3. /\ auths' \in Seq(BOOLEAN) /\ DOMAIN auths' = DOMAIN auths
          /\ \A a \in DOMAIN auths : auths'[a] = (a = job[r].auth \/ auths[a])
      <4>1. TRUE \in BOOLEAN
        OBVIOUS
      <4>2. /\ [auths EXCEPT ![job[r].auth] = TRUE] \in Seq(BOOLEAN)
            /\ DOMAIN [auths EXCEPT ![job[r].auth] = TRUE] = DOMAIN auths
            /\ \A a \in DOMAIN auths : [auths EXCEPT ![job[r].auth] = TRUE][a]
                                          = IF a = job[r].auth THEN TRUE ELSE auths[a]
        BY <1>3, <3>2, <4>1, OneElementChanges, Zenon
      <4>3. \A a \in DOMAIN auths : auths[a] \in BOOLEAN
        BY <1>3
      <4> QED
        BY <3>1, <4>2, <4>3
    <3> DEFINE j == [job[r] EXCEPT !.step = "find"]
    <3>5. j \in Todo /\ j.step = "find" /\ j.auth = job[r].auth
      BY <1>2 DEF Todo
    <3> HIDE DEF j
    <3>6. job' \in [A -> Todo] /\ \A o \in A : job'[o] = IF o = r THEN j ELSE job[o]
      BY <3>1, <3>5, SignInGoes DEF j, Todo
    <3>7. SignIn!CallsAreAboutDocuments'
      BY <3>2, <3>3, <3>5, <3>6 DEF SignIn!IInv, SignIn!CallsAreAboutDocuments
    <3>8. SignIn!OneListener'
      BY <2>2, <3>1, <3>3 DEF SignIn!IInv, SignIn!OneListener, SignIn!MayVerify
    <3> QED
      BY <1>3, <3>1, <3>3, <3>6, <3>7, <3>8 DEF SignIn!IInv, Todo, Code
  <2> QED
    BY <2>1, <2>2
<1>12. ASSUME NEW r \in A, SignIn!FindProfile(r) PROVE SignIn!IInv'
  <2>1. job[r].step = "find" /\ UNCHANGED <<auths, codes, profiles>>
    BY <1>12 DEF SignIn!FindProfile
  <2>2. CASE SignIn!Goes(r, SignIn!Idle)
    BY <1>1, <1>3, <1>4, <2>1, <2>2
  <2>3. CASE SignIn!Goes(r, [job[r] EXCEPT !.step = "profile"])
    <3>1. job[r].auth \in DOMAIN auths /\ auths[job[r].auth]
      BY <2>1 DEF SignIn!IInv, SignIn!CallsAreAboutDocuments
    <3>2. /\ [job[r] EXCEPT !.step = "profile"] \in Todo
          /\ [job[r] EXCEPT !.step = "profile"].auth = job[r].auth
      BY <1>2 DEF Todo
    <3> QED
      BY <1>1, <1>3, <2>1, <2>3, <3>1, <3>2
  <2> QED
    BY <1>12, <2>2, <2>3 DEF SignIn!FindProfile, SignIn!Ends, SignIn!Step
<1>13. ASSUME NEW r \in A, SignIn!CreateProfile(r) PROVE SignIn!IInv'
  <2>1. /\ job[r].step = "profile" /\ UNCHANGED <<auths, codes>> /\ SignIn!Goes(r, SignIn!Idle)
        /\ profiles' = IF SignIn!HasProfile(job[r].auth) THEN profiles ELSE Append(profiles, job[r].auth)
    BY <1>13 DEF SignIn!CreateProfile, SignIn!Refused, SignIn!Ends
  <2>2. CASE SignIn!HasProfile(job[r].auth)
    BY <1>1, <1>3, <1>4, <2>1, <2>2
  <2>3. CASE ~SignIn!HasProfile(job[r].auth)
    <3>1. job[r].auth \in DOMAIN auths /\ auths[job[r].auth]
      BY <2>1 DEF SignIn!IInv, SignIn!CallsAreAboutDocuments
    <3>2. Len(profiles) = 0
      <4>1. Len(profiles) \in Nat /\ Len(profiles) <= 1 /\ DOMAIN profiles = 1 .. Len(profiles)
        BY <1>3 DEF SignIn!IInv, SignIn!OneListener
      <4>2. ASSUME Len(profiles) = 1 PROVE FALSE
        <5>1. 1 \in DOMAIN profiles
          BY <4>1, <4>2
        <5>2. profiles[1] = job[r].auth
          BY <3>1, <5>1 DEF SignIn!IInv, SignIn!OneListener
        <5> QED
          BY <2>3, <5>1, <5>2 DEF SignIn!HasProfile
      <4> QED
        BY <4>1, <4>2
    <3>3. job[r].auth \in Nat
      BY <1>2 DEF Todo
    <3>4. /\ profiles' \in Seq(Nat) /\ Len(profiles') = 1 /\ DOMAIN profiles' = {1}
          /\ profiles'[1] = job[r].auth
      BY <1>3, <2>1, <2>3, <3>2, <3>3
    <3>5. job' \in [A -> Todo] /\ \A o \in A : job'[o] = IF o = r THEN SignIn!Idle ELSE job[o]
      BY <1>4, <2>1, SignInGoes DEF Todo
    <3>6. SignIn!CallsAreAboutDocuments'
      BY <1>4, <2>1, <3>5 DEF SignIn!IInv, SignIn!CallsAreAboutDocuments
    <3>7. SignIn!OneListener'
      BY <2>1, <3>1, <3>4 DEF SignIn!IInv, SignIn!OneListener
    <3> QED
      BY <1>3, <2>1, <3>1, <3>4, <3>5, <3>6, <3>7 DEF SignIn!IInv, Todo, Code
  <2> QED
    BY <2>2, <2>3
<1> QED
  BY <1>5, <1>6, <1>7, <1>8, <1>9, <1>10, <1>11, <1>12, <1>13 DEF SignIn!Next

-----------------------------------------------------------------------------
(* TwoFactor.                                                                 *)

\* The second factor is off.
LEMMA TwoFactorAtFirst == TwoFactor!Init => TwoFactor!IInv
<1> SUFFICES ASSUME TwoFactor!Init PROVE TwoFactor!IInv
  OBVIOUS
<1>1. v1 = [enabled |-> FALSE, secret |-> "none", temp |-> "none", reset |-> FALSE]
  BY DEF TwoFactor!Init
<1>2. v1 \in TwoFactor!Docs /\ ~v1.enabled
  BY <1>1 DEF TwoFactor!Docs, TwoFactor!Values
<1>3. TwoFactor!Idle \in TwoFactor!Jobs /\ TwoFactor!Idle.step = "idle"
  BY DEF TwoFactor!Idle, TwoFactor!Jobs, TwoFactor!Values
<1>4. v3 \in [A -> TwoFactor!Jobs] /\ \A r \in A : v3[r].step = "idle"
  BY <1>3 DEF TwoFactor!Init
<1>5. v6 \in BOOLEAN
  BY DEF TwoFactor!Init
<1> QED
  BY <1>2, <1>4, <1>5 DEF TwoFactor!IInv, TwoFactor!ActivationsAreProved, TwoFactor!SecretIsHeld

\* The document and the requests, and that what is entered stays entered, are enough.
LEMMA TwoFactorKept ==
  ASSUME TwoFactor!IInv, TwoFactor!Next
  PROVE  TwoFactor!IInv'
<1> DEFINE doc == v1  job == v3  proved == v5  crossed == v6
           Job == TwoFactor!Jobs
<1>1. /\ doc \in TwoFactor!Docs /\ job \in [A -> Job] /\ crossed \in BOOLEAN
      /\ \A r \in A : job[r] \in Job
  BY DEF TwoFactor!IInv
<1>2. TwoFactor!Idle \in Job /\ TwoFactor!Idle.step = "idle"
  BY DEF TwoFactor!Idle, TwoFactor!Jobs, TwoFactor!Values
\* A request goes on; the document stays, and what is saved was entered.
<1>3. ASSUME NEW r \in A, NEW j \in Job, TwoFactor!Goes(r, j), proved \subseteq proved',
             j.step = "save" => j.temp \in proved' /\ (doc.reset /\ ~j.reset => crossed),
             UNCHANGED <<doc, crossed>>
      PROVE  TwoFactor!IInv'
  <2>1. job' \in [A -> Job] /\ \A o \in A : job'[o] = IF o = r THEN j ELSE job[o]
    BY <1>1, <1>3 DEF TwoFactor!Goes
  <2>2. TwoFactor!ActivationsAreProved'
    BY <1>3, <2>1 DEF TwoFactor!IInv, TwoFactor!ActivationsAreProved
  <2>3. TwoFactor!SecretIsHeld'
    BY <1>3 DEF TwoFactor!IInv, TwoFactor!SecretIsHeld
  <2> QED
    BY <1>1, <1>3, <2>1, <2>2, <2>3 DEF TwoFactor!IInv
\* A secret goes on trial.
<1>4. ASSUME NEW s \in R, TwoFactor!OnTrial(s)
      PROVE  /\ doc' \in TwoFactor!Docs /\ doc'.enabled = doc.enabled
             /\ doc'.secret = doc.secret /\ doc'.reset = doc.reset
  BY <1>1, <1>4 DEF TwoFactor!OnTrial, TwoFactor!Docs, TwoFactor!Values
<1>5. CASE TwoFactor!InitSetup
  <2>1. PICK s \in R : TwoFactor!OnTrial(s)
    BY <1>5 DEF TwoFactor!InitSetup
  <2>2. UNCHANGED <<job, proved, crossed>>
    BY <1>5 DEF TwoFactor!InitSetup
  <2> QED
    BY <1>4, <2>1, <2>2 DEF TwoFactor!IInv, TwoFactor!ActivationsAreProved, TwoFactor!SecretIsHeld
<1>6. CASE TwoFactor!ResetUser2FA
  <2>1. UNCHANGED <<job, proved>> /\ doc' = TwoFactor!ResetDoc
    BY <1>6 DEF TwoFactor!ResetUser2FA
  <2>2. crossed' = \E r \in A : job[r].step = "save"
    BY <1>6 DEF TwoFactor!ResetUser2FA
  <2>3. doc' \in TwoFactor!Docs /\ ~doc'.enabled
    BY <2>1 DEF TwoFactor!ResetDoc, TwoFactor!Docs, TwoFactor!Values
  <2>4. TwoFactor!ActivationsAreProved'
    BY <2>1, <2>2 DEF TwoFactor!IInv, TwoFactor!ActivationsAreProved
  <2>5. TwoFactor!SecretIsHeld'
    BY <2>3 DEF TwoFactor!SecretIsHeld
  <2>6. crossed' \in BOOLEAN
    BY <2>2
  <2> QED
    BY <2>1, <2>3, <2>4, <2>5, <2>6 DEF TwoFactor!IInv
<1>7. CASE TwoFactor!Enforce
  BY <1>7 DEF TwoFactor!Enforce, TwoFactor!IInv, TwoFactor!ActivationsAreProved, TwoFactor!SecretIsHeld
<1>8. ASSUME NEW r \in A, TwoFactor!Login(r) PROVE TwoFactor!IInv'
  <2>1. PICK step \in {"code", "setup"} :
           TwoFactor!Goes(r, [TwoFactor!Idle EXCEPT !.step = step]) /\ UNCHANGED <<doc, proved, crossed>>
    BY <1>8 DEF TwoFactor!Login
  <2>2. /\ [TwoFactor!Idle EXCEPT !.step = step] \in Job
        /\ [TwoFactor!Idle EXCEPT !.step = step].step # "save"
    BY <1>2 DEF TwoFactor!Jobs
  <2> QED
    BY <1>3, <2>1, <2>2
<1>9. ASSUME NEW r \in A, TwoFactor!LoginSetup(r) PROVE TwoFactor!IInv'
  <2>1. PICK s \in R : TwoFactor!OnTrial(s)
    BY <1>9 DEF TwoFactor!LoginSetup
  <2>2. UNCHANGED <<proved, crossed>> /\ TwoFactor!Goes(r, TwoFactor!Idle)
    BY <1>9 DEF TwoFactor!LoginSetup
  <2>3. job' \in [A -> Job] /\ \A o \in A : job'[o] = IF o = r THEN TwoFactor!Idle ELSE job[o]
    BY <1>1, <1>2, <2>2 DEF TwoFactor!Goes
  <2> QED
    BY <1>2, <1>4, <2>1, <2>2, <2>3 DEF TwoFactor!IInv, TwoFactor!ActivationsAreProved, TwoFactor!SecretIsHeld
<1>10. ASSUME NEW r \in A, TwoFactor!VerifyLogin(r) PROVE TwoFactor!IInv'
  <2>1. TwoFactor!Goes(r, TwoFactor!Idle) /\ UNCHANGED <<doc, crossed>> /\ proved \subseteq proved'
    BY <1>10 DEF TwoFactor!VerifyLogin
  <2> QED
    BY <1>2, <1>3, <2>1
<1>11. ASSUME NEW r \in A, TwoFactor!CheckCode(r) PROVE TwoFactor!IInv'
  <2> DEFINE j == [step |-> "save", enabled |-> doc.enabled, reset |-> doc.reset, temp |-> doc.temp]
  <2>1. /\ TwoFactor!Goes(r, j) /\ UNCHANGED <<doc, crossed>>
        /\ proved' = proved \union {doc.temp}
    BY <1>11 DEF TwoFactor!CheckCode
  <2>2. j \in Job
    BY <1>1 DEF TwoFactor!Jobs, TwoFactor!Docs
  <2>3. j.step = "save" /\ j.temp = doc.temp /\ j.reset = doc.reset
    OBVIOUS
  <2> HIDE DEF j
  <2> QED
    BY <1>3, <2>1, <2>2, <2>3
<1>12. ASSUME NEW r \in A, TwoFactor!Enable(r) PROVE TwoFactor!IInv'
  <2>1. /\ job[r].step = "save" /\ TwoFactor!Goes(r, TwoFactor!Idle) /\ UNCHANGED <<proved, crossed>>
        /\ doc' = [enabled |-> doc.enabled \/ ~job[r].enabled, secret |-> job[r].temp,
                   temp |-> "none", reset |-> doc.reset /\ ~job[r].reset]
    BY <1>12 DEF TwoFactor!Enable, TwoFactor!SecretOf
  <2>2. job[r].temp \in proved /\ (doc.reset /\ ~job[r].reset => crossed)
    BY <2>1 DEF TwoFactor!IInv, TwoFactor!ActivationsAreProved
  <2>3. /\ doc'.secret = job[r].temp
        /\ doc'.reset => doc.reset /\ ~job[r].reset
    BY <2>1
  <2>4. doc' \in TwoFactor!Docs
    BY <1>1, <2>1 DEF TwoFactor!Docs, TwoFactor!Jobs, TwoFactor!Values
  <2>5. job' \in [A -> Job] /\ \A o \in A : job'[o] = IF o = r THEN TwoFactor!Idle ELSE job[o]
    BY <1>1, <1>2, <2>1 DEF TwoFactor!Goes
  <2>6. TwoFactor!ActivationsAreProved'
    BY <1>2, <2>1, <2>3, <2>5 DEF TwoFactor!IInv, TwoFactor!ActivationsAreProved
  <2>7. TwoFactor!SecretIsHeld'
    BY <2>1, <2>2, <2>3 DEF TwoFactor!SecretIsHeld
  <2> QED
    BY <1>1, <2>1, <2>4, <2>5, <2>6, <2>7 DEF TwoFactor!IInv
<1> QED
  BY <1>5, <1>6, <1>7, <1>8, <1>9, <1>10, <1>11, <1>12 DEF TwoFactor!Next

-----------------------------------------------------------------------------
(* Refresh.                                                                   *)

\* The first pair was handed out, and nobody has used it.
LEMMA RefreshAtFirst == Refresh!TokensAssumption /\ Refresh!Init => Refresh!IInv
BY DEF Refresh!TokensAssumption, Refresh!Init, Refresh!IInv, Refresh!First, Refresh!Unasked, Refresh!Steps,
   Refresh!CallsHaveTokens, Refresh!RepeatsFindGrace, Refresh!At

\* A call goes on to another step, and its pair to another.
LEMMA RefreshGoes ==
  ASSUME Refresh!IInv, NEW r \in R, NEW next \in Refresh!Steps, NEW pair \in v1 \union {0},
         v3' = [v3 EXCEPT ![r].next = next, ![r].pair = pair]
  PROVE  /\ v3' \in [R -> [token : v1 \union {0}, next : Refresh!Steps, pair : v1 \union {0}, repeat : BOOLEAN]]
         /\ \A q \in R : /\ v3'[q].token = v3[q].token /\ v3'[q].repeat = v3[q].repeat
                         /\ v3'[q].next = IF q = r THEN next ELSE v3[q].next
                         /\ v3'[q].pair = IF q = r THEN pair ELSE v3[q].pair
BY DEF Refresh!IInv

\* A call goes on, with the pair it has.
LEMMA RefreshGoesOn ==
  ASSUME Refresh!IInv, NEW r \in R, NEW next \in Refresh!Steps, Refresh!Goes(r, next)
  PROVE  /\ v3' \in [R -> [token : v1 \union {0}, next : Refresh!Steps, pair : v1 \union {0}, repeat : BOOLEAN]]
         /\ \A q \in R : /\ v3'[q].token = v3[q].token /\ v3'[q].repeat = v3[q].repeat
                         /\ v3'[q].next = IF q = r THEN next ELSE v3[q].next
                         /\ v3'[q].pair = v3[q].pair
BY DEF Refresh!IInv, Refresh!Goes

\* refresh, await by await, with its repetitions and outages of Redis.
LEMMA RefreshKept ==
  ASSUME Refresh!TokensAssumption, Refresh!IInv, Refresh!Next
  PROVE  Refresh!IInv'
<1> DEFINE issued == v1  given == v2  request == v3  grace == v4  revoked == v5  used == v8
           Call == [token : issued \union {0}, next : Refresh!Steps, pair : issued \union {0}, repeat : BOOLEAN]
<1>1. /\ issued \subseteq Tokens /\ given \subseteq issued /\ used \subseteq given /\ revoked \subseteq used
      /\ request \in [R -> Call] /\ grace \in [Tokens -> issued \union {0}]
  BY DEF Refresh!IInv
<1>2. Tokens \subseteq Nat /\ 0 \notin Tokens
  BY DEF Refresh!TokensAssumption
<1>3. \A r \in R : /\ request[r].token = 0 <=> request[r].next = "none"
                   /\ request[r].next # "none" => request[r].token \in used
                   /\ request[r].next \in {"keep", "retire", "answer"} => request[r].pair # 0
                   /\ request[r].pair \in issued \union {0}
                   /\ request[r].repeat => /\ grace[request[r].token] # 0
                                           /\ request[r].next \notin {"none", "revoked", "refusedAsUsed"}
  BY DEF Refresh!IInv, Refresh!CallsHaveTokens, Refresh!RepeatsFindGrace, Refresh!At
\* A call under way goes on, with a pair or none, and does not end as a repetition should not.
<1>4. ASSUME NEW r \in R, NEW next \in Refresh!Steps \ {"none"}, NEW pair \in issued \union {0},
             request' \in [R -> Call],
             \A q \in R : /\ request'[q].token = request[q].token /\ request'[q].repeat = request[q].repeat
                          /\ request'[q].next = IF q = r THEN next ELSE request[q].next
                          /\ request'[q].pair = IF q = r THEN pair ELSE request[q].pair,
             request[r].next # "none", next \in {"keep", "retire", "answer"} => pair # 0,
             request[r].repeat => next \notin {"revoked", "refusedAsUsed"},
             UNCHANGED issued, given \subseteq given', given' \subseteq issued, used' = used,
             revoked' \subseteq used, grace' \in [Tokens -> issued \union {0}],
             \A t \in Tokens : grace[t] # 0 => grace'[t] # 0
      PROVE  Refresh!IInv'
  <2>1. Refresh!CallsHaveTokens'
    BY <1>3, <1>4 DEF Refresh!CallsHaveTokens, Refresh!At
  <2>2. \A q \in R : request[q].repeat => request[q].token \in Tokens
    BY <1>1, <1>3
  <2>3. Refresh!RepeatsFindGrace'
    BY <1>3, <1>4, <2>2 DEF Refresh!RepeatsFindGrace, Refresh!At
  <2> QED
    BY <1>1, <1>4, <2>1, <2>3 DEF Refresh!IInv
\* The same, with the pair it has.
<1>5. ASSUME NEW r \in R, NEW next \in Refresh!Steps \ {"none"}, Refresh!Goes(r, next),
             request[r].next # "none",
             next \in {"keep", "retire", "answer"} => request[r].next \in {"keep", "retire", "answer"},
             request[r].repeat => next \notin {"revoked", "refusedAsUsed"},
             UNCHANGED issued, given \subseteq given', given' \subseteq issued, used' = used,
             revoked' \subseteq used, grace' \in [Tokens -> issued \union {0}],
             \A t \in Tokens : grace[t] # 0 => grace'[t] # 0
      PROVE  Refresh!IInv'
  <2>1. /\ request' \in [R -> Call]
        /\ \A q \in R : /\ request'[q].token = request[q].token /\ request'[q].repeat = request[q].repeat
                        /\ request'[q].next = IF q = r THEN next ELSE request[q].next
                        /\ request'[q].pair = request[q].pair
    BY <1>5, RefreshGoesOn
  <2>2. request[r].pair \in issued \union {0} /\ (next \in {"keep", "retire", "answer"} => request[r].pair # 0)
    BY <1>3, <1>5
  <2> HIDE DEF Call
  <2> QED
    BY <1>4, <1>5, <2>1, <2>2
<1> HIDE DEF Call
<1>6. ASSUME NEW r \in R, NEW t \in Tokens, Refresh!Ask(r, t) PROVE Refresh!IInv'
  <2>1. PICK repeat \in BOOLEAN :
           /\ request' = [request EXCEPT ![r] =
                            [token |-> t, next |-> "session", pair |-> 0, repeat |-> repeat]]
           /\ repeat => grace[t] # 0
    <3> DEFINE repeats == \E s \in R : Refresh!Finished(s, t) /\ grace[t] # 0
    <3>1. request' = [request EXCEPT ![r] = [token |-> t, next |-> "session", pair |-> 0, repeat |-> repeats]]
      BY <1>6 DEF Refresh!Ask
    <3>2. repeats \in BOOLEAN /\ (repeats => grace[t] # 0)
      OBVIOUS
    <3> HIDE DEF repeats
    <3> QED
      BY <3>1, <3>2
  <2>2. t \in given /\ used' = used \union {t} /\ UNCHANGED <<issued, given, grace, revoked>>
    BY <1>6 DEF Refresh!Ask
  <2>3. [token |-> t, next |-> "session", pair |-> 0, repeat |-> repeat] \in Call
    BY <1>1, <2>2 DEF Call, Refresh!Steps
  <2>4. /\ request' \in [R -> Call]
        /\ \A q \in R \ {r} : request'[q] = request[q]
        /\ request'[r].token = t /\ request'[r].next = "session" /\ request'[r].repeat = repeat
    BY <1>1, <2>1, <2>3
  <2>5. Refresh!CallsHaveTokens'
    BY <1>2, <1>3, <2>2, <2>4 DEF Refresh!CallsHaveTokens, Refresh!At
  <2>6. Refresh!RepeatsFindGrace'
    BY <1>3, <2>1, <2>2, <2>4 DEF Refresh!RepeatsFindGrace, Refresh!At
  <2>7. used' \subseteq given' /\ revoked' \subseteq used'
    BY <1>1, <2>2
  <2> QED
    BY <1>1, <2>2, <2>4, <2>5, <2>6, <2>7 DEF Refresh!IInv, Call
<1>7. ASSUME NEW r \in R, Refresh!CheckSession(r) PROVE Refresh!IInv'
  <2>1. PICK next \in {"grace", "refused"} : Refresh!Goes(r, next)
    BY <1>7 DEF Refresh!CheckSession
  <2>2. request[r].next = "session" /\ UNCHANGED <<issued, given, grace, revoked, used>>
    BY <1>7 DEF Refresh!CheckSession, Refresh!At
  <2>3. next \in Refresh!Steps \ {"none"}
    BY DEF Refresh!Steps
  <2> QED
    BY <1>1, <1>5, <2>1, <2>2, <2>3
<1>8. ASSUME NEW r \in R, Refresh!LookForGrace(r) PROVE Refresh!IInv'
  <2>1. request[r].next = "grace" /\ UNCHANGED <<issued, given, grace, revoked, used>>
    BY <1>8 DEF Refresh!LookForGrace, Refresh!At
  <2>2. CASE Refresh!Goes(r, "account")
    <3>1. "account" \in Refresh!Steps \ {"none"}
      BY DEF Refresh!Steps
    <3> QED
      BY <1>1, <1>5, <2>1, <2>2, <3>1
  <2>3. CASE request' = [request EXCEPT ![r].next = Refresh!AfterGrace(r), ![r].pair = grace[request[r].token]]
    <3> DEFINE next == Refresh!AfterGrace(r)  pair == grace[request[r].token]
    <3>1. request[r].token \in Tokens
      BY <1>1, <1>3, <2>1
    <3>2. /\ next \in Refresh!Steps \ {"none"} /\ pair \in issued \union {0}
          /\ next = IF pair = 0 THEN "revoked" ELSE "answer"
      BY <1>1, <3>1 DEF Refresh!AfterGrace, Refresh!Steps
    <3>5. request' = [request EXCEPT ![r].next = next, ![r].pair = pair]
      BY <2>3
    <3> HIDE DEF next, pair
    <3>3. /\ request' \in [R -> Call]
          /\ \A q \in R : /\ request'[q].token = request[q].token /\ request'[q].repeat = request[q].repeat
                          /\ request'[q].next = IF q = r THEN next ELSE request[q].next
                          /\ request'[q].pair = IF q = r THEN pair ELSE request[q].pair
      BY <3>2, <3>5, RefreshGoes DEF Call
    <3>4. request[r].repeat => pair # 0
      BY <1>3 DEF pair
    <3> QED
      BY <1>1, <1>4, <2>1, <3>2, <3>3, <3>4
  <2> QED
    BY <1>8, <2>2, <2>3 DEF Refresh!LookForGrace
<1>9. ASSUME NEW r \in R, Refresh!LookForRevoked(r) PROVE Refresh!IInv'
  <2>1. PICK next \in {"account", "refusedAsUsed"} : Refresh!Goes(r, next)
    BY <1>9 DEF Refresh!LookForRevoked
  <2>2. request[r].next = "revoked" /\ UNCHANGED <<issued, given, grace, revoked, used>>
    BY <1>9 DEF Refresh!LookForRevoked, Refresh!At
  <2>3. next \in Refresh!Steps \ {"none"}
    BY DEF Refresh!Steps
  <2> QED
    BY <1>1, <1>3, <1>5, <2>1, <2>2, <2>3
<1>10. ASSUME NEW r \in R, Refresh!Generate(r) PROVE Refresh!IInv'
  <2>1. request[r].next = "account" /\ UNCHANGED <<given, grace, revoked>>
    BY <1>10 DEF Refresh!Generate, Refresh!At
  <2>2. CASE Refresh!Goes(r, "refused") /\ UNCHANGED <<issued, used>>
    <3>1. "refused" \in Refresh!Steps \ {"none"}
      BY DEF Refresh!Steps
    <3> QED
      BY <1>1, <1>5, <2>1, <2>2, <3>1
  <2>3. CASE ~(Refresh!Goes(r, "refused") /\ UNCHANGED <<issued, used>>)
    <3>1. PICK n \in Tokens \ issued :
             /\ issued' = issued \union {n} /\ used' = used \ {n}
             /\ request' = [request EXCEPT ![r].next = "keep", ![r].pair = n]
      BY <1>10, <2>3 DEF Refresh!Generate, Refresh!FreshTokens, Refresh!First
    <3>2. used' = used
      BY <1>1, <3>1
    <3>3. \A q \in R : request[q] \in [token : issued' \union {0}, next : Refresh!Steps,
                                       pair : issued' \union {0}, repeat : BOOLEAN]
      BY <1>1, <3>1 DEF Call
    <3>4. request \in [R -> [token : issued' \union {0}, next : Refresh!Steps,
                             pair : issued' \union {0}, repeat : BOOLEAN]]
      BY <1>1, <3>3
    <3>5. "keep" \in Refresh!Steps /\ n \in issued'
      BY <3>1 DEF Refresh!Steps
    <3>6. /\ request' \in [R -> [token : issued' \union {0}, next : Refresh!Steps,
                                 pair : issued' \union {0}, repeat : BOOLEAN]]
          /\ \A q \in R : /\ request'[q].token = request[q].token /\ request'[q].repeat = request[q].repeat
                          /\ request'[q].next = IF q = r THEN "keep" ELSE request[q].next
                          /\ request'[q].pair = IF q = r THEN n ELSE request[q].pair
      BY <3>1, <3>4, <3>5
    <3>7. Refresh!CallsHaveTokens'
      BY <1>2, <1>3, <2>1, <3>1, <3>2, <3>6 DEF Refresh!CallsHaveTokens, Refresh!At
    <3>8. Refresh!RepeatsFindGrace'
      BY <1>3, <2>1, <3>6 DEF Refresh!RepeatsFindGrace, Refresh!At
    <3>9. /\ issued' \subseteq Tokens /\ given' \subseteq issued' /\ used' \subseteq given' /\ revoked' \subseteq used'
          /\ grace' \in [Tokens -> issued' \union {0}]
      BY <1>1, <2>1, <3>1, <3>2
    <3> QED
      BY <3>6, <3>7, <3>8, <3>9 DEF Refresh!IInv
  <2> QED
    BY <2>2, <2>3
<1>11. ASSUME NEW r \in R, Refresh!KeepPair(r) PROVE Refresh!IInv'
  <2>1. request[r].next = "keep" /\ Refresh!Goes(r, "retire") /\ UNCHANGED <<issued, given, revoked, used>>
    BY <1>11 DEF Refresh!KeepPair, Refresh!At
  <2>2. grace' = [grace EXCEPT ![request[r].token] = request[r].pair] \/ grace' = grace
    BY <1>11 DEF Refresh!KeepPair
  <2>3. request[r].pair \in issued /\ request[r].pair # 0
    BY <1>3, <2>1
  <2>4. grace' \in [Tokens -> issued \union {0}] /\ \A t \in Tokens : grace[t] # 0 => grace'[t] # 0
    BY <1>1, <2>2, <2>3
  <2>5. "retire" \in Refresh!Steps \ {"none"}
    BY DEF Refresh!Steps
  <2> QED
    BY <1>1, <1>5, <2>1, <2>4, <2>5
<1>12. ASSUME NEW r \in R, Refresh!Retire(r) PROVE Refresh!IInv'
  <2>1. request[r].next = "retire" /\ Refresh!Goes(r, "answer") /\ UNCHANGED <<issued, given, grace, used>>
    BY <1>12 DEF Refresh!Retire, Refresh!At
  <2>2. revoked' \subseteq revoked \union {request[r].token}
    BY <1>12 DEF Refresh!Retire
  <2>3. revoked' \subseteq used
    BY <1>1, <1>3, <2>1, <2>2
  <2>4. "answer" \in Refresh!Steps \ {"none"}
    BY DEF Refresh!Steps
  <2> QED
    BY <1>1, <1>5, <2>1, <2>3, <2>4
<1>13. ASSUME NEW r \in R, Refresh!Answer(r) PROVE Refresh!IInv'
  <2>1. request[r].next = "answer" /\ Refresh!Goes(r, "answered") /\ UNCHANGED <<issued, grace, revoked, used>>
    BY <1>13 DEF Refresh!Answer, Refresh!At
  <2>2. given' \in {given, given \union {request[r].pair}}
    BY <1>13 DEF Refresh!Answer
  <2>3. given \subseteq given' /\ given' \subseteq issued
    BY <1>1, <1>3, <2>1, <2>2
  <2>4. "answered" \in Refresh!Steps \ {"none"}
    BY DEF Refresh!Steps
  <2> QED
    BY <1>1, <1>5, <2>1, <2>3, <2>4
<1>14. ASSUME NEW t \in Tokens, Refresh!GraceEnds(t) PROVE Refresh!IInv'
  <2>1. /\ grace' = [grace EXCEPT ![t] = 0] /\ UNCHANGED <<issued, given, revoked, used>>
        /\ request' = [q \in R |-> IF request[q].token = t THEN [request[q] EXCEPT !.repeat = FALSE] ELSE request[q]]
    BY <1>14 DEF Refresh!GraceEnds
  <2>2. \A q \in R : /\ [request[q] EXCEPT !.repeat = FALSE] \in Call
                     /\ [request[q] EXCEPT !.repeat = FALSE].token = request[q].token
                     /\ [request[q] EXCEPT !.repeat = FALSE].next = request[q].next
                     /\ [request[q] EXCEPT !.repeat = FALSE].pair = request[q].pair
                     /\ ~[request[q] EXCEPT !.repeat = FALSE].repeat
    BY <1>1 DEF Call
  <2>3. /\ request' \in [R -> Call]
        /\ \A q \in R : /\ request'[q].token = request[q].token /\ request'[q].next = request[q].next
                        /\ request'[q].pair = request[q].pair
                        /\ request'[q].repeat => request[q].repeat /\ request[q].token # t
    BY <1>1, <2>1, <2>2
  <2>4. grace' \in [Tokens -> issued \union {0}] /\ \A u \in Tokens \ {t} : grace'[u] = grace[u]
    BY <1>1, <2>1
  <2>5. Refresh!CallsHaveTokens'
    BY <1>3, <2>1, <2>3 DEF Refresh!CallsHaveTokens, Refresh!At
  <2>6. Refresh!RepeatsFindGrace'
    BY <1>1, <1>3, <2>3, <2>4 DEF Refresh!RepeatsFindGrace, Refresh!At
  <2> QED
    BY <1>1, <2>1, <2>3, <2>4, <2>5, <2>6 DEF Refresh!IInv, Call
<1>15. ASSUME NEW t \in Tokens, Refresh!Logout(t) PROVE Refresh!IInv'
  <2>1. /\ t \in given /\ revoked' = revoked \union {t} /\ used' = used \union {t}
        /\ UNCHANGED <<issued, given, request, grace>>
    BY <1>15 DEF Refresh!Logout
  <2>2. Refresh!CallsHaveTokens' /\ Refresh!RepeatsFindGrace'
    BY <1>3, <2>1 DEF Refresh!CallsHaveTokens, Refresh!RepeatsFindGrace, Refresh!At
  <2>3. used' \subseteq given /\ revoked' \subseteq used'
    BY <1>1, <2>1
  <2> QED
    BY <1>1, <2>1, <2>2, <2>3 DEF Refresh!IInv, Call
<1>16. CASE Refresh!SwitchAccount
  <2>1. UNCHANGED <<issued, given, request, grace, revoked, used>>
    BY <1>16 DEF Refresh!SwitchAccount
  <2> QED
    BY <2>1 DEF Refresh!IInv, Refresh!CallsHaveTokens, Refresh!RepeatsFindGrace, Refresh!At
<1> QED
  BY <1>6, <1>7, <1>8, <1>9, <1>10, <1>11, <1>12, <1>13, <1>14, <1>15, <1>16 DEF Refresh!Next

\* A client keeps a token that works.
LEMMA RefreshKeepsTokens == Refresh!IInv => Refresh!ClientsKeepAToken
BY DEF Refresh!IInv, Refresh!ClientsKeepAToken, Refresh!NewTokensWork, Refresh!RepeatsAreAnswered,
   Refresh!RepeatsFindGrace, Refresh!At

-----------------------------------------------------------------------------
(* Sessions.                                                                  *)

\* Nobody has signed in.
LEMMA SessionsAtFirst == Sessions!Init => Sessions!IInv
BY DEF Sessions!Init, Sessions!IInv, Sessions!Idle, Sessions!Gone, Sessions!Jobs,
   Sessions!RegisteredInOrder, Sessions!EndingsLeaveNothing, Sessions!MarkersAreExplained, Sessions!ClosedStayOut

\* Only sockets, and what is said of them, change.
LEMMA SessionsSocketsOnly ==
  ASSUME Sessions!IInv, UNCHANGED <<v1, v2, v3, v4, v6, v8>>,
         v5' \in [D -> [pc : {"checked", "live"}, session : A] \union {Sessions!Gone}],
         \A k \in D \ v7' : v5'[k].pc # "gone" =>
             \/ k \notin v7 /\ v5[k].pc # "gone" /\ v5'[k].session = v5[k].session
             \/ v5'[k].session \notin v8 \ v6
  PROVE  Sessions!IInv'
<1>1. Sessions!ClosedStayOut'
  BY DEF Sessions!IInv, Sessions!ClosedStayOut
<1>2. Sessions!RegisteredInOrder' /\ Sessions!EndingsLeaveNothing' /\ Sessions!MarkersAreExplained'
  BY DEF Sessions!IInv, Sessions!RegisteredInOrder, Sessions!EndingsLeaveNothing, Sessions!MarkersAreExplained
<1> QED
  BY <1>1, <1>2 DEF Sessions!IInv

\* A socket whose session has a marker is let in.
LEMMA SessionsHandshake ==
  ASSUME Sessions!IInv, NEW k \in D, NEW s \in A, Sessions!Handshake(k, s)
  PROVE  Sessions!IInv'
<1> DEFINE marker == v2  socket == v5  late == v7
<1>1. /\ socket' = [socket EXCEPT ![k] = [pc |-> "checked", session |-> s]]
      /\ UNCHANGED <<v1, v2, v3, v4, v6, v8>>
  BY DEF Sessions!Handshake
<1>2. (marker[s] /\ late' = late \ {k}) \/ late' = late \union {k}
  BY DEF Sessions!Handshake
<1>3. socket \in [D -> [pc : {"checked", "live"}, session : A] \union {Sessions!Gone}]
  BY DEF Sessions!IInv
<1>4. [pc |-> "checked", session |-> s] \in [pc : {"checked", "live"}, session : A]
  OBVIOUS
<1>5. /\ socket' \in [D -> [pc : {"checked", "live"}, session : A] \union {Sessions!Gone}]
      /\ socket'[k].session = s /\ \A o \in D \ {k} : socket'[o] = socket[o]
  BY <1>1, <1>3, <1>4
<1>6. marker[s] => s \notin v8 \ v6
  BY DEF Sessions!IInv, Sessions!ClosedStayOut
<1>7. \A o \in D \ late' : o # k => o \notin late
  BY <1>2
<1>8. k \notin late' => marker[s]
  BY <1>2
<1> QED
  BY <1>1, <1>5, <1>6, <1>7, <1>8, SessionsSocketsOnly

\* A socket goes live, or goes.
LEMMA SessionsConnect ==
  ASSUME Sessions!IInv, NEW k \in D, Sessions!Connect(k) \/ Sessions!Disconnect(k)
  PROVE  Sessions!IInv'
<1> DEFINE socket == v5  Sock == [pc : {"checked", "live"}, session : A]
<1>1. UNCHANGED <<v1, v2, v3, v4, v6, v7, v8>>
  BY DEF Sessions!Connect, Sessions!Disconnect
<1>2. socket \in [D -> Sock \union {Sessions!Gone}]
  BY DEF Sessions!IInv
<1>3. CASE Sessions!Connect(k)
  <2>1. socket[k].pc = "checked" /\ socket' = [socket EXCEPT ![k].pc = "live"]
    BY <1>3 DEF Sessions!Connect
  <2>2. socket[k] \in Sock
    BY <1>2, <2>1 DEF Sessions!Gone
  <2>3. /\ [socket[k] EXCEPT !.pc = "live"] \in Sock
        /\ [socket[k] EXCEPT !.pc = "live"].session = socket[k].session
    BY <2>2
  <2>4. /\ socket' \in [D -> Sock \union {Sessions!Gone}]
        /\ \A o \in D : o # k => socket'[o] = socket[o]
        /\ socket'[k].session = socket[k].session
    BY <1>2, <2>1, <2>3
  <2>5. socket[k].pc # "gone"
    BY <2>1
  <2> HIDE DEF Sock
  <2>6. \A o \in D \ v7' : socket'[o].pc # "gone" =>
           o \notin v7 /\ socket[o].pc # "gone" /\ socket'[o].session = socket[o].session
    BY <1>1, <2>4, <2>5
  <2> QED
    BY <1>1, <2>4, <2>6, SessionsSocketsOnly DEF Sock
<1>4. CASE Sessions!Disconnect(k)
  <2>1. socket' = [socket EXCEPT ![k] = Sessions!Gone]
    BY <1>4 DEF Sessions!Disconnect
  <2>2. /\ socket' \in [D -> Sock \union {Sessions!Gone}]
        /\ \A o \in D : o # k => socket'[o] = socket[o]
        /\ socket'[k].pc = "gone"
    BY <1>2, <2>1 DEF Sessions!Gone
  <2> HIDE DEF Sock
  <2>3. \A o \in D \ v7' : socket'[o].pc # "gone" =>
           o \notin v7 /\ socket[o].pc # "gone" /\ socket'[o].session = socket[o].session
    BY <1>1, <2>2
  <2> QED
    BY <1>1, <2>2, <2>3, SessionsSocketsOnly DEF Sock
<1> QED
  BY <1>3, <1>4

\* Logins.
LEMMA SessionsCreateRow ==
  ASSUME Sessions!IInv, NEW s \in A, Sessions!CreateRow(s)
  PROVE  Sessions!IInv'
<1> DEFINE row == v1  marker == v2  login == v3  admin == v4  spared == v6  closed == v8
<1>1. /\ login[s] = "none" /\ login' = [login EXCEPT ![s] = "created"] /\ row' = [row EXCEPT ![s] = "active"]
      /\ UNCHANGED <<marker, admin, v5, v7, closed>>
      /\ spared \subseteq spared' /\ spared' \subseteq spared \union {s}
      /\ s \notin spared' => \A a \in B : admin[a].op # "list"
  BY DEF Sessions!CreateRow
<1>2. /\ login' \in [A -> {"none", "created", "done"}] /\ row' \in [A -> {"none", "active", "revoked"}]
      /\ login'[s] = "created" /\ row'[s] = "active"
      /\ \A o \in A \ {s} : login'[o] = login[o] /\ row'[o] = row[o]
  BY <1>1 DEF Sessions!IInv
<1>3. Sessions!RegisteredInOrder'
  BY <1>1, <1>2 DEF Sessions!IInv, Sessions!RegisteredInOrder
<1>4. Sessions!EndingsLeaveNothing'
  BY <1>1, <1>2 DEF Sessions!IInv, Sessions!EndingsLeaveNothing
<1>5. Sessions!MarkersAreExplained'
  BY <1>1, <1>2 DEF Sessions!IInv, Sessions!MarkersAreExplained
<1>6. Sessions!ClosedStayOut'
  BY <1>1, <1>2 DEF Sessions!IInv, Sessions!ClosedStayOut
<1> QED
  BY <1>1, <1>2, <1>3, <1>4, <1>5, <1>6 DEF Sessions!IInv

\* A login sets the marker of its row; a marker runs out.
LEMMA SessionsMarkers ==
  ASSUME Sessions!IInv, NEW s \in A, Sessions!SetMarker(s) \/ Sessions!MarkerEnds(s)
  PROVE  Sessions!IInv'
<1> DEFINE row == v1  marker == v2  login == v3  admin == v4  spared == v6  closed == v8
<1>1. /\ UNCHANGED <<row, admin, v5, v7, closed>>
      /\ spared \subseteq spared' /\ spared' \subseteq spared \union {s}
      /\ \/ login[s] = "created" /\ login' = [login EXCEPT ![s] = "done"]
         \/ login[s] = "done" /\ login' = login /\ s \in spared'
      /\ marker' \in {marker, [marker EXCEPT ![s] = TRUE], [marker EXCEPT ![s] = FALSE]}
      /\ s \notin spared' => marker' = [marker EXCEPT ![s] = TRUE]
  BY DEF Sessions!SetMarker, Sessions!MarkerEnds
<1>2. /\ login' \in [A -> {"none", "created", "done"}] /\ marker' \in [A -> BOOLEAN]
      /\ login[s] # "none" /\ login'[s] = "done" /\ (s \notin spared' => login[s] = "created" /\ marker'[s])
      /\ \A o \in A \ {s} : login'[o] = login[o] /\ marker'[o] = marker[o]
  BY <1>1 DEF Sessions!IInv
<1>3. Sessions!RegisteredInOrder'
  BY <1>1, <1>2 DEF Sessions!IInv, Sessions!RegisteredInOrder
<1>4. Sessions!EndingsLeaveNothing'
  BY <1>1, <1>2 DEF Sessions!IInv, Sessions!EndingsLeaveNothing
<1>5. Sessions!MarkersAreExplained'
  BY <1>1, <1>2 DEF Sessions!IInv, Sessions!MarkersAreExplained, Sessions!RegisteredInOrder
<1>6. Sessions!ClosedStayOut'
  BY <1>1, <1>2 DEF Sessions!IInv, Sessions!ClosedStayOut
<1> QED
  BY <1>1, <1>2, <1>3, <1>4, <1>5, <1>6 DEF Sessions!IInv

\* A request that ends sessions begins.
LEMMA SessionsRevoke ==
  ASSUME Sessions!IInv, NEW a \in B, NEW s \in A, Sessions!RevokeSession(a, s) \/ Sessions!LogoutOwnSession(a, s)
  PROVE  Sessions!IInv'
<1> DEFINE row == v1  marker == v2  login == v3  admin == v4  spared == v6  closed == v8
<1>1. PICK op \in {"one", "own"} : admin' = [admin EXCEPT ![a] = [op |-> op, of |-> {s}, left |-> {s}]]
  BY DEF Sessions!RevokeSession, Sessions!LogoutOwnSession
<1>2. /\ row' = [row EXCEPT ![s] = "revoked"]
      /\ admin[a] = Sessions!Idle
      /\ UNCHANGED <<marker, login, v5, v7, closed>>
      /\ spared \subseteq spared' /\ (login[s] = "created" => s \in spared')
      /\ row[s] # "none" \/ login[s] = "done"
  BY DEF Sessions!RevokeSession, Sessions!LogoutOwnSession, Sessions!RegisteringOf
<1>3. [op |-> op, of |-> {s}, left |-> {s}] \in Sessions!Jobs
  BY DEF Sessions!Jobs
<1>4. /\ admin' \in [B -> Sessions!Jobs]
      /\ admin'[a].op = op /\ admin'[a].of = {s} /\ admin'[a].left = {s}
      /\ \A b \in B \ {a} : admin'[b] = admin[b]
      /\ admin[a].op = "none" /\ admin[a].left = {}
  BY <1>1, <1>2, <1>3 DEF Sessions!IInv, Sessions!Idle
<1>5. /\ row' \in [A -> {"none", "active", "revoked"}] /\ row'[s] = "revoked"
      /\ \A o \in A \ {s} : row'[o] = row[o]
  BY <1>2 DEF Sessions!IInv
<1>6. s \in A \ spared' => login[s] = "done"
  BY <1>2 DEF Sessions!IInv, Sessions!RegisteredInOrder
<1>7. Sessions!RegisteredInOrder'
  BY <1>2, <1>4, <1>5, <1>6 DEF Sessions!IInv, Sessions!RegisteredInOrder
<1>8. Sessions!EndingsLeaveNothing'
  BY <1>2, <1>4, <1>5, <1>6 DEF Sessions!IInv, Sessions!EndingsLeaveNothing
<1>9. Sessions!MarkersAreExplained'
  <2>1. \A o \in A : (\E b \in B : o \in admin[b].left) => \E b \in B : o \in admin'[b].left
    BY <1>4
  <2>2. (\E b \in B : admin[b].op = "list") => \E b \in B : admin'[b].op = "list"
    BY <1>4
  <2>3. \E b \in B : s \in admin'[b].left
    BY <1>4
  <2> QED
    BY <1>2, <1>5, <2>1, <2>2, <2>3 DEF Sessions!IInv, Sessions!MarkersAreExplained
<1>10. Sessions!ClosedStayOut'
  BY <1>2 DEF Sessions!IInv, Sessions!ClosedStayOut
<1> QED
  BY <1>2, <1>4, <1>5, <1>7, <1>8, <1>9, <1>10 DEF Sessions!IInv

\* A request that ends all sessions of an account lists those that are active.
LEMMA SessionsList ==
  ASSUME Sessions!IInv, NEW a \in B, Sessions!ListSessions(a)
  PROVE  Sessions!IInv'
<1> DEFINE row == v1  marker == v2  login == v3  admin == v4  spared == v6  closed == v8
           listed == Sessions!Listed
<1>1. /\ admin' = [admin EXCEPT ![a] = [op |-> "list", of |-> listed, left |-> listed]]
      /\ admin[a] = Sessions!Idle
      /\ UNCHANGED <<row, marker, login, v5, v7, closed>>
      /\ spared' = spared \union {s \in A : login[s] = "created"}
  BY DEF Sessions!ListSessions, Sessions!RegisteringOf
<1>2. listed \subseteq A /\ \A s \in A : s \in listed <=> row[s] = "active"
  BY DEF Sessions!Listed
<1> HIDE DEF listed
<1>3. [op |-> "list", of |-> listed, left |-> listed] \in Sessions!Jobs
  BY <1>2 DEF Sessions!Jobs
<1>4. /\ admin' \in [B -> Sessions!Jobs]
      /\ admin'[a].op = "list" /\ admin'[a].of = listed /\ admin'[a].left = listed
      /\ \A b \in B \ {a} : admin'[b] = admin[b]
      /\ admin[a].op = "none" /\ admin[a].left = {}
  BY <1>1, <1>3 DEF Sessions!IInv, Sessions!Idle
<1>5. \A s \in A \ spared' : s \notin spared /\ login[s] # "created"
  BY <1>1
<1>6. Sessions!RegisteredInOrder'
  BY <1>1, <1>4, <1>5 DEF Sessions!IInv, Sessions!RegisteredInOrder
<1>7. Sessions!EndingsLeaveNothing'
  <2>1. \A s \in A \ spared' : s \in listed => login[s] = "done"
    BY <1>2, <1>5 DEF Sessions!IInv, Sessions!RegisteredInOrder
  <2> QED
    BY <1>1, <1>2, <1>4, <1>5, <2>1 DEF Sessions!IInv, Sessions!EndingsLeaveNothing
<1>8. Sessions!MarkersAreExplained'
  <2>1. \A o \in A : (\E b \in B : o \in admin[b].left) => \E b \in B : o \in admin'[b].left
    BY <1>4
  <2>2. \E b \in B : admin'[b].op = "list"
    BY <1>4
  <2> QED
    BY <1>1, <1>5, <2>1, <2>2 DEF Sessions!IInv, Sessions!MarkersAreExplained
<1>9. Sessions!ClosedStayOut'
  BY <1>1, <1>5 DEF Sessions!IInv, Sessions!ClosedStayOut
<1> QED
  BY <1>1, <1>4, <1>6, <1>7, <1>8, <1>9 DEF Sessions!IInv

\* It deletes the markers one by one,
LEMMA SessionsDeleteMarker ==
  ASSUME Sessions!IInv, NEW a \in B, NEW s \in A, Sessions!DeleteMarker(a, s)
  PROVE  Sessions!IInv'
<1> DEFINE row == v1  marker == v2  login == v3  admin == v4  spared == v6  closed == v8
<1>1. /\ s \in admin[a].left /\ admin' = [admin EXCEPT ![a].left = @ \ {s}]
      /\ UNCHANGED <<row, login, v5, v7, closed>>
      /\ \/ marker' = [marker EXCEPT ![s] = FALSE] /\ spared' = spared
         \/ marker' = marker /\ spared' = spared \union {s}
  BY DEF Sessions!DeleteMarker
<1>2. admin \in [B -> Sessions!Jobs]
  BY DEF Sessions!IInv
<1>3. /\ admin' \in [B -> Sessions!Jobs]
      /\ admin'[a].op = admin[a].op /\ admin'[a].of = admin[a].of /\ admin'[a].left = admin[a].left \ {s}
      /\ \A b \in B \ {a} : admin'[b] = admin[b]
  <2>1. admin[a] \in Sessions!Jobs
    BY <1>2
  <2>2. /\ [admin[a] EXCEPT !.left = @ \ {s}] \in Sessions!Jobs
        /\ [admin[a] EXCEPT !.left = @ \ {s}].op = admin[a].op
        /\ [admin[a] EXCEPT !.left = @ \ {s}].of = admin[a].of
        /\ [admin[a] EXCEPT !.left = @ \ {s}].left = admin[a].left \ {s}
    BY <2>1 DEF Sessions!Jobs
  <2> QED
    BY <1>1, <1>2, <2>2
<1>4. /\ marker' \in [A -> BOOLEAN] /\ spared \subseteq spared' /\ (s \notin spared' => ~marker'[s])
      /\ \A o \in A \ {s} : marker'[o] = marker[o]
  BY <1>1 DEF Sessions!IInv
<1>5. s \notin spared' => s \in admin[a].of /\ login[s] = "done" /\ (admin[a].op # "list" => row[s] = "revoked")
  BY <1>1, <1>4 DEF Sessions!IInv, Sessions!EndingsLeaveNothing
<1>6. Sessions!RegisteredInOrder'
  BY <1>1, <1>3, <1>4 DEF Sessions!IInv, Sessions!RegisteredInOrder
<1>7. Sessions!EndingsLeaveNothing'
  BY <1>1, <1>3, <1>4 DEF Sessions!IInv, Sessions!EndingsLeaveNothing
<1>8. Sessions!MarkersAreExplained'
  <2>1. (\E b \in B : admin[b].op = "list") => \E b \in B : admin'[b].op = "list"
    BY <1>3
  <2>2. \A o \in A \ {s} : (\E b \in B : o \in admin[b].left) => \E b \in B : o \in admin'[b].left
    BY <1>3
  <2>3. s \notin spared' /\ row[s] = "active" => \E b \in B : admin'[b].op = "list"
    BY <1>3, <1>5
  <2> QED
    BY <1>1, <1>4, <2>1, <2>2, <2>3 DEF Sessions!IInv, Sessions!MarkersAreExplained
<1>9. Sessions!ClosedStayOut'
  BY <1>1, <1>4 DEF Sessions!IInv, Sessions!ClosedStayOut
<1> QED
  BY <1>1, <1>3, <1>4, <1>6, <1>7, <1>8, <1>9 DEF Sessions!IInv

\* and then revokes the rows.
LEMMA SessionsRevokeRows ==
  ASSUME Sessions!IInv, NEW a \in B, Sessions!RevokeRows(a)
  PROVE  Sessions!IInv'
<1> DEFINE row == v1  marker == v2  login == v3  admin == v4  spared == v6  closed == v8
<1>1. /\ admin[a].op = "list" /\ admin[a].left = {} /\ admin' = [admin EXCEPT ![a].op = "all"]
      /\ UNCHANGED <<marker, login, v5, spared, v7, closed>>
      /\ row' = [s \in A |-> IF row[s] = "active" THEN "revoked" ELSE row[s]]
  BY DEF Sessions!RevokeRows
<1>2. admin \in [B -> Sessions!Jobs]
  BY DEF Sessions!IInv
<1>3. /\ admin' \in [B -> Sessions!Jobs]
      /\ admin'[a].op = "all" /\ admin'[a].of = admin[a].of /\ admin'[a].left = admin[a].left
      /\ \A b \in B \ {a} : admin'[b] = admin[b]
  <2>1. admin[a] \in Sessions!Jobs
    BY <1>2
  <2>2. /\ [admin[a] EXCEPT !.op = "all"] \in Sessions!Jobs
        /\ [admin[a] EXCEPT !.op = "all"].op = "all"
        /\ [admin[a] EXCEPT !.op = "all"].of = admin[a].of
        /\ [admin[a] EXCEPT !.op = "all"].left = admin[a].left
    BY <2>1 DEF Sessions!Jobs
  <2> QED
    BY <1>1, <1>2, <2>2
<1>4. /\ row' \in [A -> {"none", "active", "revoked"}]
      /\ \A s \in A : row'[s] = IF row[s] = "active" THEN "revoked" ELSE row[s]
  BY <1>1 DEF Sessions!IInv
<1>5. \A s \in A \ spared : /\ login[s] # "created"
                            /\ row[s] = "active" => s \in admin[a].of /\ ~marker[s]
  BY <1>1 DEF Sessions!IInv, Sessions!RegisteredInOrder, Sessions!EndingsLeaveNothing
<1>6. Sessions!RegisteredInOrder'
  BY <1>1, <1>3, <1>4, <1>5 DEF Sessions!IInv, Sessions!RegisteredInOrder
<1>7. Sessions!EndingsLeaveNothing'
  <2>1. \A s \in A \ spared : s \in admin[a].of => row'[s] = "revoked"
    BY <1>4 DEF Sessions!IInv, Sessions!RegisteredInOrder, Sessions!EndingsLeaveNothing
  <2> QED
    BY <1>1, <1>3, <1>4, <2>1 DEF Sessions!IInv, Sessions!EndingsLeaveNothing
<1>8. Sessions!MarkersAreExplained'
  <2>1. \A s \in A \ spared : row'[s] # "active"
    BY <1>4
  <2>2. \A s \in A : (\E b \in B : s \in admin[b].left) => \E b \in B : s \in admin'[b].left
    BY <1>3
  <2> QED
    BY <1>1, <1>4, <1>5, <2>1, <2>2 DEF Sessions!IInv, Sessions!MarkersAreExplained
<1>9. Sessions!ClosedStayOut'
  BY <1>1 DEF Sessions!IInv, Sessions!ClosedStayOut
<1> QED
  BY <1>1, <1>3, <1>4, <1>6, <1>7, <1>8, <1>9 DEF Sessions!IInv

\* A request that has ended its sessions closes their sockets, or has none to close.
LEMMA SessionsEnded ==
  ASSUME Sessions!IInv, NEW a \in B, Sessions!CloseSockets(a) \/ Sessions!LogoutDone(a)
  PROVE  Sessions!IInv'
<1> DEFINE row == v1  marker == v2  login == v3  admin == v4  socket == v5  spared == v6  late == v7  closed == v8
<1>1. /\ admin[a].op \in {"one", "own", "all"} /\ admin[a].left = {}
      /\ admin' = [admin EXCEPT ![a] = Sessions!Idle]
      /\ UNCHANGED <<row, marker, login, spared>>
  BY DEF Sessions!CloseSockets, Sessions!LogoutDone, Sessions!MayClose
<1>2. /\ admin' \in [B -> Sessions!Jobs]
      /\ admin'[a].op = "none" /\ admin'[a].of = {} /\ admin'[a].left = {}
      /\ \A b \in B \ {a} : admin'[b] = admin[b]
  BY <1>1 DEF Sessions!IInv, Sessions!Idle, Sessions!Jobs
<1>3. Sessions!RegisteredInOrder'
  BY <1>1, <1>2 DEF Sessions!IInv, Sessions!RegisteredInOrder
<1>4. Sessions!EndingsLeaveNothing'
  BY <1>1, <1>2 DEF Sessions!IInv, Sessions!EndingsLeaveNothing
<1>5. Sessions!MarkersAreExplained'
  <2>1. (\E b \in B : admin[b].op = "list") => \E b \in B : admin'[b].op = "list"
    BY <1>1, <1>2
  <2>2. \A o \in A : (\E b \in B : o \in admin[b].left) => \E b \in B : o \in admin'[b].left
    BY <1>1, <1>2
  <2> QED
    BY <1>1, <2>1, <2>2 DEF Sessions!IInv, Sessions!MarkersAreExplained
<1>6. /\ Sessions!ClosedStayOut' /\ closed' \subseteq A
      /\ socket' \in [D -> [pc : {"checked", "live"}, session : A] \union {Sessions!Gone}]
  <2>1. CASE Sessions!LogoutDone(a)
    BY <1>1, <2>1 DEF Sessions!LogoutDone, Sessions!IInv, Sessions!ClosedStayOut
  <2>2. CASE Sessions!CloseSockets(a)
    <3>1. /\ closed' = closed \union admin[a].of
          /\ late' = late \union {k \in D : socket[k].pc = "checked"}
          /\ socket' = [k \in D |-> IF socket[k].pc = "live"
                                       /\ (admin[a].op = "all" \/ socket[k].session \in admin[a].of)
                                    THEN Sessions!Gone ELSE socket[k]]
      BY <2>2 DEF Sessions!CloseSockets, Sessions!Live, Sessions!Closes
    <3>2. admin[a].of \subseteq A
      BY DEF Sessions!IInv, Sessions!Jobs
    <3>3. \A s \in admin[a].of \ spared : login[s] = "done" /\ ~marker[s]
      BY <1>1, <3>2 DEF Sessions!IInv, Sessions!EndingsLeaveNothing
    <3>4. \A k \in D : socket[k].pc \in {"checked", "live", "gone"}
      BY DEF Sessions!IInv, Sessions!Gone
    <3>5. \A k \in D \ late' : socket'[k].pc # "gone" =>
             /\ k \notin late /\ socket[k].pc # "gone" /\ socket'[k] = socket[k]
             /\ socket[k].session \notin admin[a].of
      BY <3>1, <3>4 DEF Sessions!Gone
    <3>6. Sessions!ClosedStayOut'
      BY <1>1, <3>1, <3>3, <3>5 DEF Sessions!IInv, Sessions!ClosedStayOut
    <3>7. closed' \subseteq A
      BY <3>1, <3>2 DEF Sessions!IInv
    <3>8. socket' \in [D -> [pc : {"checked", "live"}, session : A] \union {Sessions!Gone}]
      BY <3>1 DEF Sessions!IInv
    <3> QED
      BY <3>6, <3>7, <3>8
  <2> QED
    BY <2>1, <2>2
<1> QED
  BY <1>1, <1>2, <1>3, <1>4, <1>5, <1>6 DEF Sessions!IInv

\* A restart cuts short what was under way; whom it spares is known.
LEMMA SessionsRestart ==
  ASSUME Sessions!IInv, Sessions!Restart
  PROVE  Sessions!IInv'
<1> DEFINE row == v1  marker == v2  login == v3  admin == v4  socket == v5  spared == v6  late == v7  closed == v8
<1>1. /\ admin' = [a \in B |-> Sessions!Idle] /\ socket' = [k \in D |-> Sessions!Gone]
      /\ login' = [s \in A |-> IF login[s] = "created" THEN "done" ELSE login[s]]
      /\ UNCHANGED <<row, marker, closed>>
  BY DEF Sessions!Restart
<1>2. spared' = spared \union {s \in A : login[s] = "created"} \union
                {s \in A : \E a \in B : s \in admin[a].left \/ (admin[a].op = "list" /\ s \in admin[a].of)}
  BY DEF Sessions!Restart, Sessions!RegisteringOf
<1>3. \A s \in A \ spared' :
         /\ s \notin spared /\ login[s] # "created"
         /\ \A a \in B : s \notin admin[a].left /\ (admin[a].op = "list" => s \notin admin[a].of)
  BY <1>2
<1>4. Sessions!Idle \in Sessions!Jobs
  BY DEF Sessions!Idle, Sessions!Jobs
<1>5. /\ admin' \in [B -> Sessions!Jobs]
      /\ \A a \in B : admin'[a].op = "none" /\ admin'[a].of = {} /\ admin'[a].left = {}
  BY <1>1, <1>4 DEF Sessions!Idle
<1>6. /\ login' \in [A -> {"none", "created", "done"}]
      /\ \A s \in A \ spared' : login'[s] = login[s]
      /\ \A s \in A : login'[s] # "created"
      /\ \A s \in A : login[s] = "done" => login'[s] = "done"
  BY <1>1, <1>3 DEF Sessions!IInv
<1>7. Sessions!RegisteredInOrder'
  BY <1>1, <1>3, <1>5, <1>6 DEF Sessions!IInv, Sessions!RegisteredInOrder
<1>8. Sessions!EndingsLeaveNothing'
  BY <1>5 DEF Sessions!EndingsLeaveNothing
<1>9. Sessions!MarkersAreExplained'
  BY <1>1, <1>3, <1>6 DEF Sessions!IInv, Sessions!MarkersAreExplained, Sessions!EndingsLeaveNothing
<1>10. Sessions!ClosedStayOut' /\ socket' \in [D -> [pc : {"checked", "live"}, session : A] \union {Sessions!Gone}]
  <2>1. \A s \in (closed \ spared)' : s \in A \ spared' /\ s \in closed \ spared
    BY <1>1, <1>2 DEF Sessions!IInv
  <2>2. \A k \in D : socket'[k].pc = "gone"
    BY <1>1 DEF Sessions!Gone
  <2> QED
    BY <1>1, <1>6, <2>1, <2>2 DEF Sessions!IInv, Sessions!ClosedStayOut
<1> QED
  BY <1>1, <1>5, <1>6, <1>7, <1>8, <1>9, <1>10 DEF Sessions!IInv

\* Every step of sessions and sockets.
LEMMA SessionsKept ==
  ASSUME Sessions!IInv, Sessions!Next
  PROVE  Sessions!IInv'
BY SessionsHandshake, SessionsConnect, SessionsCreateRow, SessionsMarkers, SessionsRevoke, SessionsList,
   SessionsDeleteMarker, SessionsRevokeRows, SessionsEnded, SessionsRestart
DEF Sessions!Next

\* Rows, markers and sockets agree where nobody is at work.
LEMMA SessionsAreOut == Sessions!IInv => Sessions!RevokedIsOut
<1> SUFFICES ASSUME Sessions!IInv PROVE Sessions!RevokedIsOut
  OBVIOUS
<1>1. Sessions!RowsMatchMarkers
  <2> SUFFICES ASSUME NEW s \in A \ v6, v3[s] = "done", ~Sessions!Worked(s)
               PROVE  v2[s] <=> v1[s] = "active"
    BY DEF Sessions!RowsMatchMarkers
  <2>1. \A a \in B : s \notin v4[a].left /\ v4[a].op # "list"
    BY DEF Sessions!Worked, Sessions!IInv, Sessions!EndingsLeaveNothing
  <2>2. v2[s] \in BOOLEAN
    BY DEF Sessions!IInv
  <2> QED
    BY <2>1, <2>2 DEF Sessions!IInv, Sessions!MarkersAreExplained
<1>2. Sessions!EndedSessionsAreOffline
  BY DEF Sessions!IInv, Sessions!EndedSessionsAreOffline, Sessions!ClosedStayOut, Sessions!Live
<1> QED
  BY <1>1, <1>2 DEF Sessions!RevokedIsOut

-----------------------------------------------------------------------------
(* ApiKeys.                                                                   *)

\* There is no key.
LEMMA ApiKeysAtFirst == ApiKeys!Init => ApiKeys!IInv
<1> SUFFICES ASSUME ApiKeys!Init PROVE ApiKeys!IInv
  OBVIOUS
<1>1. /\ v1 = [k \in A |-> "none"] /\ v2 = [k \in A |-> "none"] /\ v3 = [k \in A |-> 0]
      /\ v4 = [k \in A |-> 0] /\ v8 = [a \in D |-> "none"] /\ v9 = [d \in B |-> ApiKeys!Idle]
      /\ v5 = TRUE
  BY DEF ApiKeys!Init
<1>2. ApiKeys!Idle \in [step : {"idle", "answered", "write"}, key : A \union {"none"}, count : Nat]
  BY DEF ApiKeys!Idle
<1>3. \A d \in B : v9[d] = ApiKeys!Idle /\ v9[d].step = "idle"
  BY <1>1 DEF ApiKeys!Idle
<1>4. \A k \in A : ApiKeys!Uncounted(k) = {}
  BY <1>3 DEF ApiKeys!Uncounted
<1>5. ApiKeys!HitsWereServed
  <2>1. \A k \in A : /\ ApiKeys!IsFiniteSet(ApiKeys!Uncounted(k))
                     /\ ApiKeys!Cardinality(ApiKeys!Uncounted(k)) = 0
    BY <1>4, SameOperators, FS_EmptySet
  <2>2. \A k \in A : v3[k] = 0 /\ v4[k] = 0 /\ \A d \in ApiKeys!Uncounted(k) : FALSE
    BY <1>1, <1>4
  <2>3. ASSUME NEW k \in A PROVE v3[k] + ApiKeys!Cardinality(ApiKeys!Uncounted(k)) <= v4[k]
    <3>1. v3[k] = 0 /\ v4[k] = 0 /\ ApiKeys!Cardinality(ApiKeys!Uncounted(k)) = 0
      BY <2>1, <2>2
    <3> QED
      BY <3>1
  <2> QED
    BY <2>1, <2>2, <2>3 DEF ApiKeys!HitsWereServed
<1>6. ApiKeys!ReplacedAreInactive
  BY <1>1 DEF ApiKeys!ReplacedAreInactive
<1>7. v9 \in [B -> [step : {"idle", "answered", "write"}, key : A \union {"none"}, count : Nat]]
  BY <1>1, <1>2
<1> QED
  BY <1>1, <1>3, <1>5, <1>6, <1>7 DEF ApiKeys!IInv

\* Fetches and counts stay: what is known of them, too.
LEMMA ApiKeysCountsStay ==
  ASSUME ApiKeys!IInv, UNCHANGED <<v3, v4, v9>>
  PROVE  ApiKeys!HitsWereServed'
<1>1. \A k \in A : ApiKeys!Uncounted(k)' = ApiKeys!Uncounted(k)
  BY DEF ApiKeys!Uncounted
<1> QED
  BY <1>1 DEF ApiKeys!IInv, ApiKeys!HitsWereServed

\* The requests of administrators: keys come and go, and what is inactive stays so.
LEMMA ApiKeysKeysKept ==
  ASSUME ApiKeys!KeysAssumption, ApiKeys!IInv,
         \/ ApiKeys!CreateKey \/ ApiKeys!DeactivateStation \/ ApiKeys!DeactivateByStation \/ ApiKeys!ReactivateStation
         \/ \E k \in A : ApiKeys!DeactivateKey(k)
         \/ \E a \in D : ApiKeys!StartRegenerate(a) \/ ApiKeys!FinishRegenerate(a)
  PROVE  ApiKeys!IInv'
<1> DEFINE key == v1  before == v2  open == v5  closing == v6  spared == v7  admin == v8
<1> USE DEF ApiKeys!Active
<1>1. /\ key \in [A -> {"none", "active", "inactive"}] /\ before \in [A -> A \union {"none"}]
      /\ admin \in [D -> A \union {"none"}] /\ "none" \notin A
      /\ \A k \in A : before[k] # "none" => key[before[k]] = "inactive"
      /\ \A a \in D : admin[a] # "none" => key[admin[a]] = "inactive"
      /\ ~open /\ ~closing => \A k \in A : key[k] = "active" => k \in spared
  BY DEF ApiKeys!IInv, ApiKeys!KeysAssumption, ApiKeys!ReplacedAreInactive
\* What is to show: of the counts nothing.
<1>2. ASSUME UNCHANGED <<v3, v4, v9>>, key' \in [A -> {"none", "active", "inactive"}],
             before' \in [A -> A \union {"none"}], admin' \in [D -> A \union {"none"}],
             ApiKeys!ReplacedAreInactive', ~open' /\ ~closing' => \A k \in A : key'[k] = "active" => k \in spared'
      PROVE  ApiKeys!IInv'
  BY <1>2, ApiKeysCountsStay DEF ApiKeys!IInv
\* A new key.
<1>3. ASSUME NEW k \in A, NEW from \in A \union {"none"}, ApiKeys!Creates(k, from),
             from # "none" => key[from] = "inactive",
             admin' \in [D -> A \union {"none"}], \A a \in D : admin'[a] \in {admin[a], "none"},
             UNCHANGED <<v3, v4, open, closing, v9>>
      PROVE  ApiKeys!IInv'
  <2>1. /\ key[k] = "none" /\ key' = [key EXCEPT ![k] = "active"] /\ before' = [before EXCEPT ![k] = from]
        /\ spared' = IF open THEN spared ELSE spared \union {k}
    BY <1>3 DEF ApiKeys!Creates
  <2>2. /\ key' \in [A -> {"none", "active", "inactive"}] /\ before' \in [A -> A \union {"none"}]
        /\ \A o \in A : /\ key'[o] = IF o = k THEN "active" ELSE key[o]
                        /\ before'[o] = IF o = k THEN from ELSE before[o]
    BY <1>1, <2>1
  <2>3. ApiKeys!ReplacedAreInactive'
    BY <1>1, <1>3, <2>1, <2>2 DEF ApiKeys!ReplacedAreInactive
  <2> QED
    BY <1>1, <1>2, <1>3, <2>1, <2>2, <2>3
\* Keys are deactivated.
<1>4. ASSUME key' \in [A -> {"none", "active", "inactive"}],
             \A k \in A : key'[k] = key[k] \/ key'[k] = "inactive",
             admin' \in [D -> A \union {"none"}],
             \A a \in D : admin'[a] = admin[a] \/ (admin'[a] \in A /\ key'[admin'[a]] = "inactive"),
             ~open' /\ ~closing' => \A k \in A : key'[k] = "active" => k \in spared',
             UNCHANGED <<before, v3, v4, v9>>
      PROVE  ApiKeys!IInv'
  <2>1. ApiKeys!ReplacedAreInactive'
    BY <1>1, <1>4 DEF ApiKeys!ReplacedAreInactive
  <2> QED
    BY <1>1, <1>2, <1>4, <2>1
<1>5. CASE ApiKeys!CreateKey
  <2>1. PICK k \in A : ApiKeys!Creates(k, "none")
    BY <1>5 DEF ApiKeys!CreateKey
  <2> QED
    BY <1>1, <1>3, <1>5, <2>1 DEF ApiKeys!CreateKey
<1>6. CASE ApiKeys!DeactivateStation
  BY <1>1, <1>4, <1>6 DEF ApiKeys!DeactivateStation
<1>7. CASE ApiKeys!DeactivateByStation
  <2>1. /\ closing /\ closing' = FALSE /\ UNCHANGED <<before, v3, v4, open, admin, v9>>
        /\ \/ key' = [k \in A |-> IF k \in {o \in A : key[o] = "active"} THEN "inactive" ELSE key[k]]
              /\ UNCHANGED spared
           \/ spared' = spared \union {o \in A : key[o] = "active"} /\ UNCHANGED key
    BY <1>7 DEF ApiKeys!DeactivateByStation
  <2>2. /\ key' \in [A -> {"none", "active", "inactive"}]
        /\ \A k \in A : key'[k] = key[k] \/ key'[k] = "inactive"
        /\ \A k \in A : key'[k] = "active" => k \in spared'
    BY <1>1, <2>1
  <2> QED
    BY <1>1, <1>4, <2>1, <2>2
<1>8. CASE ApiKeys!ReactivateStation
  BY <1>1, <1>4, <1>8 DEF ApiKeys!ReactivateStation
<1>9. ASSUME NEW k \in A, ApiKeys!DeactivateKey(k) PROVE ApiKeys!IInv'
  <2>1. key' = [key EXCEPT ![k] = "inactive"] /\ UNCHANGED <<before, v3, v4, open, closing, spared, admin, v9>>
    BY <1>9 DEF ApiKeys!DeactivateKey
  <2>2. /\ key' \in [A -> {"none", "active", "inactive"}]
        /\ \A o \in A : key'[o] = IF o = k THEN "inactive" ELSE key[o]
    BY <1>1, <2>1
  <2> QED
    BY <1>1, <1>4, <2>1, <2>2
<1>10. ASSUME NEW a \in D, ApiKeys!StartRegenerate(a) PROVE ApiKeys!IInv'
  <2>1. PICK k \in A : key' = [key EXCEPT ![k] = "inactive"] /\ admin' = [admin EXCEPT ![a] = k]
    BY <1>10 DEF ApiKeys!StartRegenerate, ApiKeys!Deactivated
  <2>2. UNCHANGED <<before, v3, v4, open, closing, spared, v9>>
    BY <1>10 DEF ApiKeys!StartRegenerate
  <2>3. /\ key' \in [A -> {"none", "active", "inactive"}]
        /\ \A o \in A : key'[o] = IF o = k THEN "inactive" ELSE key[o]
        /\ admin' \in [D -> A \union {"none"}] /\ \A b \in D : admin'[b] = IF b = a THEN k ELSE admin[b]
    BY <1>1, <2>1
  <2> QED
    BY <1>1, <1>4, <2>2, <2>3
<1>11. ASSUME NEW a \in D, ApiKeys!FinishRegenerate(a) PROVE ApiKeys!IInv'
  <2>1. PICK k \in A : ApiKeys!Creates(k, admin[a])
    BY <1>11 DEF ApiKeys!FinishRegenerate
  <2>2. /\ admin[a] # "none" /\ admin' = [admin EXCEPT ![a] = "none"] /\ UNCHANGED <<v3, v4, open, closing, v9>>
    BY <1>11 DEF ApiKeys!FinishRegenerate
  <2>3. admin' \in [D -> A \union {"none"}] /\ \A b \in D : admin'[b] \in {admin[b], "none"}
    BY <1>1, <2>2
  <2>4. admin[a] \in A /\ key[admin[a]] = "inactive"
    BY <1>1, <2>2
  <2> QED
    BY <1>3, <2>1, <2>2, <2>3, <2>4
<1> QED
  BY <1>5, <1>6, <1>7, <1>8, <1>9, <1>10, <1>11

\* A fetch: answered under a key, counted by a read and a write.
LEMMA ApiKeysFetchesKept ==
  ASSUME ApiKeys!KeysAssumption, ApiKeys!IInv, NEW d \in B,
         ApiKeys!GetMessagesForOutput(d) \/ ApiKeys!ReadHits(d) \/ ApiKeys!WriteHits(d)
  PROVE  ApiKeys!IInv'
<1> DEFINE hits == v3  served == v4  open == v5  closing == v6  spared == v7  display == v9
           Fetch == [step : {"idle", "answered", "write"}, key : A \union {"none"}, count : Nat]
           Waiting(k) == ApiKeys!Uncounted(k)
<1>1. /\ hits \in [A -> Nat] /\ served \in [A -> Nat] /\ display \in [B -> Fetch] /\ "none" \notin A
      /\ \A c \in B : display[c].step # "idle" => display[c].key \in A
      /\ \A k \in A : ApiKeys!Uncounted(k) = {c \in B : display[c].step # "idle" /\ display[c].key = k}
  BY DEF ApiKeys!IInv, ApiKeys!KeysAssumption, ApiKeys!Uncounted
<1>2. \A k \in A : /\ IsFiniteSet(Waiting(k)) /\ Cardinality(Waiting(k)) \in Nat
                   /\ hits[k] + Cardinality(Waiting(k)) <= served[k]
                   /\ \A c \in Waiting(k) :
                         display[c].step = "write" => display[c].count + Cardinality(Waiting(k)) <= served[k]
  BY SameOperators, FS_CardinalityType DEF ApiKeys!IInv, ApiKeys!HitsWereServed
<1>3. UNCHANGED <<v1, v2, v5, v6, v7, v8>>
  BY DEF ApiKeys!GetMessagesForOutput, ApiKeys!ReadHits, ApiKeys!WriteHits
\* What is to show.
<1>4. ASSUME hits' \in [A -> Nat], served' \in [A -> Nat], display' \in [B -> Fetch],
             \A c \in B : display'[c].step # "idle" => display'[c].key \in A,
             \A k \in A : /\ IsFiniteSet(Waiting(k)') /\ hits'[k] + Cardinality(Waiting(k)') <= served'[k]
                          /\ \A c \in Waiting(k)' : display'[c].step = "write" =>
                                display'[c].count + Cardinality(Waiting(k)') <= served'[k]
      PROVE  ApiKeys!IInv'
  <2>1. ApiKeys!HitsWereServed'
    BY <1>4, SameOperators DEF ApiKeys!HitsWereServed
  <2>2. ApiKeys!ReplacedAreInactive'
    BY <1>3 DEF ApiKeys!IInv, ApiKeys!ReplacedAreInactive
  <2>3. (~open /\ ~closing => ApiKeys!Active \subseteq spared)'
    BY <1>3 DEF ApiKeys!IInv, ApiKeys!Active
  <2> QED
    BY <1>3, <1>4, <2>1, <2>2, <2>3 DEF ApiKeys!IInv
<1> HIDE DEF Waiting, Fetch
<1>5. CASE ApiKeys!GetMessagesForOutput(d)
  <2>1. PICK k \in A : /\ served' = [served EXCEPT ![k] = @ + 1]
                       /\ display' = [display EXCEPT ![d] = [step |-> "answered", key |-> k, count |-> 0]]
    BY <1>5 DEF ApiKeys!GetMessagesForOutput, ApiKeys!Active
  <2>2. display[d].step = "idle" /\ UNCHANGED hits
    BY <1>5 DEF ApiKeys!GetMessagesForOutput
  <2>3. [step |-> "answered", key |-> k, count |-> 0] \in Fetch
    BY DEF Fetch
  <2>4. /\ display' \in [B -> Fetch] /\ \A c \in B \ {d} : display'[c] = display[c]
        /\ display'[d].step = "answered" /\ display'[d].key = k
    BY <1>1, <2>1, <2>3
  <2>5. /\ served' \in [A -> Nat] /\ served'[k] = served[k] + 1 /\ \A o \in A \ {k} : served'[o] = served[o]
    BY <1>1, <2>1
  <2>6. d \notin Waiting(k) /\ Waiting(k)' = Waiting(k) \union {d}
    BY <2>2, <2>4 DEF Waiting, ApiKeys!Uncounted
  <2>7. Cardinality(Waiting(k)') = Cardinality(Waiting(k)) + 1 /\ IsFiniteSet(Waiting(k)')
    BY <1>2, <2>6, FS_AddElement
  <2>8. \A o \in A \ {k} : Waiting(o)' = Waiting(o)
    BY <2>2, <2>4 DEF Waiting, ApiKeys!Uncounted
  <2>9. \A c \in B : c \in Waiting(k) => c # d
    BY <2>6
  <2>10. \A o \in A : Waiting(o) \subseteq B
    BY DEF Waiting, ApiKeys!Uncounted
  <2>11. \A o \in A : \A c \in Waiting(o)' : display'[c].step = "write" => c \in Waiting(o) /\ display'[c] = display[c]
    BY <2>2, <2>4, <2>6, <2>8, <2>10 DEF Waiting, ApiKeys!Uncounted
  <2>12. \A c \in B : display[c].count \in Nat
    BY <1>1 DEF Fetch
  <2>13. ASSUME NEW o \in A
         PROVE  /\ IsFiniteSet(Waiting(o)') /\ hits'[o] + Cardinality(Waiting(o)') <= served'[o]
                /\ \A c \in Waiting(o)' : display'[c].step = "write" =>
                      display'[c].count + Cardinality(Waiting(o)') <= served'[o]
    <3>1. CASE o = k
      BY <1>1, <1>2, <2>2, <2>5, <2>7, <2>10, <2>11, <2>12, <3>1
    <3>2. CASE o # k
      BY <1>1, <1>2, <2>2, <2>5, <2>8, <2>11, <3>2
    <3> QED
      BY <3>1, <3>2
  <2> QED
    BY <1>1, <1>4, <2>2, <2>4, <2>5, <2>13
<1>6. CASE ApiKeys!ReadHits(d)
  <2>1. display[d].step = "answered" /\ UNCHANGED <<hits, served>>
    BY <1>6 DEF ApiKeys!ReadHits
  <2>2. display' = [display EXCEPT ![d].step = "write", ![d].count = hits[display[d].key]]
    BY <1>6 DEF ApiKeys!ReadHits
  <2>3. display[d] \in Fetch /\ display[d].key \in A /\ hits[display[d].key] \in Nat
    BY <1>1, <2>1
  <2>4. /\ [display[d] EXCEPT !.step = "write", !.count = hits[display[d].key]] \in Fetch
        /\ [display[d] EXCEPT !.step = "write", !.count = hits[display[d].key]].key = display[d].key
        /\ [display[d] EXCEPT !.step = "write", !.count = hits[display[d].key]].step = "write"
        /\ [display[d] EXCEPT !.step = "write", !.count = hits[display[d].key]].count = hits[display[d].key]
    BY <2>3 DEF Fetch
  <2>5. /\ display' \in [B -> Fetch] /\ \A c \in B \ {d} : display'[c] = display[c]
        /\ display'[d].step = "write" /\ display'[d].key = display[d].key
        /\ display'[d].count = hits[display[d].key]
    BY <1>1, <2>2, <2>4
  <2>6. \A k \in A : Waiting(k)' = Waiting(k)
    BY <2>1, <2>5 DEF Waiting, ApiKeys!Uncounted
  <2>7. \A k \in A : \A c \in Waiting(k) : c \in B /\ display[c].key = k
    BY DEF Waiting, ApiKeys!Uncounted
  <2>8. ASSUME NEW k \in A, NEW c \in Waiting(k), display'[c].step = "write"
        PROVE  display'[c].count + Cardinality(Waiting(k)) <= served[k]
    BY <1>1, <1>2, <2>1, <2>5, <2>7, <2>8
  <2> QED
    BY <1>1, <1>2, <1>4, <2>1, <2>3, <2>5, <2>6, <2>8
<1>7. CASE ApiKeys!WriteHits(d)
  <2>0. PICK k : k = display[d].key
    OBVIOUS
  <2>1. display[d].step = "write" /\ UNCHANGED served /\ display' = [display EXCEPT ![d] = ApiKeys!Idle]
    BY <1>7 DEF ApiKeys!WriteHits
  <2>2. hits' = [hits EXCEPT ![k] = display[d].count + 1] \/ hits' = hits
    BY <1>7, <2>0 DEF ApiKeys!WriteHits, ApiKeys!NewTotal
  <2>3. k \in A /\ display[d].count \in Nat
    BY <1>1, <2>0, <2>1 DEF Fetch
  <2>4. ApiKeys!Idle \in Fetch /\ ApiKeys!Idle.step = "idle"
    BY DEF ApiKeys!Idle, Fetch
  <2>5. /\ display' \in [B -> Fetch] /\ \A c \in B \ {d} : display'[c] = display[c]
        /\ display'[d].step = "idle"
    BY <1>1, <2>1, <2>4
  <2>6. d \in Waiting(k) /\ Waiting(k)' = Waiting(k) \ {d}
    BY <2>0, <2>1, <2>5 DEF Waiting, ApiKeys!Uncounted
  <2>7. Cardinality(Waiting(k)') = Cardinality(Waiting(k)) - 1 /\ IsFiniteSet(Waiting(k)')
    BY <1>2, <2>3, <2>6, FS_RemoveElement
  <2>8. \A o \in A \ {k} : Waiting(o)' = Waiting(o)
    BY <2>0, <2>1, <2>5 DEF Waiting, ApiKeys!Uncounted
  <2>9. \A o \in A : \A c \in Waiting(o)' : c \in Waiting(o) /\ display'[c] = display[c] /\ display[c].count \in Nat
    BY <1>1, <2>5 DEF Waiting, ApiKeys!Uncounted, Fetch
  <2>10. /\ hits' \in [A -> Nat] /\ \A o \in A \ {k} : hits'[o] = hits[o]
         /\ hits'[k] \in {display[d].count + 1, hits[k]}
    BY <1>1, <2>2, <2>3
  <2>11. display[d].count + Cardinality(Waiting(k)) <= served[k]
    BY <1>2, <2>1, <2>3, <2>6
  <2>12. ASSUME NEW o \in A
         PROVE  /\ IsFiniteSet(Waiting(o)') /\ hits'[o] + Cardinality(Waiting(o)') <= served'[o]
                /\ \A c \in Waiting(o)' : display'[c].step = "write" =>
                      display'[c].count + Cardinality(Waiting(o)') <= served'[o]
    <3>1. CASE o = k
      BY <1>1, <1>2, <2>1, <2>3, <2>7, <2>9, <2>10, <2>11, <3>1
    <3>2. CASE o # k
      BY <1>1, <1>2, <2>1, <2>8, <2>9, <2>10, <3>2
    <3> QED
      BY <3>1, <3>2
  <2> QED
    BY <1>1, <1>4, <2>1, <2>5, <2>10, <2>12
<1> QED
  BY <1>5, <1>6, <1>7

\* Every step of keys, administrators and displays.
LEMMA ApiKeysKept ==
  ASSUME ApiKeys!KeysAssumption, ApiKeys!IInv, ApiKeys!Next
  PROVE  ApiKeys!IInv'
BY ApiKeysKeysKept, ApiKeysFetchesKept DEF ApiKeys!Next

\* A replaced key answers nobody, nor do a closed station's, and counts are of answers.
LEMMA ApiKeysAnswer == ApiKeys!IInv => ApiKeys!KeysAnswerFor
<1> SUFFICES ASSUME ApiKeys!IInv PROVE ApiKeys!KeysAnswerFor
  OBVIOUS
<1>1. ASSUME NEW k \in A PROVE v3[k] <= v4[k]
  <2>1. /\ IsFiniteSet(ApiKeys!Uncounted(k))
        /\ v3[k] + Cardinality(ApiKeys!Uncounted(k)) <= v4[k]
    BY SameOperators DEF ApiKeys!IInv, ApiKeys!HitsWereServed
  <2>2. Cardinality(ApiKeys!Uncounted(k)) \in Nat /\ v3[k] \in Nat /\ v4[k] \in Nat
    BY <2>1, FS_CardinalityType DEF ApiKeys!IInv
  <2> QED
    BY <2>1, <2>2
<1> QED
  BY <1>1 DEF ApiKeys!IInv, ApiKeys!KeysAnswerFor, ApiKeys!ReplacedAreInactive

-----------------------------------------------------------------------------
(* Notifications.                                                             *)

\* No account has a token.
LEMMA NotificationsAtFirst ==
  ASSUME Notifications!NotificationsAssumption, Notifications!Init
  PROVE  Notifications!IInv
<1>1. /\ v1 = [a \in A |-> "none"] /\ v2 = [u \in B |-> Notifications!Idle] /\ v3 = {}
      /\ \A p \in D : p # "none"
  BY DEF Notifications!Init, Notifications!NotificationsAssumption
<1>2. Notifications!Idle \in Notifications!Update /\ Notifications!Idle.step = "idle"
  BY DEF Notifications!Idle, Notifications!Update
<1>3. v2 \in [B -> Notifications!Update] /\ \A u \in B : v2[u].step = "idle"
  BY <1>1, <1>2
<1> QED
  BY <1>1, <1>3 DEF Notifications!IInv, Notifications!UpdatesAreAlone

\* updateFcmToken, whichever updates overlap, and the clearing of a token.
LEMMA NotificationsTokensKept ==
  ASSUME Notifications!NotificationsAssumption, Notifications!IInv,
         \/ \E u \in B : \/ Notifications!StartUpdate(u) \/ Notifications!TakeToken(u)
                         \/ Notifications!GiveToken(u) \/ Notifications!StopUpdate(u)
         \/ \E a \in A : Notifications!ClearToken(a)
  PROVE  Notifications!IInv'
<1> DEFINE token == v1  update == v2  mixed == v3
           Job == Notifications!Update
           Busy(u) == update[u].step # "idle"
<1>1. /\ token \in [A -> D \union {"none"}] /\ update \in [B -> Job] /\ "none" \notin D
      /\ \A u \in B : Busy(u) => update[u].account \in A /\ update[u].phone \in D
      /\ \A p \in D \ mixed : \A a, b \in A : token[a] = p /\ token[b] = p => a = b
  BY DEF Notifications!IInv, Notifications!NotificationsAssumption
<1>2. \A u \in B : Busy(u) /\ update[u].phone \notin mixed =>
         /\ \A w \in B \ {u} : Busy(w) => update[w].phone # update[u].phone
         /\ update[u].step = "give" => \A a \in A : token[a] = update[u].phone => a = update[u].account
  BY DEF Notifications!IInv, Notifications!UpdatesAreAlone, Notifications!Others
\* What is to show.
<1>3. ASSUME token' \in [A -> D \union {"none"}], update' \in [B -> Job],
             \A u \in B : Busy(u)' => update'[u].account \in A /\ update'[u].phone \in D,
             \A p \in D \ mixed' : \A a, b \in A : token'[a] = p /\ token'[b] = p => a = b,
             \A u \in B : Busy(u)' /\ update'[u].phone \notin mixed' =>
                /\ \A w \in B \ {u} : Busy(w)' => update'[w].phone # update'[u].phone
                /\ update'[u].step = "give" => \A a \in A : token'[a] = update'[u].phone => a = update'[u].account
      PROVE  Notifications!IInv'
  <2>1. Notifications!UpdatesAreAlone'
    BY <1>3 DEF Notifications!UpdatesAreAlone, Notifications!Others
  <2> QED
    BY <1>3, <2>1 DEF Notifications!IInv
\* An update is over, with or without its second write.
<1>4. ASSUME NEW u \in B, update' = [update EXCEPT ![u] = Notifications!Idle], UNCHANGED mixed
      PROVE  /\ update' \in [B -> Job]
             /\ \A w \in B : Busy(w)' => w # u /\ Busy(w) /\ update'[w] = update[w]
  <2>1. Notifications!Idle \in Job /\ Notifications!Idle.step = "idle"
    BY DEF Notifications!Idle, Notifications!Update
  <2> QED
    BY <1>1, <1>4, <2>1
<1>5. ASSUME NEW u \in B, Notifications!StartUpdate(u) PROVE Notifications!IInv'
  <2>1. PICK a \in A, p \in D :
           /\ update' = [update EXCEPT ![u] = [step |-> "take", account |-> a, phone |-> p]]
           /\ mixed' = IF Notifications!Others(u, p) # {} THEN mixed \union {p} ELSE mixed
    BY <1>5 DEF Notifications!StartUpdate
  <2>2. ~Busy(u) /\ UNCHANGED token
    BY <1>5 DEF Notifications!StartUpdate
  <2>3. [step |-> "take", account |-> a, phone |-> p] \in Job
    BY DEF Notifications!Update
  <2>4. /\ update' \in [B -> Job] /\ \A w \in B \ {u} : update'[w] = update[w]
        /\ update'[u].step = "take" /\ update'[u].account = a /\ update'[u].phone = p
    BY <1>1, <2>1, <2>3
  <2>5. /\ \A q \in D : q \notin mixed' => q \notin mixed
        /\ p \notin mixed' => \A w \in B \ {u} : Busy(w) => update[w].phone # p
    BY <2>1 DEF Notifications!Others
  <2>6. ASSUME NEW w \in B, Busy(w)', update'[w].phone \notin mixed'
        PROVE  /\ \A x \in B \ {w} : Busy(x)' => update'[x].phone # update'[w].phone
               /\ update'[w].step = "give" => \A b \in A : token'[b] = update'[w].phone => b = update'[w].account
    <3>1. CASE w = u
      BY <2>4, <2>5, <2>6, <3>1
    <3>2. CASE w # u
      BY <1>1, <1>2, <2>2, <2>4, <2>5, <2>6, <3>2
    <3> QED
      BY <3>1, <3>2
  <2> QED
    BY <1>1, <1>3, <2>2, <2>4, <2>5, <2>6
<1>6. ASSUME NEW u \in B, Notifications!TakeToken(u) PROVE Notifications!IInv'
  <2>1. PICK a, p : a = update[u].account /\ p = update[u].phone
    OBVIOUS
  <2>2. /\ update[u].step = "take" /\ update' = [update EXCEPT ![u].step = "give"]
        /\ token' = [b \in A |-> IF b # a /\ token[b] = p THEN "none" ELSE token[b]]
        /\ mixed' = IF Notifications!Others(u, p) = {} THEN mixed \ {p} ELSE mixed
    BY <1>6, <2>1 DEF Notifications!TakeToken, Notifications!Taken
  <2>3. a \in A /\ p \in D /\ update[u] \in Job
    BY <1>1, <2>1, <2>2
  <2>4. /\ [update[u] EXCEPT !.step = "give"] \in Job /\ [update[u] EXCEPT !.step = "give"].step = "give"
        /\ [update[u] EXCEPT !.step = "give"].account = a /\ [update[u] EXCEPT !.step = "give"].phone = p
    BY <2>1, <2>3 DEF Notifications!Update
  <2>5. /\ update' \in [B -> Job] /\ \A w \in B \ {u} : update'[w] = update[w]
        /\ update'[u].step = "give" /\ update'[u].account = a /\ update'[u].phone = p
    BY <1>1, <2>2, <2>4
  <2>6. /\ token' \in [A -> D \union {"none"}]
        /\ \A b \in A : /\ token'[b] = p => b = a
                        /\ \A q \in D : token'[b] = q => token[b] = q
    <3>1. token' \in [A -> D \union {"none"}]
      BY <1>1, <2>2
    <3>2. \A b \in A : token'[b] = IF b # a /\ token[b] = p THEN "none" ELSE token[b]
      BY <2>2
    <3> QED
      BY <1>1, <2>3, <3>1, <3>2
  <2>7. /\ \A q \in D : q # p /\ q \notin mixed' => q \notin mixed
        /\ p \notin mixed' => p \notin mixed \/ \A w \in B \ {u} : Busy(w) => update[w].phone # p
        /\ p \notin mixed' /\ p \in mixed => \A w \in B \ {u} : Busy(w) => update[w].phone # p
        /\ (\E w \in B \ {u} : Busy(w) /\ update[w].phone = p) => mixed' = mixed
    BY <2>2 DEF Notifications!Others
  <2>8. p \notin mixed' => \A w \in B \ {u} : Busy(w) => update[w].phone # p
    BY <1>2, <2>1, <2>2, <2>7
  <2>9. ASSUME NEW w \in B, Busy(w)', update'[w].phone \notin mixed'
        PROVE  /\ \A x \in B \ {w} : Busy(x)' => update'[x].phone # update'[w].phone
               /\ update'[w].step = "give" => \A b \in A : token'[b] = update'[w].phone => b = update'[w].account
    <3>1. CASE w = u
      BY <2>5, <2>6, <2>8, <2>9, <3>1
    <3>2. CASE w # u
      <4>1. Busy(w) /\ update'[w] = update[w] /\ update[w].phone \in D
        BY <1>1, <2>5, <2>9, <3>2
      <4>2. update[w].phone # p /\ update[w].phone \notin mixed
        BY <2>7, <2>8, <2>9, <3>2, <4>1
      <4> QED
        BY <1>2, <2>5, <2>6, <4>1, <4>2
    <3> QED
      BY <3>1, <3>2
  <2>10. \A w \in B : Busy(w)' => update'[w].account \in A /\ update'[w].phone \in D
    BY <1>1, <2>3, <2>5
  <2>11. \A q \in D \ mixed' : \A b, c \in A : token'[b] = q /\ token'[c] = q => b = c
    BY <1>1, <2>6, <2>7
  <2> QED
    BY <1>3, <2>5, <2>6, <2>9, <2>10, <2>11
<1>7. ASSUME NEW u \in B, Notifications!GiveToken(u) PROVE Notifications!IInv'
  <2>1. PICK a, p : a = update[u].account /\ p = update[u].phone
    OBVIOUS
  <2>2. /\ update[u].step = "give" /\ update' = [update EXCEPT ![u] = Notifications!Idle]
        /\ token' = [token EXCEPT ![a] = p] /\ UNCHANGED mixed
    BY <1>7, <2>1 DEF Notifications!GiveToken
  <2>3. a \in A /\ p \in D
    BY <1>1, <2>1, <2>2
  <2>4. /\ token' \in [A -> D \union {"none"}]
        /\ \A b \in A : token'[b] = IF b = a THEN p ELSE token[b]
    BY <1>1, <2>2, <2>3
  <2>5. /\ update' \in [B -> Job]
        /\ \A w \in B : Busy(w)' => w # u /\ Busy(w) /\ update'[w] = update[w]
    BY <1>4, <2>2
  <2>6. p \notin mixed => \A b \in A : token[b] = p => b = a
    BY <1>2, <2>1, <2>2
  <2>7. ASSUME NEW w \in B, Busy(w)', update'[w].phone \notin mixed'
        PROVE  /\ \A x \in B \ {w} : Busy(x)' => update'[x].phone # update'[w].phone
               /\ update'[w].step = "give" => \A b \in A : token'[b] = update'[w].phone => b = update'[w].account
    <3>1. w # u /\ Busy(w) /\ update'[w] = update[w] /\ update[w].phone \notin mixed /\ Busy(u)
      BY <2>2, <2>5, <2>7
    <3>2. update[w].phone # p
      BY <1>2, <2>1, <3>1
    <3> QED
      BY <1>2, <2>4, <2>5, <3>1, <3>2
  <2>8. \A q \in D \ mixed' : \A b, c \in A : token'[b] = q /\ token'[c] = q => b = c
    BY <1>1, <2>2, <2>4, <2>6
  <2> QED
    BY <1>1, <1>3, <2>4, <2>5, <2>7, <2>8
<1>8. ASSUME NEW u \in B, Notifications!StopUpdate(u) PROVE Notifications!IInv'
  <2>1. update' = [update EXCEPT ![u] = Notifications!Idle] /\ UNCHANGED <<token, mixed>>
    BY <1>8 DEF Notifications!StopUpdate
  <2>2. /\ update' \in [B -> Job]
        /\ \A w \in B : Busy(w)' => w # u /\ Busy(w) /\ update'[w] = update[w]
    BY <1>4, <2>1
  <2> QED
    BY <1>1, <1>2, <1>3, <2>1, <2>2
<1>9. ASSUME NEW a \in A, Notifications!ClearToken(a) PROVE Notifications!IInv'
  <2>1. token' = [token EXCEPT ![a] = "none"] /\ UNCHANGED <<update, mixed>>
    BY <1>9 DEF Notifications!ClearToken
  <2>2. /\ token' \in [A -> D \union {"none"}]
        /\ \A b \in A : \A q \in D : token'[b] = q => token[b] = q
    BY <1>1, <2>1
  <2> QED
    BY <1>1, <1>2, <1>3, <2>1, <2>2
<1> QED
  BY <1>5, <1>6, <1>7, <1>8, <1>9

\* What is sent changes no token.
LEMMA NotificationsKept ==
  ASSUME Notifications!NotificationsAssumption, Notifications!IInv, Notifications!Next
  PROVE  Notifications!IInv'
<1>1. ASSUME UNCHANGED <<v1, v2, v3>> PROVE Notifications!IInv'
  BY <1>1 DEF Notifications!IInv, Notifications!UpdatesAreAlone, Notifications!Others
<1>2. ASSUME NEW n \in D, Notifications!Store(n) \/ Notifications!ReadTokens(n) \/ Notifications!Push(n)
      PROVE  UNCHANGED <<v1, v2, v3>>
  BY <1>2 DEF Notifications!Store, Notifications!ReadTokens, Notifications!Push
<1> QED
  BY <1>1, <1>2, NotificationsTokensKept DEF Notifications!Next

-----------------------------------------------------------------------------
(* Support and Statements.                                                    *)

\* There is no ticket.
LEMMA SupportAtFirst == Support!Init => Support!IInv
<1> SUFFICES ASSUME Support!Init PROVE Support!IInv
  OBVIOUS
<1> DEFINE Doc == [status : {"NONE", "OPEN", "ASSIGNED", "CLOSED"}, agent : B \union {"none"},
                   unreadAgent : Nat, unreadUser : Nat, messages : Nat, answers : Nat, added : BOOLEAN]
           Call == [op : {"idle", "open", "claim", "close", "send", "count"}, of : A \union {"none"},
                    seen : [status : {"NONE", "OPEN", "ASSIGNED"}, unreadAgent : Nat, unreadUser : Nat]]
<1>1. Support!Absent \in Doc /\ Support!Idle \in Call /\ Support!Idle.op = "idle"
  BY DEF Support!Absent, Support!Idle
<1>2. v1 = [t \in A |-> Support!Absent] /\ v2 = [x \in Support!Actors |-> Support!Idle]
  BY DEF Support!Init
<1> HIDE DEF Doc, Call
<1>3. v1 \in [A -> Doc] /\ v2 \in [Support!Actors -> Call] /\ \A x \in Support!Actors : v2[x].op = "idle"
  BY <1>1, <1>2
<1> USE DEF Doc, Call
<1>4. Support!RequestsAreOfTickets
  BY <1>3 DEF Support!RequestsAreOfTickets
<1>5. \A t \in A : v1[t] = Support!Absent /\ Support!Counting(t) = {}
  BY <1>2, <1>3 DEF Support!Counting
<1>6. /\ Support!Absent.unreadUser = 0 /\ Support!Absent.unreadAgent = 0 /\ Support!Absent.answers = 0
      /\ Support!Absent.messages = 0
  BY DEF Support!Absent
<1>7. \A t \in A : Support!Stored(t) = 0
  BY <1>5 DEF Support!Stored
<1>8. Support!SendersAreAlone
  <2>1. \A t \in A : /\ v1[t].unreadUser = 0 /\ v1[t].unreadAgent = 0
                     /\ v1[t].answers = 0 /\ v1[t].messages = 0
    BY <1>5, <1>6
  <2>2. ASSUME NEW t \in A
        PROVE  /\ v1[t].unreadUser <= v1[t].answers
               /\ v1[t].unreadAgent + v1[t].answers + Support!Stored(t) <= v1[t].messages
    BY <1>7, <2>1
  <2> QED
    BY <1>5, <2>1, <2>2 DEF Support!SendersAreAlone
<1> QED
  BY <1>4, <1>8 DEF Support!IInv

\* One step of a handler: what it makes of the ticket and of the request that runs it,
\* and what it can have changed of who has the ticket.
LEMMA RequestsKept ==
  ASSUME Support!RequestsAreOfTickets, Support!Next
  PROVE  Support!RequestsAreOfTickets' /\ Support!LateClaimIfTakenOver
<1> DEFINE ticket == v1  request == v2
           Actor == Support!Actors
           Seen == [status : {"NONE", "OPEN", "ASSIGNED"}, unreadAgent : Nat, unreadUser : Nat]
           Doc == [status : {"NONE", "OPEN", "ASSIGNED", "CLOSED"}, agent : B \union {"none"},
                   unreadAgent : Nat, unreadUser : Nat, messages : Nat, answers : Nat, added : BOOLEAN]
           Call == [op : {"idle", "open", "claim", "close", "send", "count"}, of : A \union {"none"},
                    seen : Seen]
           Ready(call) == /\ call.op \in {"claim", "close", "send", "count"} =>
                                call.of \in A /\ ticket[call.of].status # "NONE"
                          /\ call.op = "claim" => call.seen.status = "OPEN"
           Lasts(t) == ticket[t].status # "NONE" => ticket'[t].status # "NONE"
           SameHands(t) == /\ ticket[t].status = "CLOSED" => ticket'[t].status = "CLOSED"
                           /\ ticket[t].status = "ASSIGNED" => ticket'[t].agent = ticket[t].agent
<1>1. /\ ticket \in [A -> Doc] /\ request \in [Actor -> Call] /\ \A x \in Actor : Ready(request[x])
      /\ B \subseteq Actor /\ D \subseteq Actor
  BY DEF Support!RequestsAreOfTickets, Support!Actors
<1>2. ASSUME ticket' \in [A -> Doc], request' \in [Actor -> Call], \A x \in Actor : Ready(request'[x]),
             \A t \in A : Lasts(t)
      PROVE  Support!RequestsAreOfTickets'
  BY <1>2 DEF Support!RequestsAreOfTickets
<1>3. ASSUME \A t \in A : SameHands(t) PROVE Support!LateClaimIfTakenOver
  BY <1>3 DEF Support!LateClaimIfTakenOver
\* A request goes on; a ticket becomes another, or stays.
<1>4. ASSUME NEW x \in Actor, NEW call \in Call, Ready(call), request' = [request EXCEPT ![x] = call]
      PROVE  request' \in [Actor -> Call] /\ \A y \in Actor : Ready(request'[y])
  <2>1. request' \in [Actor -> Call] /\ \A y \in Actor : request'[y] = IF y = x THEN call ELSE request[y]
    BY <1>1, <1>4
  <2> QED
    BY <1>1, <1>4, <2>1
<1>5. ASSUME NEW t \in A, NEW doc \in Doc, ticket' = [ticket EXCEPT ![t] = doc]
      PROVE  /\ ticket' \in [A -> Doc] /\ ticket'[t] = doc
             /\ \A o \in A \ {t} : ticket'[o] = ticket[o]
  BY <1>1, <1>5
<1>6. Support!Idle \in Call /\ Ready(Support!Idle)
  BY DEF Support!Idle
<1>7. ASSUME NEW x \in Actor, Support!Done(x)
      PROVE  request' \in [Actor -> Call] /\ \A y \in Actor : Ready(request'[y])
  BY <1>4, <1>6, <1>7 DEF Support!Done
<1>8. ASSUME NEW x \in Actor, NEW op \in {"claim", "close", "send"}, NEW t \in A, Support!Set(x, op, t),
             ticket[t].status \in {"OPEN", "ASSIGNED"}, op = "claim" => ticket[t].status = "OPEN"
      PROVE  request' \in [Actor -> Call] /\ \A y \in Actor : Ready(request'[y])
  <2>1. ticket[t].unreadAgent \in Nat /\ ticket[t].unreadUser \in Nat
    BY <1>1
  <2>2. PICK seen : /\ seen = [status |-> ticket[t].status,
                               unreadAgent |-> IF op = "send" THEN ticket[t].unreadAgent ELSE 0,
                               unreadUser |-> IF op = "send" THEN ticket[t].unreadUser ELSE 0]
    OBVIOUS
  <2>3. seen \in Seen /\ seen.status = ticket[t].status
    BY <1>8, <2>1, <2>2
  <2>4. request' = [request EXCEPT ![x] = [op |-> op, of |-> t, seen |-> seen]]
    BY <1>8, <2>2 DEF Support!Set
  <2> HIDE DEF Seen
  <2>5. PICK call : call = [op |-> op, of |-> t, seen |-> seen]
    OBVIOUS
  <2>6. call \in Call /\ call.op = op /\ call.of = t /\ call.seen = seen
    BY <1>8, <2>3, <2>5
  <2>7. Ready(call)
    BY <1>8, <2>3, <2>6
  <2> QED
    BY <1>4, <2>4, <2>5, <2>6, <2>7
<1> HIDE DEF Call, Ready
\* createConversation.
<1>10. ASSUME NEW d \in D, Support!NoActive(d) PROVE Support!RequestsAreOfTickets' /\ Support!LateClaimIfTakenOver
  <2>1. request[d] = Support!Idle /\ request' = [request EXCEPT ![d].op = "open"] /\ UNCHANGED ticket
    BY <1>10 DEF Support!NoActive
  <2>2. [Support!Idle EXCEPT !.op = "open"] \in Call /\ Ready([Support!Idle EXCEPT !.op = "open"])
    BY DEF Support!Idle, Call, Ready
  <2>3. request' = [request EXCEPT ![d] = [Support!Idle EXCEPT !.op = "open"]]
    BY <2>1
  <2>4. request' \in [Actor -> Call] /\ \A y \in Actor : Ready(request'[y])
    BY <1>1, <1>4, <2>2, <2>3
  <2> QED
    BY <1>1, <1>2, <1>3, <2>1, <2>4
<1>11. ASSUME NEW d \in D, NEW t \in A, Support!CreateTicket(d, t)
       PROVE  Support!RequestsAreOfTickets' /\ Support!LateClaimIfTakenOver
  <2>1. /\ ticket[t] = Support!Absent /\ Support!Done(d)
        /\ ticket' = [ticket EXCEPT ![t] = [Support!Absent EXCEPT !.status = "OPEN", !.unreadAgent = 1, !.messages = 1]]
    BY <1>11 DEF Support!CreateTicket
  <2>2. [Support!Absent EXCEPT !.status = "OPEN", !.unreadAgent = 1, !.messages = 1] \in Doc
    BY DEF Support!Absent
  <2>3. ticket[t].status = "NONE"
    BY <2>1 DEF Support!Absent
  <2>4. ticket' \in [A -> Doc] /\ \A o \in A \ {t} : ticket'[o] = ticket[o]
    BY <1>5, <2>1, <2>2
  <2>5. \A o \in A : SameHands(o) /\ Lasts(o)
    BY <2>3, <2>4
  <2> QED
    BY <1>1, <1>2, <1>3, <1>7, <2>1, <2>4, <2>5
<1>12. ASSUME NEW d \in D, NEW t \in A, Support!AddToActive(d, t)
       PROVE  Support!RequestsAreOfTickets' /\ Support!LateClaimIfTakenOver
  <2>1. /\ UNCHANGED request
        /\ ticket' = [ticket EXCEPT ![t].unreadAgent = @ + 1, ![t].messages = @ + 1, ![t].added = TRUE]
    BY <1>12 DEF Support!AddToActive
  <2>2. ticket[t] \in Doc /\ ticket[t].unreadAgent + 1 \in Nat /\ ticket[t].messages + 1 \in Nat
    BY <1>1
  <2>3. PICK doc : doc = [ticket[t] EXCEPT !.unreadAgent = ticket[t].unreadAgent + 1,
                                           !.messages = ticket[t].messages + 1, !.added = TRUE]
    OBVIOUS
  <2>4. doc \in Doc /\ doc.status = ticket[t].status /\ doc.agent = ticket[t].agent
    BY <2>2, <2>3
  <2>5. /\ ticket' \in [A -> Doc] /\ ticket'[t] = doc /\ \A o \in A \ {t} : ticket'[o] = ticket[o]
    BY <1>1, <2>1, <2>2, <2>3, <2>4
  <2>6. \A o \in A : SameHands(o) /\ Lasts(o)
    BY <2>4, <2>5
  <2> QED
    BY <1>1, <1>2, <1>3, <2>1, <2>5, <2>6
\* claimTicket.
<1>13. ASSUME NEW a \in B, NEW t \in A, Support!StartClaim(a, t)
       PROVE  Support!RequestsAreOfTickets' /\ Support!LateClaimIfTakenOver
  <2>1. ticket[t].status = "OPEN" /\ Support!Set(a, "claim", t) /\ UNCHANGED ticket
    BY <1>13 DEF Support!StartClaim, Support!Claimable
  <2>2. request' \in [Actor -> Call] /\ \A y \in Actor : Ready(request'[y])
    BY <1>1, <1>8, <2>1
  <2> QED
    BY <1>1, <1>2, <1>3, <2>1, <2>2
<1>14. ASSUME NEW a \in B, Support!Claim(a) PROVE Support!RequestsAreOfTickets' /\ Support!LateClaimIfTakenOver
  <2>1. PICK t : t = request[a].of
    OBVIOUS
  <2>2. /\ request[a].op = "claim" /\ Support!Done(a)
        /\ ticket' = [ticket EXCEPT ![t] = [ticket[t] EXCEPT !.status = "ASSIGNED", !.agent = a]]
    BY <1>14, <2>1 DEF Support!Claim
  <2>3. t \in A /\ request[a].seen.status = "OPEN" /\ ticket[t] \in Doc
    BY <1>1, <2>1, <2>2 DEF Ready
  <2>4. PICK doc : doc = [ticket[t] EXCEPT !.status = "ASSIGNED", !.agent = a]
    OBVIOUS
  <2>8. doc \in Doc /\ doc.status = "ASSIGNED"
    BY <2>3, <2>4
  <2>5. ticket' \in [A -> Doc] /\ ticket'[t] = doc /\ \A o \in A \ {t} : ticket'[o] = ticket[o]
    BY <1>5, <2>2, <2>3, <2>4, <2>8
  <2>9. \A o \in A : Lasts(o)
    BY <2>5, <2>8
  <2>6. Support!LateClaim(t)
    BY <1>14, <2>1, <2>3 DEF Support!LateClaim
  <2>7. Support!LateClaimIfTakenOver
    BY <2>5, <2>6 DEF Support!LateClaimIfTakenOver
  <2> QED
    BY <1>1, <1>2, <1>7, <2>2, <2>5, <2>7, <2>9
\* closeTicket.
<1>15. ASSUME NEW x \in Actor, NEW t \in A, Support!StartClose(x, t) \/ Support!StartSend(x, t)
       PROVE  Support!RequestsAreOfTickets' /\ Support!LateClaimIfTakenOver
  <2>1. PICK op \in {"close", "send"} : Support!Set(x, op, t)
    BY <1>15 DEF Support!StartClose, Support!StartSend
  <2>2. ticket[t].status \in {"OPEN", "ASSIGNED"} /\ UNCHANGED ticket
    BY <1>15 DEF Support!StartClose, Support!StartSend, Support!Active
  <2>3. request' \in [Actor -> Call] /\ \A y \in Actor : Ready(request'[y])
    BY <1>8, <2>1, <2>2
  <2> QED
    BY <1>1, <1>2, <1>3, <2>2, <2>3
<1>16. ASSUME NEW x \in Actor, Support!Close(x) PROVE Support!RequestsAreOfTickets' /\ Support!LateClaimIfTakenOver
  <2>1. PICK t : t = request[x].of
    OBVIOUS
  <2>2. request[x].op = "close" /\ Support!Done(x) /\ ticket' = [ticket EXCEPT ![t].status = "CLOSED"]
    BY <1>16, <2>1 DEF Support!Close
  <2>3. t \in A /\ ticket[t] \in Doc
    BY <1>1, <2>1, <2>2 DEF Ready
  <2>4. PICK doc : doc = [ticket[t] EXCEPT !.status = "CLOSED"]
    OBVIOUS
  <2>5. doc \in Doc /\ doc.status = "CLOSED" /\ doc.agent = ticket[t].agent
    BY <2>3, <2>4
  <2>6. ticket' = [ticket EXCEPT ![t] = doc]
    BY <2>2, <2>4
  <2>7. /\ ticket' \in [A -> Doc] /\ ticket'[t] = doc /\ \A o \in A \ {t} : ticket'[o] = ticket[o]
    BY <1>5, <2>3, <2>5, <2>6
  <2>8. \A o \in A : SameHands(o) /\ Lasts(o)
    BY <2>5, <2>7
  <2> QED
    BY <1>1, <1>2, <1>3, <1>7, <2>2, <2>7, <2>8
\* sendMessage.
<1>17. ASSUME NEW x \in Actor, Support!StoreMessage(x) PROVE Support!RequestsAreOfTickets' /\ Support!LateClaimIfTakenOver
  <2>1. PICK t : t = request[x].of
    OBVIOUS
  <2>2. /\ request[x].op = "send" /\ request' = [request EXCEPT ![x].op = "count"]
        /\ ticket' = [ticket EXCEPT ![t].messages = ticket[t].messages + 1]
    BY <1>17, <2>1 DEF Support!StoreMessage
  <2>3. /\ t \in A /\ ticket[t] \in Doc /\ ticket[t].messages + 1 \in Nat /\ request[x] \in Call
        /\ ticket[t].status # "NONE"
    BY <1>1, <2>1, <2>2 DEF Ready
  <2>4. PICK doc : doc = [ticket[t] EXCEPT !.messages = ticket[t].messages + 1]
    OBVIOUS
  <2>5. doc \in Doc /\ doc.status = ticket[t].status /\ doc.agent = ticket[t].agent
    BY <2>3, <2>4
  <2>6. ticket' = [ticket EXCEPT ![t] = doc]
    BY <2>2, <2>4
  <2>7. /\ ticket' \in [A -> Doc] /\ ticket'[t] = doc /\ \A o \in A \ {t} : ticket'[o] = ticket[o]
    BY <1>5, <2>3, <2>5, <2>6
  <2>8. PICK call : call = [request[x] EXCEPT !.op = "count"]
    OBVIOUS
  <2>9. call \in Call /\ call.op = "count" /\ call.of = t
    BY <2>1, <2>3, <2>8 DEF Call
  <2>10. Ready(call) /\ request' = [request EXCEPT ![x] = call]
    BY <2>2, <2>3, <2>8, <2>9 DEF Ready
  <2>11. request' \in [Actor -> Call] /\ \A y \in Actor : Ready(request'[y])
    BY <1>4, <2>9, <2>10
  <2>12. \A o \in A : SameHands(o) /\ Lasts(o)
    BY <2>3, <2>5, <2>7
  <2> QED
    BY <1>2, <1>3, <2>7, <2>11, <2>12
<1>18. ASSUME NEW x \in Actor, Support!Count(x) PROVE Support!RequestsAreOfTickets' /\ Support!LateClaimIfTakenOver
  <2>1. PICK t : t = request[x].of
    OBVIOUS
  <2>2. /\ request[x].op = "count" /\ Support!Done(x)
        /\ ticket' = [ticket EXCEPT ![t] = Support!Counted(x, t)]
    BY <1>18, <2>1 DEF Support!Count
  <2>3. t \in A /\ ticket[t] \in Doc /\ request[x] \in Call
    BY <1>1, <2>1, <2>2 DEF Ready
  <2>4. /\ ticket[t].answers + 1 \in Nat /\ request[x].seen.unreadUser + 1 \in Nat
        /\ request[x].seen.unreadAgent + 1 \in Nat
    BY <2>3 DEF Call
  <2>5. PICK doc : doc = Support!Counted(x, t)
    OBVIOUS
  <2>6. doc \in Doc /\ doc.status = ticket[t].status /\ doc.agent = ticket[t].agent
    <3>1. CASE x \in B
      <4>1. doc = [ticket[t] EXCEPT !.unreadUser = request[x].seen.unreadUser + 1, !.unreadAgent = 0,
                                    !.answers = ticket[t].answers + 1, !.added = FALSE]
        BY <2>5, <3>1 DEF Support!Counted
      <4> QED
        BY <2>3, <2>4, <4>1
    <3>2. CASE x \notin B
      <4>1. doc = [ticket[t] EXCEPT !.unreadAgent = request[x].seen.unreadAgent + 1, !.unreadUser = 0,
                                    !.added = FALSE]
        BY <2>5, <3>2 DEF Support!Counted
      <4> QED
        BY <2>3, <2>4, <4>1
    <3> QED
      BY <3>1, <3>2
  <2>7. /\ ticket' \in [A -> Doc] /\ ticket'[t] = doc /\ \A o \in A \ {t} : ticket'[o] = ticket[o]
    BY <1>5, <2>2, <2>3, <2>5, <2>6
  <2>8. \A o \in A : SameHands(o) /\ Lasts(o)
    BY <2>6, <2>7
  <2> QED
    BY <1>2, <1>3, <1>7, <2>2, <2>7, <2>8
<1> HIDE DEF Actor
<1> QED
  BY <1>10, <1>11, <1>12, <1>13, <1>14, <1>15, <1>16, <1>17, <1>18 DEF Support!Next, Actor

\* The counters of a ticket nobody has mixed: who is alone in sending knows them, and a
\* message that was stored is not counted before.
LEMMA CountersKept ==
  ASSUME Support!RequestsAreOfTickets, Support!RequestsAreOfTickets', Support!SendersAreAlone, Support!Next
  PROVE  Support!SendersAreAlone'
<1> DEFINE ticket == v1  request == v2  mixed == v3
           Actor == Support!Actors
           Seen == [status : {"NONE", "OPEN", "ASSIGNED"}, unreadAgent : Nat, unreadUser : Nat]
           Doc == [status : {"NONE", "OPEN", "ASSIGNED", "CLOSED"}, agent : B \union {"none"},
                   unreadAgent : Nat, unreadUser : Nat, messages : Nat, answers : Nat, added : BOOLEAN]
           Call == [op : {"idle", "open", "claim", "close", "send", "count"}, of : A \union {"none"},
                    seen : Seen]
           Sends(call, t) == call.op \in {"send", "count"} /\ call.of = t
           Knows(call, doc) == /\ call.seen.unreadUser = doc.unreadUser /\ call.seen.unreadAgent = doc.unreadAgent
                               /\ call.op = "count" => doc.unreadAgent + doc.answers + 1 <= doc.messages
           Counts(doc) == /\ doc.unreadUser <= doc.answers /\ doc.unreadAgent + doc.answers <= doc.messages
                          /\ doc.unreadUser = 0 \/ doc.unreadAgent = 0 \/ doc.added
           Alone(t) == \A x, y \in Actor : Sends(request[x], t) /\ Sends(request[y], t) => x = y
           Known(t) == \A x \in Actor : Sends(request[x], t) => Knows(request[x], ticket[t])
           Sound(t) == t \notin mixed => Alone(t) /\ Known(t) /\ Counts(ticket[t])
<1>1. /\ ticket \in [A -> Doc] /\ request \in [Actor -> Call] /\ B \subseteq Actor /\ D \subseteq Actor
      /\ ticket' \in [A -> Doc] /\ request' \in [Actor -> Call]
  BY DEF Support!RequestsAreOfTickets, Support!Actors
<1>2. \A t \in A : ticket[t] \in Doc /\ ticket'[t] \in Doc
  BY <1>1
<1>3. \A x \in Actor : request[x] \in Call /\ request'[x] \in Call
  BY <1>1
<1> HIDE DEF Doc, Call
<1>4. \A d \in Doc : /\ d.unreadUser \in Nat /\ d.unreadAgent \in Nat /\ d.answers \in Nat /\ d.messages \in Nat
                     /\ d.added \in BOOLEAN
  BY DEF Doc
<1>5. \A t \in A : Sound(t)
  <2>1. ASSUME NEW t \in A, t \notin mixed PROVE Alone(t) /\ Known(t) /\ Counts(ticket[t])
    <3>1. Support!Stored(t) \in {0, 1} /\ ((\E x \in Actor : Sends(request[x], t) /\ request[x].op = "count") => Support!Stored(t) = 1)
      BY DEF Support!Stored, Support!Counting
    <3>2. \A x \in Actor : Sends(request[x], t) => x \in Support!Counting(t)
      BY DEF Support!Counting
    <3>3. /\ \A x, y \in Support!Counting(t) : x = y
          /\ \A x \in Support!Counting(t) : /\ request[x].seen.unreadUser = ticket[t].unreadUser
                                            /\ request[x].seen.unreadAgent = ticket[t].unreadAgent
          /\ ticket[t].unreadUser <= ticket[t].answers
          /\ ticket[t].unreadAgent + ticket[t].answers + Support!Stored(t) <= ticket[t].messages
          /\ ticket[t].unreadUser = 0 \/ ticket[t].unreadAgent = 0 \/ ticket[t].added
      BY <2>1 DEF Support!SendersAreAlone
    <3>4. Counts(ticket[t])
      BY <1>2, <1>4, <3>1, <3>3
    <3>5. ASSUME NEW x \in Actor, Sends(request[x], t) PROVE Knows(request[x], ticket[t])
      BY <1>2, <1>4, <3>1, <3>2, <3>3, <3>5
    <3> QED
      BY <3>2, <3>3, <3>4, <3>5
  <2> QED
    BY <2>1
<1>6. ASSUME \A t \in A : Sound(t)' PROVE Support!SendersAreAlone'
  <2>1. ASSUME NEW t \in A, t \notin mixed'
        PROVE  /\ \A x, y \in Support!Counting(t)' : x = y
               /\ \A x \in Support!Counting(t)' : /\ request'[x].seen.unreadUser = ticket'[t].unreadUser
                                                  /\ request'[x].seen.unreadAgent = ticket'[t].unreadAgent
               /\ ticket'[t].unreadUser <= ticket'[t].answers
               /\ ticket'[t].unreadAgent + ticket'[t].answers + Support!Stored(t)' <= ticket'[t].messages
               /\ ticket'[t].unreadUser = 0 \/ ticket'[t].unreadAgent = 0 \/ ticket'[t].added
    <3>1. Alone(t)' /\ Known(t)' /\ Counts(ticket'[t])
      BY <1>6, <2>1
    <3>2. \A x \in Support!Counting(t)' : x \in Actor /\ Sends(request'[x], t)
      BY DEF Support!Counting
    <3>3. ticket'[t].unreadAgent + ticket'[t].answers + Support!Stored(t)' <= ticket'[t].messages
      <4>1. CASE \E x \in Support!Counting(t)' : request'[x].op = "count"
        <5>1. Support!Stored(t)' = 1
          BY <4>1 DEF Support!Stored
        <5> QED
          BY <1>2, <1>4, <3>1, <3>2, <4>1, <5>1
      <4>2. CASE ~ \E x \in Support!Counting(t)' : request'[x].op = "count"
        <5>1. Support!Stored(t)' = 0
          BY <4>2 DEF Support!Stored
        <5> QED
          BY <1>2, <1>4, <3>1, <5>1
      <4> QED
        BY <4>1, <4>2
    <3> QED
      BY <3>1, <3>2, <3>3
  <2> QED
    BY <2>1 DEF Support!SendersAreAlone
<1> HIDE DEF Actor
\* A ticket that is not written to and that nobody new sends to.
<1>7. ASSUME NEW t \in A, mixed \subseteq mixed',
             /\ ticket'[t].unreadUser = ticket[t].unreadUser /\ ticket'[t].unreadAgent = ticket[t].unreadAgent
             /\ ticket'[t].answers = ticket[t].answers /\ ticket'[t].messages = ticket[t].messages
             /\ ticket'[t].added = ticket[t].added,
             \A x \in Actor : Sends(request'[x], t) => request'[x] = request[x]
      PROVE  Sound(t)'
  <2>1. ASSUME t \notin mixed' PROVE Alone(t)' /\ Known(t)' /\ Counts(ticket'[t])
    <3>1. Alone(t) /\ Known(t) /\ Counts(ticket[t])
      BY <1>5, <1>7, <2>1
    <3>2. Alone(t)'
      BY <1>7, <3>1
    <3>3. ASSUME NEW x \in Actor, Sends(request'[x], t) PROVE Knows(request'[x], ticket'[t])
      <4>1. request'[x] = request[x] /\ Knows(request[x], ticket[t])
        BY <1>7, <3>1, <3>3
      <4> QED
        BY <1>7, <4>1
    <3>4. Counts(ticket'[t])
      BY <1>7, <3>1
    <3> QED
      BY <3>2, <3>3, <3>4
  <2> QED
    BY <2>1
\* Nobody sends to a ticket.
<1>8. ASSUME NEW t \in A, \A x \in Actor : ~ Sends(request'[x], t), Counts(ticket'[t]) PROVE Sound(t)'
  BY <1>8
<1>9. ASSUME NEW x \in Actor, Support!Done(x)
      PROVE  /\ \A t \in A : ~ Sends(request'[x], t)
             /\ \A y \in Actor \ {x} : request'[y] = request[y]
  <2>1. request'[x] = Support!Idle /\ \A y \in Actor \ {x} : request'[y] = request[y]
    BY <1>1, <1>9 DEF Support!Done
  <2> QED
    BY <2>1 DEF Support!Idle
<1>10. ASSUME NEW d \in D, Support!NoActive(d) PROVE Support!SendersAreAlone'
  <2>1. request' = [request EXCEPT ![d].op = "open"] /\ UNCHANGED <<ticket, mixed>>
    BY <1>10 DEF Support!NoActive
  <2>2. request'[d].op = "open" /\ \A y \in Actor \ {d} : request'[y] = request[y]
    BY <1>1, <1>3, <2>1 DEF Call
  <2> QED
    BY <1>6, <1>7, <2>1, <2>2
<1>11. ASSUME NEW d \in D, NEW t \in A, Support!CreateTicket(d, t) PROVE Support!SendersAreAlone'
  <2>1. PICK doc : doc = [Support!Absent EXCEPT !.status = "OPEN", !.unreadAgent = 1, !.messages = 1]
    OBVIOUS
  <2>2. /\ ticket[t] = Support!Absent /\ Support!Done(d) /\ ticket' = [ticket EXCEPT ![t] = doc]
        /\ UNCHANGED mixed
    BY <1>11, <2>1 DEF Support!CreateTicket
  <2>3. Counts(doc) /\ Support!Absent.status = "NONE"
    BY <2>1 DEF Support!Absent
  <2>4. ticket'[t] = doc /\ \A o \in A \ {t} : ticket'[o] = ticket[o]
    BY <1>1, <2>2
  <2>5. \A x \in Actor : ~ Sends(request[x], t)
    BY <2>2, <2>3 DEF Support!RequestsAreOfTickets, Actor
  <2>6. Sound(t)'
    BY <1>1, <1>8, <1>9, <2>2, <2>3, <2>4, <2>5
  <2>7. \A o \in A \ {t} : Sound(o)'
    BY <1>1, <1>7, <1>9, <2>2, <2>4
  <2> QED
    BY <1>6, <2>6, <2>7
<1>12. ASSUME NEW d \in D, NEW t \in A, Support!AddToActive(d, t) PROVE Support!SendersAreAlone'
  <2>1. /\ ticket' = [ticket EXCEPT ![t].unreadAgent = @ + 1, ![t].messages = @ + 1, ![t].added = TRUE]
        /\ mixed' = (IF Support!Counting(t) # {} THEN mixed \union {t} ELSE mixed)
        /\ UNCHANGED request
    BY <1>12 DEF Support!AddToActive
  <2>2. PICK doc : doc = [ticket[t] EXCEPT !.unreadAgent = ticket[t].unreadAgent + 1,
                                           !.messages = ticket[t].messages + 1, !.added = TRUE]
    OBVIOUS
  <2>3. /\ doc.unreadAgent = ticket[t].unreadAgent + 1 /\ doc.messages = ticket[t].messages + 1 /\ doc.added = TRUE
        /\ doc.unreadUser = ticket[t].unreadUser /\ doc.answers = ticket[t].answers
    BY <1>2, <2>2 DEF Doc
  <2>4. ticket'[t] = doc /\ \A o \in A \ {t} : ticket'[o] = ticket[o]
    BY <1>1, <1>2, <2>1, <2>2 DEF Doc
  <2>5. \A o \in A \ {t} : Sound(o)'
    BY <1>7, <2>1, <2>4
  <2>6. Sound(t)'
    <3>1. CASE Support!Counting(t) # {}
      BY <2>1, <3>1
    <3>2. CASE Support!Counting(t) = {}
      <4>1. \A x \in Actor : ~ Sends(request'[x], t)
        BY <2>1, <3>2 DEF Support!Counting, Actor
      <4>2. CASE t \in mixed
        BY <2>1, <4>2
      <4>3. CASE t \notin mixed
        <5>1. Counts(ticket[t])
          BY <1>5, <4>3
        <5>2. Counts(ticket'[t])
          BY <1>2, <1>4, <2>3, <2>4, <5>1
        <5> QED
          BY <1>8, <4>1, <5>2
      <4> QED
        BY <4>2, <4>3
    <3> QED
      BY <3>1, <3>2
  <2> QED
    BY <1>6, <2>5, <2>6
<1>13. ASSUME NEW x \in Actor, NEW t \in A,
              \/ Support!Set(x, "claim", t) /\ UNCHANGED <<ticket, mixed>>
              \/ Support!Set(x, "close", t) /\ UNCHANGED <<ticket, mixed>>
       PROVE  Support!SendersAreAlone'
  <2>1. request'[x].op \in {"claim", "close"} /\ \A y \in Actor \ {x} : request'[y] = request[y]
    BY <1>1, <1>13 DEF Support!Set
  <2> QED
    BY <1>6, <1>7, <1>13, <2>1
<1>14. ASSUME NEW x \in Actor, NEW t \in A, Support!StartSend(x, t) PROVE Support!SendersAreAlone'
  <2>1. /\ Support!Set(x, "send", t) /\ UNCHANGED ticket
        /\ mixed' = IF Support!Counting(t) # {} THEN mixed \union {t} ELSE mixed
    BY <1>14 DEF Support!StartSend
  <2>2. /\ request'[x] = [op |-> "send", of |-> t, seen |->
              [status |-> ticket[t].status, unreadAgent |-> ticket[t].unreadAgent, unreadUser |-> ticket[t].unreadUser]]
        /\ \A y \in Actor \ {x} : request'[y] = request[y]
    BY <1>1, <2>1 DEF Support!Set
  <2>3. /\ request'[x].op = "send" /\ request'[x].of = t
        /\ request'[x].seen.unreadUser = ticket[t].unreadUser /\ request'[x].seen.unreadAgent = ticket[t].unreadAgent
    BY <2>2
  <2>4. \A o \in A \ {t} : Sound(o)'
    BY <1>7, <2>1, <2>2, <2>3
  <2>5. ASSUME t \notin mixed' PROVE Alone(t)' /\ Known(t)' /\ Counts(ticket'[t])
    <3>1. Support!Counting(t) = {} /\ t \notin mixed
      BY <2>1, <2>5
    <3>2. \A y \in Actor \ {x} : ~ Sends(request'[y], t)
      BY <2>2, <3>1 DEF Support!Counting, Actor
    <3>3. Known(t)'
      BY <2>1, <2>3, <3>2
    <3>4. Counts(ticket'[t])
      BY <1>5, <2>1, <3>1
    <3> QED
      BY <3>2, <3>3, <3>4
  <2> QED
    BY <1>6, <2>4, <2>5
<1>15. ASSUME NEW x \in Actor, NEW t \in A, NEW doc, Support!Done(x), ticket' = [ticket EXCEPT ![t] = doc], UNCHANGED mixed,
              /\ doc.unreadUser = ticket[t].unreadUser /\ doc.unreadAgent = ticket[t].unreadAgent
              /\ doc.answers = ticket[t].answers /\ doc.messages = ticket[t].messages
              /\ doc.added = ticket[t].added
       PROVE  Support!SendersAreAlone'
  <2>1. ticket'[t] = doc /\ \A o \in A \ {t} : ticket'[o] = ticket[o]
    BY <1>1, <1>15
  <2>2. \A o \in A : Sound(o)'
    BY <1>7, <1>9, <1>15, <2>1
  <2> QED
    BY <1>6, <2>2
<1>16. ASSUME NEW a \in B, Support!Claim(a) PROVE Support!SendersAreAlone'
  <2>1. PICK t : t = request[a].of
    OBVIOUS
  <2>2. PICK doc : doc = [ticket[t] EXCEPT !.status = "ASSIGNED", !.agent = a]
    OBVIOUS
  <2>3. /\ request[a].op = "claim" /\ Support!Done(a) /\ UNCHANGED mixed /\ ticket' = [ticket EXCEPT ![t] = doc]
    BY <1>16, <2>1, <2>2 DEF Support!Claim
  <2>4. t \in A
    BY <1>1, <2>1, <2>3 DEF Support!RequestsAreOfTickets, Actor
  <2>5. /\ doc.unreadUser = ticket[t].unreadUser /\ doc.unreadAgent = ticket[t].unreadAgent
        /\ doc.answers = ticket[t].answers /\ doc.messages = ticket[t].messages /\ doc.added = ticket[t].added
    BY <1>2, <2>2, <2>4 DEF Doc
  <2> QED
    BY <1>1, <1>15, <2>3, <2>4, <2>5
<1>17. ASSUME NEW x \in Actor, Support!Close(x) PROVE Support!SendersAreAlone'
  <2>1. PICK t : t = request[x].of
    OBVIOUS
  <2>2. PICK doc : doc = [ticket[t] EXCEPT !.status = "CLOSED"]
    OBVIOUS
  <2>3. request[x].op = "close" /\ Support!Done(x) /\ UNCHANGED mixed /\ ticket' = [ticket EXCEPT ![t].status = "CLOSED"]
    BY <1>17, <2>1 DEF Support!Close
  <2>4. t \in A /\ ticket' = [ticket EXCEPT ![t] = doc]
    BY <1>1, <2>1, <2>2, <2>3 DEF Support!RequestsAreOfTickets, Actor
  <2>5. /\ doc.unreadUser = ticket[t].unreadUser /\ doc.unreadAgent = ticket[t].unreadAgent
        /\ doc.answers = ticket[t].answers /\ doc.messages = ticket[t].messages /\ doc.added = ticket[t].added
    BY <1>2, <2>2, <2>4 DEF Doc
  <2> QED
    BY <1>15, <2>3, <2>4, <2>5
<1>18. ASSUME NEW x \in Actor, Support!StoreMessage(x) PROVE Support!SendersAreAlone'
  <2>1. PICK t : t = request[x].of
    OBVIOUS
  <2>2. PICK doc : doc = [ticket[t] EXCEPT !.messages = ticket[t].messages + 1]
    OBVIOUS
  <2>3. PICK call : call = [request[x] EXCEPT !.op = "count"]
    OBVIOUS
  <2>4. /\ request[x].op = "send" /\ request' = [request EXCEPT ![x].op = "count"] /\ UNCHANGED mixed
        /\ ticket' = [ticket EXCEPT ![t].messages = ticket[t].messages + 1]
    BY <1>18, <2>1 DEF Support!StoreMessage
  <2>5. t \in A
    BY <2>1, <2>4 DEF Support!RequestsAreOfTickets, Actor
  <2>6. /\ request'[x] = call /\ \A y \in Actor \ {x} : request'[y] = request[y]
        /\ ticket'[t] = doc /\ \A o \in A \ {t} : ticket'[o] = ticket[o]
    BY <1>1, <2>2, <2>3, <2>4, <2>5
  <2>7. /\ doc.unreadUser = ticket[t].unreadUser /\ doc.unreadAgent = ticket[t].unreadAgent
        /\ doc.answers = ticket[t].answers /\ doc.messages = ticket[t].messages + 1 /\ doc.added = ticket[t].added
    BY <1>2, <2>2, <2>5 DEF Doc
  <2>8. call.op = "count" /\ call.of = t /\ call.seen = request[x].seen
    BY <1>3, <2>1, <2>3 DEF Call
  <2>9. \A o \in A \ {t} : Sound(o)'
    <3>1. ASSUME NEW o \in A \ {t}, NEW y \in Actor, Sends(request'[y], o) PROVE request'[y] = request[y]
      BY <2>6, <2>8, <3>1
    <3>2. ASSUME NEW o \in A \ {t} PROVE Sound(o)'
      BY <1>7, <2>4, <2>6, <3>1
    <3> QED
      BY <3>2
  <2>10. ASSUME t \notin mixed' PROVE Alone(t)' /\ Known(t)' /\ Counts(ticket'[t])
    <3>1. Alone(t) /\ Known(t) /\ Counts(ticket[t]) /\ Sends(request[x], t)
      BY <1>5, <2>1, <2>4, <2>5, <2>10
    <3>2. \A y \in Actor \ {x} : ~ Sends(request'[y], t)
      BY <2>6, <3>1
    <3>3. Counts(ticket'[t])
      BY <1>2, <1>4, <2>5, <2>6, <2>7, <3>1
    <3>4. Knows(call, doc)
      BY <1>2, <1>4, <2>5, <2>7, <2>8, <3>1
    <3>5. Known(t)'
      BY <2>6, <3>2, <3>4
    <3> QED
      BY <3>2, <3>3, <3>5
  <2> QED
    BY <1>6, <2>9, <2>10
<1>19. ASSUME NEW x \in Actor, Support!Count(x) PROVE Support!SendersAreAlone'
  <2>1. PICK t : t = request[x].of
    OBVIOUS
  <2>2. PICK doc : doc = Support!Counted(x, t)
    OBVIOUS
  <2>3. /\ request[x].op = "count" /\ Support!Done(x) /\ UNCHANGED mixed /\ ticket' = [ticket EXCEPT ![t] = doc]
    BY <1>19, <2>1, <2>2 DEF Support!Count
  <2>4. t \in A
    BY <2>1, <2>3 DEF Support!RequestsAreOfTickets, Actor
  <2>5. ticket'[t] = doc /\ \A o \in A \ {t} : ticket'[o] = ticket[o]
    BY <1>1, <2>3, <2>4
  <2>6. \A o \in A \ {t} : Sound(o)'
    BY <1>7, <1>9, <2>3, <2>5
  <2>7. ASSUME t \notin mixed PROVE Sound(t)'
    <3>1. Alone(t) /\ Knows(request[x], ticket[t]) /\ Counts(ticket[t]) /\ Sends(request[x], t)
      BY <1>5, <2>1, <2>3, <2>4, <2>7
    <3>2. \A y \in Actor : ~ Sends(request'[y], t)
      BY <1>9, <2>3, <2>4, <3>1
    <3>3. Counts(doc)
      <4>1. CASE x \in B
        <5>1. doc = [ticket[t] EXCEPT !.unreadUser = request[x].seen.unreadUser + 1, !.unreadAgent = 0,
                                      !.answers = ticket[t].answers + 1, !.added = FALSE]
          BY <2>2, <4>1 DEF Support!Counted
        <5>2. /\ doc.unreadUser = ticket[t].unreadUser + 1 /\ doc.unreadAgent = 0
              /\ doc.answers = ticket[t].answers + 1 /\ doc.messages = ticket[t].messages
          BY <1>2, <2>4, <3>1, <5>1 DEF Doc
        <5> QED
          BY <1>2, <1>4, <2>3, <2>4, <3>1, <5>2
      <4>2. CASE x \notin B
        <5>1. doc = [ticket[t] EXCEPT !.unreadAgent = request[x].seen.unreadAgent + 1, !.unreadUser = 0, !.added = FALSE]
          BY <2>2, <4>2 DEF Support!Counted
        <5>2. /\ doc.unreadUser = 0 /\ doc.unreadAgent = ticket[t].unreadAgent + 1
              /\ doc.answers = ticket[t].answers /\ doc.messages = ticket[t].messages
          BY <1>2, <2>4, <3>1, <5>1 DEF Doc
        <5> QED
          BY <1>2, <1>4, <2>3, <2>4, <3>1, <5>2
      <4> QED
        BY <4>1, <4>2
    <3> QED
      BY <1>8, <2>4, <2>5, <3>2, <3>3
  <2> QED
    BY <1>6, <2>3, <2>6, <2>7
<1>20. ASSUME NEW x \in Actor, NEW t \in A, Support!StartClaim(x, t) \/ Support!StartClose(x, t)
       PROVE  Support!SendersAreAlone'
  BY <1>13, <1>20 DEF Support!StartClaim, Support!StartClose
<1> QED
  <2>1. \A a \in B : a \in Actor
    BY <1>1
  <2> QED
    BY <2>1, <1>10, <1>11, <1>12, <1>14, <1>16, <1>17, <1>18, <1>19, <1>20 DEF Support!Next, Actor

\* Both.
LEMMA SupportKept ==
  ASSUME Support!IInv, Support!Next
  PROVE  Support!IInv' /\ Support!LateClaimIfTakenOver
BY RequestsKept, CountersKept DEF Support!IInv

\* Who sends nothing has nothing to count.
LEMMA SupportReadsTrue == Support!IInv => Support!UnreadAreSent
<1> SUFFICES ASSUME Support!IInv, NEW t \in A, t \notin v3, Support!Counting(t) = {}
             PROVE  /\ v1[t].unreadUser <= v1[t].answers
                    /\ v1[t].unreadAgent <= v1[t].messages - v1[t].answers
                    /\ v1[t].unreadUser = 0 \/ v1[t].unreadAgent = 0 \/ v1[t].added
  BY DEF Support!UnreadAreSent
<1> DEFINE Doc == [status : {"NONE", "OPEN", "ASSIGNED", "CLOSED"}, agent : B \union {"none"},
                   unreadAgent : Nat, unreadUser : Nat, messages : Nat, answers : Nat, added : BOOLEAN]
<1>1. v1[t] \in Doc /\ Support!SendersAreAlone
  BY DEF Support!IInv, Support!RequestsAreOfTickets
<1>2. v1[t].unreadAgent \in Nat /\ v1[t].answers \in Nat /\ v1[t].messages \in Nat
  BY <1>1
<1>3. Support!Stored(t) = 0
  BY DEF Support!Stored
<1> QED
  BY <1>1, <1>2, <1>3 DEF Support!SendersAreAlone

\* Nothing was charged.
LEMMA StatementsAtFirst == Statements!Init => Statements!IInv
BY DEF Statements!Init, Statements!IInv, Statements!RepairsLookFirst, Statements!BookedAsCharged,
   Statements!RowsAreFreed, Statements!Idle, Statements!Booked, Statements!Granted, Statements!Bought

\* Charges, bookings, grants, the repair and its failures, and restarts.
LEMMA StatementsKept ==
  ASSUME Statements!IInv, Statements!Next
  PROVE  Statements!IInv' /\ Statements!LateSyncIfFreed
<1> DEFINE row == v1  statement == v2  booking == v3  given == v4  sync == v5  late == v6
           cut == v7  held == v8
           Sources == Statements!Sources
           Booked == Statements!Booked
           Booking == [step : {"idle", "look up", "create"}, as : Booked]
<1> USE DEF Statements!Granted, Statements!Bought
<1>1. /\ row \in [Sources -> Booked] /\ statement \in [Sources -> Booked]
      /\ booking \in [Sources -> Booking]
      /\ late => "purchase" \in given
      /\ sync = "check" => "grant" \in given
      /\ sync = "rows" => "grant" \in given /\ ("purchase" \notin given \/ late)
      /\ sync = "statements" => /\ "grant" \in given /\ ("purchase" \notin given \/ late)
                                /\ ~late => \A s \in Sources : row[s] # "paid"
  BY DEF Statements!IInv, Statements!RepairsLookFirst, Statements!RowsAreFreed
<1>2. \A s \in Sources :
        /\ row[s] = "none" => statement[s] = "none" /\ booking[s] = Statements!Idle
        /\ s \notin held /\ ~late /\ ~cut =>
              /\ booking[s].step = "create" => booking[s].as = row[s]
              /\ sync # "statements" => statement[s] \in {"none", row[s]}
  BY DEF Statements!IInv, Statements!BookedAsCharged
<1>3. Statements!Idle \in Booking /\ Statements!Idle.step = "idle"
  BY DEF Statements!Idle, Statements!Booked
\* A charge, or its booking: nothing of the repair or of what was bought.
<1>4. ASSUME NEW s \in Sources, NEW charge \in Booked, NEW shown \in Booked, NEW to \in Booking,
             row' = [row EXCEPT ![s] = charge], statement' = [statement EXCEPT ![s] = shown],
             booking' = [booking EXCEPT ![s] = to], UNCHANGED <<given, sync, late, cut, held>>,
             charge # "none", row[s] \in {"none", charge},
             sync = "statements" /\ ~late => charge # "paid",
             s \notin held /\ ~late /\ ~cut =>
                /\ to.step = "create" => to.as = charge
                /\ sync # "statements" => shown \in {"none", charge}
      PROVE  Statements!IInv' /\ Statements!LateSyncIfFreed
  <2>1. /\ row' \in [Sources -> Booked] /\ statement' \in [Sources -> Booked]
        /\ booking' \in [Sources -> Booking]
        /\ row'[s] = charge /\ statement'[s] = shown /\ booking'[s] = to
        /\ \A o \in Sources \ {s} : row'[o] = row[o] /\ statement'[o] = statement[o] /\ booking'[o] = booking[o]
    BY <1>1, <1>4
  <2>2. Statements!BookedAsCharged'
    <3>1. ASSUME NEW o \in Sources
          PROVE  /\ row'[o] = "none" => statement'[o] = "none" /\ booking'[o] = Statements!Idle
                 /\ o \notin held /\ ~late /\ ~cut =>
                       /\ booking'[o].step = "create" => booking'[o].as = row'[o]
                       /\ sync # "statements" => statement'[o] \in {"none", row'[o]}
      <4>1. CASE o = s
        <5>1. row'[o] # "none" /\ row'[o] = charge /\ statement'[o] = shown /\ booking'[o] = to
          BY <1>4, <2>1, <4>1
        <5>2. s \notin held /\ ~late /\ ~cut => (to.step = "create" => to.as = charge)
          BY <1>4
        <5>3. s \notin held /\ ~late /\ ~cut => (sync # "statements" => shown \in {"none", charge})
          BY <1>4
        <5> HIDE DEF Booking, Booked
        <5> QED
          BY <4>1, <5>1, <5>2, <5>3
      <4>2. CASE o # s
        BY <1>2, <2>1, <4>2
      <4> QED
        BY <4>1, <4>2
    <3> QED
      BY <1>4, <3>1 DEF Statements!BookedAsCharged
  <2>3. Statements!RepairsLookFirst' /\ Statements!RowsAreFreed'
    BY <1>1, <1>4, <2>1 DEF Statements!RepairsLookFirst, Statements!RowsAreFreed
  <2>4. Statements!LateSyncIfFreed
    BY <1>4, <2>1 DEF Statements!LateSyncIfFreed
  <2> QED
    BY <1>1, <1>4, <2>1, <2>2, <2>3, <2>4 DEF Statements!IInv
<1>5. ASSUME NEW s \in Sources, Statements!Charge(s)
      PROVE  Statements!IInv' /\ Statements!LateSyncIfFreed
  <2>1. PICK charge \in Statements!Charges :
           /\ row' = [row EXCEPT ![s] = charge]
           /\ booking' = [booking EXCEPT ![s] =
                 IF s \in Messages THEN [step |-> "create", as |-> charge]
                                   ELSE [step |-> "look up", as |-> "none"]]
    BY <1>5 DEF Statements!Charge
  <2>2. row[s] = "none" /\ UNCHANGED <<statement, given, sync, late, cut, held>>
    BY <1>5 DEF Statements!Charge
  <2>3. /\ charge \in {"free", "paid"} /\ charge \in Booked
        /\ "grant" \in given /\ "purchase" \notin given => charge = "free"
    BY <2>1 DEF Statements!Charges, Statements!Booked
  <2>4. PICK to : to = IF s \in Messages THEN [step |-> "create", as |-> charge]
                                         ELSE [step |-> "look up", as |-> "none"]
    OBVIOUS
  <2>5. to \in Booking /\ (to.step = "create" => to.as = charge)
    BY <2>3, <2>4 DEF Statements!Booked
  <2>6. statement[s] = "none" /\ "none" \in Booked /\ statement' = [statement EXCEPT ![s] = "none"]
    BY <1>1, <1>2, <2>2 DEF Statements!Booked
  <2> QED
    BY <1>1, <1>4, <2>1, <2>2, <2>3, <2>4, <2>5, <2>6
<1>6. ASSUME NEW s \in Sources,
             Statements!LookUp(s) \/ Statements!Create(s) \/ Statements!BookingFails(s)
      PROVE  Statements!IInv' /\ Statements!LateSyncIfFreed
  <2>1. UNCHANGED <<row, given, sync, late, cut, held>>
    BY <1>6 DEF Statements!LookUp, Statements!Create, Statements!BookingFails
  <2>2. booking[s].step # "idle"
    BY <1>6 DEF Statements!LookUp, Statements!Create, Statements!BookingFails
  <2>3. row[s] \in Booked /\ row[s] # "none" /\ row' = [row EXCEPT ![s] = row[s]]
    BY <1>1, <1>2, <1>3, <2>1, <2>2
  <2>4. sync = "statements" /\ ~late => row[s] # "paid"
    BY <1>1
  <2>5. CASE Statements!LookUp(s)
    <3>1. booking' = [booking EXCEPT ![s] = [step |-> "create", as |-> row[s]]] /\ UNCHANGED statement
      BY <2>5 DEF Statements!LookUp
    <3>2. [step |-> "create", as |-> row[s]] \in Booking
      BY <2>3
    <3>3. statement[s] \in Booked /\ statement' = [statement EXCEPT ![s] = statement[s]]
      BY <1>1, <3>1
    <3>4. /\ [step |-> "create", as |-> row[s]].as = row[s]
          /\ s \notin held /\ ~late /\ ~cut /\ sync # "statements" => statement[s] \in {"none", row[s]}
      BY <1>2
    <3> HIDE DEF Booking
    <3> QED
      BY <1>4, <2>1, <2>3, <2>4, <3>1, <3>2, <3>3, <3>4
  <2>6. CASE Statements!Create(s)
    <3>1. /\ booking[s].step = "create" /\ booking' = [booking EXCEPT ![s] = Statements!Idle]
          /\ statement' = [statement EXCEPT ![s] = booking[s].as]
      BY <2>6 DEF Statements!Create
    <3>2. booking[s].as \in Booked
      BY <1>1
    <3> QED
      BY <1>2, <1>3, <1>4, <2>1, <2>3, <2>4, <3>1, <3>2
  <2>7. CASE Statements!BookingFails(s)
    <3>1. booking' = [booking EXCEPT ![s] = Statements!Idle] /\ UNCHANGED statement
      BY <2>7 DEF Statements!BookingFails
    <3>2. statement[s] \in Booked /\ statement' = [statement EXCEPT ![s] = statement[s]]
      BY <1>1, <3>1
    <3> QED
      BY <1>2, <1>3, <1>4, <2>1, <2>3, <2>4, <3>1, <3>2
  <2> QED
    BY <1>6, <2>5, <2>6, <2>7
\* A grant, a purchase, or a step of the repair that changes no row.
<1>7. CASE Statements!Grant \/ Statements!Purchase
  <2>1. UNCHANGED <<row, statement, booking, sync, cut, held>>
    BY <1>7 DEF Statements!Grant, Statements!Purchase
  <2>2. \/ given' = given \union {"grant"} /\ late' = late
        \/ /\ given' = given \union {"purchase"} /\ late' = (sync \in {"rows", "statements"})
           /\ "purchase" \notin given
    BY <1>7 DEF Statements!Grant, Statements!Purchase
  <2>3. late => late' \/ "purchase" \notin given
    BY <2>2
  <2>4. Statements!BookedAsCharged'
    BY <1>1, <1>2, <2>1, <2>3 DEF Statements!BookedAsCharged
  <2>5. Statements!RepairsLookFirst' /\ Statements!RowsAreFreed'
    BY <1>1, <2>1, <2>2 DEF Statements!RepairsLookFirst, Statements!RowsAreFreed
  <2>6. late' => "purchase" \in given'
    BY <1>1, <2>2
  <2>7. sync' = "check" => "grant" \in given'
    BY <1>1, <2>1, <2>2
  <2>8. Statements!LateSyncIfFreed
    BY <2>1 DEF Statements!LateSyncIfFreed
  <2> QED
    BY <1>1, <2>1, <2>4, <2>5, <2>6, <2>7, <2>8 DEF Statements!IInv
<1>8. CASE Statements!SyncFinds \/ Statements!SyncChecks \/ Statements!SyncFails
  <2>1. UNCHANGED <<row, statement, booking, given, late, held>>
    BY <1>8 DEF Statements!SyncFinds, Statements!SyncChecks, Statements!SyncFails
  <2>2. /\ sync' \in {"check", "rows", "done"}
        /\ sync' = "check" => "grant" \in given
        /\ sync' = "rows" => sync = "check" /\ "purchase" \notin given
    BY <1>8 DEF Statements!SyncFinds, Statements!SyncChecks, Statements!SyncFails, Statements!NeverBought
  <2>3. (cut \/ sync = "statements") => cut'
    BY <1>8 DEF Statements!SyncFinds, Statements!SyncChecks, Statements!SyncFails
  <2>4. Statements!BookedAsCharged'
    BY <1>2, <2>1, <2>3 DEF Statements!BookedAsCharged
  <2>5. Statements!RepairsLookFirst' /\ Statements!RowsAreFreed'
    BY <1>1, <2>1, <2>2 DEF Statements!RepairsLookFirst, Statements!RowsAreFreed
  <2> QED
    BY <1>1, <2>1, <2>2, <2>4, <2>5 DEF Statements!IInv, Statements!LateSyncIfFreed
<1>9. CASE Statements!SyncRows
  <2>1. /\ sync = "rows" /\ sync' = "statements" /\ row' = Statements!Freed(row)
        /\ held' = held \union {s \in Sources : booking[s] = [step |-> "create", as |-> "paid"]}
        /\ UNCHANGED <<statement, booking, given, late, cut>>
    BY <1>9 DEF Statements!SyncRows
  <2>2. /\ row' \in [Sources -> Booked]
        /\ \A s \in Sources : row'[s] = IF row[s] = "none" THEN "none" ELSE "free"
    BY <2>1 DEF Statements!Freed, Statements!Booked
  <2>3. \A s \in Sources : s \notin held' => s \notin held /\ booking[s] # [step |-> "create", as |-> "paid"]
    BY <2>1
  <2>4. ASSUME NEW s \in Sources, s \notin held', ~late, ~cut, booking[s].step = "create"
        PROVE  booking[s].as = row'[s]
    <3>1. booking[s].as = row[s] /\ row[s] # "none" /\ row[s] \in {"none", "paid", "free"}
      BY <1>1, <1>2, <1>3, <2>3, <2>4 DEF Statements!Booked
    <3>2. booking[s] = [step |-> booking[s].step, as |-> booking[s].as]
      BY <1>1
    <3>3. row[s] # "paid"
      BY <2>3, <2>4, <3>1, <3>2
    <3> QED
      BY <2>2, <3>1, <3>3
  <2>5. Statements!BookedAsCharged'
    BY <1>2, <2>1, <2>2, <2>4 DEF Statements!BookedAsCharged
  <2>6. Statements!RepairsLookFirst' /\ Statements!RowsAreFreed'
    BY <1>1, <2>1, <2>2 DEF Statements!RepairsLookFirst, Statements!RowsAreFreed
  <2>7. Statements!LateSyncIfFreed
    BY <1>1, <2>1 DEF Statements!LateSyncIfFreed
  <2> QED
    BY <1>1, <2>1, <2>2, <2>5, <2>6, <2>7 DEF Statements!IInv
<1>10. CASE Statements!SyncStatements
  <2>1. /\ sync = "statements" /\ sync' = "done" /\ statement' = Statements!Freed(statement)
        /\ UNCHANGED <<row, booking, given, late, cut, held>>
    BY <1>10 DEF Statements!SyncStatements, Statements!FreedStatements
  <2>2. /\ statement' \in [Sources -> Booked]
        /\ \A s \in Sources : statement'[s] = IF statement[s] = "none" THEN "none" ELSE "free"
    BY <2>1 DEF Statements!Freed, Statements!Booked
  <2>3. \A s \in Sources : row[s] \in {"none", "paid", "free"}
    BY <1>1 DEF Statements!Booked
  <2>4. Statements!BookedAsCharged'
    BY <1>1, <1>2, <2>1, <2>2, <2>3 DEF Statements!BookedAsCharged
  <2>5. Statements!RepairsLookFirst' /\ Statements!RowsAreFreed'
    BY <2>1 DEF Statements!RepairsLookFirst, Statements!RowsAreFreed
  <2> QED
    BY <1>1, <2>1, <2>2, <2>4, <2>5 DEF Statements!IInv, Statements!LateSyncIfFreed
<1>11. CASE Statements!Restart
  <2>1. /\ booking' = [s \in Sources |-> Statements!Idle] /\ sync' = "find"
        /\ (cut \/ sync = "statements") => cut'
        /\ UNCHANGED <<row, statement, given, late, held>>
    BY <1>11 DEF Statements!Restart
  <2>2. booking' \in [Sources -> Booking] /\ \A s \in Sources : booking'[s] = Statements!Idle
    BY <1>3, <2>1
  <2>3. Statements!BookedAsCharged'
    BY <1>2, <1>3, <2>1, <2>2 DEF Statements!BookedAsCharged
  <2>4. Statements!RepairsLookFirst' /\ Statements!RowsAreFreed'
    BY <2>1 DEF Statements!RepairsLookFirst, Statements!RowsAreFreed
  <2> QED
    BY <1>1, <2>1, <2>2, <2>3, <2>4 DEF Statements!IInv, Statements!LateSyncIfFreed
<1> QED
  BY <1>5, <1>6, <1>7, <1>8, <1>9, <1>10, <1>11 DEF Statements!Next, Statements!Sync

\* What is stated agrees with the ledger.
LEMMA StatementsFollow == Statements!IInv => Statements!StatementsFollowLedger
BY DEF Statements!IInv, Statements!BookedAsCharged, Statements!StatementsFollowLedger, Statements!Statements

\* What a viewer is shown, may open and finds counted are the same statements, but for
\* staff without a station.
LEMMA StatementsAgree == Statements!StatementsAssumption /\ Statements!IInv => Statements!ReportsAgree
<1> SUFFICES ASSUME Statements!StatementsAssumption, Statements!IInv,
                    NEW v \in Books.viewers, NEW station \in Statements!Stations \cup {"any"}
             PROVE  LET listed == Statements!Listed(v, station)
                        kpis   == Statements!Kpis(v, station) IN
                    /\ IF v.role \in Statements!StaffRoles /\ ~Statements!HasStation(v)
                       THEN listed = Statements!Statements /\ \A s \in listed : ~Statements!MayOpen(v, s)
                       ELSE /\ \A s \in listed : Statements!MayOpen(v, s)
                            /\ station = "any" => listed = {s \in Statements!Statements : Statements!MayOpen(v, s)}
                    /\ listed \subseteq Statements!Exported(v)
                    /\ kpis.messages + kpis.calls = Statements!Cardinality(listed)
                    /\ ~v6 /\ ~v7 /\ v5 # "statements" =>
                           \/ kpis.revenue = Statements!Cardinality({s \in listed : v1[s] = "paid"})
                           \/ listed \cap v8 # {}
  BY DEF Statements!ReportsAgree
<1> DEFINE listed == Statements!Listed(v, station)
           unplaced == v.role \in Statements!StaffRoles /\ ~Statements!HasStation(v)
<1>1. ~unplaced => \A s : Statements!InScope(v, s) <=> Statements!MayOpen(v, s)
  BY DEF Statements!InScope, Statements!MayOpen, Statements!StaffRoles
<1>2. \A s : s \in listed <=> s \in Statements!Statements /\ Statements!Asked(v, station, s)
  BY DEF Statements!Listed
\* The id of who has no station is no station's, so he may name none either.
<1>10. ASSUME unplaced PROVE listed = Statements!Statements /\ \A s \in listed : ~Statements!MayOpen(v, s)
  <2>1. v.role \in Statements!StaffRoles /\ v.role # "user" /\ v.id = "any" /\ "any" \notin Statements!Stations
    BY <1>10 DEF Statements!HasStation, Statements!StaffRoles, Statements!StatementsAssumption
  <2>2. \A s \in Statements!Statements : Books.stationOf[s] \in Statements!Stations
    BY DEF Statements!StatementsAssumption, Statements!Statements
  <2>3. \A s : Statements!InScope(v, s)
    BY <2>1 DEF Statements!InScope, Statements!HasStation, Statements!StaffRoles
  <2>4. station # "any" => ~Statements!MayName(v, station)
    BY <2>1 DEF Statements!MayName, Statements!StaffRoles
  <2>5. listed = Statements!Statements
    BY <1>2, <2>3, <2>4 DEF Statements!Asked
  <2>6. \A s \in Statements!Statements : ~Statements!MayOpen(v, s)
    BY <2>1, <2>2 DEF Statements!MayOpen
  <2> QED
    BY <2>5, <2>6
<1>3. ~unplaced => \A s \in listed : Statements!MayOpen(v, s)
  BY <1>1, <1>2 DEF Statements!Asked
<1>4. listed \subseteq Statements!Exported(v)
  BY <1>2 DEF Statements!Asked, Statements!Exported
<1>5. ~unplaced /\ station = "any" => listed = {s \in Statements!Statements : Statements!MayOpen(v, s)}
  BY <1>1, <1>2 DEF Statements!Asked
\* Every statement is of a message or of a call.
<1>6. /\ listed \subseteq Statements!Sources /\ IsFiniteSet(Statements!Sources)
      /\ Statements!Sources = Messages \cup AnsweredCalls /\ Messages \cap AnsweredCalls = {}
  BY <1>2, SameOperators DEF Statements!Statements, Statements!StatementsAssumption, Statements!Sources
<1>7. /\ Statements!Kpis(v, station).messages = Statements!Cardinality(listed \cap Messages)
      /\ Statements!Kpis(v, station).calls = Statements!Cardinality(listed \cap AnsweredCalls)
      /\ Statements!Kpis(v, station).revenue = Statements!Cardinality({s \in listed : v2[s] = "paid"})
  BY DEF Statements!Kpis, Statements!Listed
<1> HIDE DEF listed
<1>8. Cardinality(listed \cap Messages) + Cardinality(listed \cap AnsweredCalls) = Cardinality(listed)
  <2> DEFINE sent == listed \cap Messages
             made == listed \cap AnsweredCalls
  <2>1. IsFiniteSet(listed)
    BY <1>6, FS_Subset
  <2>2. IsFiniteSet(sent) /\ IsFiniteSet(made) /\ sent \cap made = {} /\ sent \cup made = listed
    BY <1>6, <2>1, FS_Subset
  <2>3. Cardinality(sent) \in Nat /\ Cardinality(made) \in Nat
    BY <2>2, FS_CardinalityType
  <2> HIDE DEF sent, made
  <2>4. Cardinality(listed) = Cardinality(sent) + Cardinality(made) - Cardinality({})
    BY <2>2, FS_Union
  <2>5. Cardinality(sent) + Cardinality(made) = Cardinality(listed)
    BY <2>3, <2>4, FS_EmptySet
  <2> QED
    BY <2>5 DEF sent, made
\* What is not held is booked as it is charged.
<1>9. ASSUME ~v6, ~v7, v5 # "statements", listed \cap v8 = {}
      PROVE  {s \in listed : v2[s] = "paid"} = {s \in listed : v1[s] = "paid"}
  <2>1. ASSUME NEW s \in listed PROVE v2[s] = v1[s]
    <3>1. s \in Statements!Sources /\ s \notin v8 /\ v2[s] # "none"
      <4>1. s \in Statements!Statements /\ s \notin v8
        BY <1>2, <1>9
      <4> QED
        BY <4>1 DEF Statements!Statements
    <3> QED
      BY <1>9, <3>1 DEF Statements!IInv, Statements!BookedAsCharged
  <2> QED
    BY <2>1
<1> QED
  BY <1>3, <1>4, <1>5, <1>7, <1>8, <1>9, <1>10, SameOperators DEF listed

-----------------------------------------------------------------------------
(* Thread.                                                                    *)

\* The largest of some numbers is one of them.
LEMMA LargestIsThere ==
  ASSUME NEW n \in Nat, NEW S \in SUBSET (1 .. n), S # {}
  PROVE  Thread!Max(S) \in S
<1> DEFINE T == {n - i : i \in S}
           Below == OpToRel(<, Nat)
<1>1. T \subseteq Nat /\ T # {}
  <2>1. \A i \in S : i \in 1 .. n
    OBVIOUS
  <2>2. \A i \in S : n - i \in Nat
    BY <2>1
  <2>3. PICK i : i \in S
    OBVIOUS
  <2>4. n - i \in T
    BY <2>3
  <2> QED
    BY <2>2, <2>4
<1>2. PICK x \in T : \A y \in T : ~ (<<y, x>> \in Below)
  <2> HIDE DEF T
  <2> QED
    BY <1>1, NatLessThanWellFounded, WFMin
<1>3. \A y \in T : x <= y
  <2> HIDE DEF T
  <2>1. ASSUME NEW y \in T PROVE x <= y
    <3>1. x \in Nat /\ y \in Nat
      BY <1>1
    <3>2. ~ (y < x)
      BY <1>2, <3>1 DEF OpToRel
    <3> QED
      BY <3>1, <3>2
  <2> QED
    BY <2>1
<1>4. PICK i \in S : x = n - i
  OBVIOUS
<1>5. \A j \in S : i >= j
  BY <1>3, <1>4
<1> QED
  BY <1>5 DEF Thread!Max

\* There are no messages.
LEMMA ThreadAtFirst == Thread!BoundsAssumption /\ Thread!Init => Thread!IInv
<1> SUFFICES ASSUME Thread!BoundsAssumption, Thread!Init PROVE Thread!IInv
  OBVIOUS
<1> DEFINE Job == [step : {"idle", "open", "commit", "read"}, show : A \cup {"none"}, at : Nat,
                   marks : SUBSET Nat, answers : SUBSET Nat]
<1>1. Thread!Idle \in Job /\ Thread!Idle.step = "idle" /\ Thread!Idle.at = 0
  BY DEF Thread!Idle
<1>2. v4 = [w \in B \cup Devices |-> Thread!Idle]
  BY DEF Thread!Init
<1> HIDE DEF Job
<1>3. v4 \in [B \cup Devices -> Job] /\ \A w \in B \cup Devices : v4[w].step = "idle" /\ v4[w].at = 0
  BY <1>1, <1>2
<1> USE DEF Job
<1>4. v1 = << >> /\ v2 = 0 /\ v3 = -1 /\ v5 = {} /\ Thread!Rows = {}
  BY DEF Thread!Init, Thread!Rows
<1>5. Thread!RepliesAreOfMessages /\ Thread!AnsweredByReply
  BY <1>3, <1>4 DEF Thread!RepliesAreOfMessages, Thread!AnsweredByReply, Thread!Visible, Thread!Unreplied, Thread!FromUser
<1>6. Thread!TimesAreInOrder /\ Thread!ReadersHaveHadReplies
  BY <1>3, <1>4 DEF Thread!TimesAreInOrder, Thread!ReadersHaveHadReplies, Thread!Visible
<1> QED
  BY <1>3, <1>4, <1>5, <1>6 DEF Thread!IInv

\* A row is appended, and one reply marks what it answers; or a request goes on; or a device
\* writes the time it looked.
LEMMA ThreadKept ==
  ASSUME Thread!IInv, Thread!Next
  PROVE  Thread!IInv'
<1> DEFINE thread == v1  clock == v2  lastReadAt == v3  job == v4  seen == v5
           Row == [from : {"user", "station"}, show : A \cup {"none"}, at : Nat, stored : Nat,
                   isReplied : BOOLEAN, answers : SUBSET Nat]
           Job == [step : {"idle", "open", "commit", "read"}, show : A \cup {"none"}, at : Nat,
                   marks : SUBSET Nat, answers : SUBSET Nat]
           Workers == B \cup Devices
           Rows == DOMAIN thread
           User(i) == thread[i].from = "user"
           Reply(i) == thread[i].from = "station"
           FromListener(S) == S \subseteq Rows /\ \A i \in S : User(i)
           Commits(j) == /\ j.marks \subseteq j.answers /\ FromListener(j.answers)
                         /\ \A i \in j.answers \ j.marks : thread[i].isReplied
           Reads(j) == /\ j.marks \subseteq Rows /\ \A i \in j.marks : Reply(i) /\ thread[i].at <= j.at
                       /\ \A i \in Rows \ j.marks : Reply(i) => j.at <= thread[i].stored
           Works(w) == /\ job[w].at <= clock
                       /\ job[w].step = "commit" => Commits(job[w])
                       /\ w \in Devices /\ job[w].step = "read" => Reads(job[w])
           Answered(i) == \E r \in Rows : Reply(r) /\ i \in thread[r].answers
           Replies == /\ \A r \in Rows : Reply(r) => FromListener(thread[r].answers)
                      /\ \A i \in Rows : User(i) => (thread[i].isReplied <=> Answered(i))
           Times == lastReadAt <= clock /\ \A i \in Rows : thread[i].at <= thread[i].stored /\ thread[i].stored <= clock
           Seen == /\ seen \subseteq Rows /\ \A i \in seen : Reply(i) /\ thread[i].at <= lastReadAt
                   /\ \A i \in Rows \ seen : Reply(i) => lastReadAt <= thread[i].stored
           Typed == /\ thread \in Seq(Row) /\ clock \in Nat /\ lastReadAt \in Int /\ job \in [Workers -> Job]
<1>1. Typed /\ (\A w \in Workers : Works(w)) /\ Replies /\ Times /\ Seen
  <2>1. Typed /\ Times
    BY DEF Thread!IInv, Thread!TimesAreInOrder, Thread!Rows
  <2> HIDE DEF Row, Job
  <2>2. \A r \in Rows : Reply(r) => FromListener(thread[r].answers)
    BY DEF Thread!IInv, Thread!RepliesAreOfMessages, Thread!Visible, Thread!FromUser, Thread!Rows
  <2>3. \A i \in Rows : User(i) => (thread[i].isReplied <=> Answered(i))
    BY DEF Thread!IInv, Thread!AnsweredByReply, Thread!Unreplied, Thread!Visible, Thread!FromUser, Thread!Rows
  <2>4. Seen
    BY DEF Thread!IInv, Thread!ReadersHaveHadReplies, Thread!Visible, Thread!Rows
  <2>5. ASSUME NEW w \in Workers PROVE Works(w)
    <3>1. job[w].at <= clock /\ (job[w].step = "commit" => Commits(job[w]))
      BY DEF Thread!IInv, Thread!RepliesAreOfMessages, Thread!FromUser, Thread!Rows
    <3>2. ASSUME w \in Devices, job[w].step = "read" PROVE Reads(job[w])
      BY <3>2 DEF Thread!IInv, Thread!ReadersHaveHadReplies, Thread!Visible, Thread!Rows
    <3> QED
      BY <3>1, <3>2
  <2> QED
    BY <2>1, <2>2, <2>3, <2>4, <2>5
<1>2. ASSUME Typed', \A w \in Workers : Works(w)', Replies', Times', Seen' PROVE Thread!IInv'
  <2>1. Thread!TimesAreInOrder'
    BY <1>2 DEF Thread!TimesAreInOrder, Thread!Rows
  <2> HIDE DEF Row, Job
  <2>2. Thread!RepliesAreOfMessages'
    BY <1>2 DEF Thread!RepliesAreOfMessages, Thread!Visible, Thread!FromUser, Thread!Rows
  <2>3. Thread!AnsweredByReply'
    BY <1>2 DEF Thread!AnsweredByReply, Thread!Unreplied, Thread!Visible, Thread!FromUser, Thread!Rows
  <2>4. Thread!ReadersHaveHadReplies'
    BY <1>2 DEF Thread!ReadersHaveHadReplies, Thread!Visible, Thread!Rows
  <2> USE DEF Row, Job
  <2> QED
    BY <1>2, <2>1, <2>2, <2>3, <2>4 DEF Thread!IInv
<1>3. ASSUME NEW i \in Rows PROVE /\ thread[i] \in Row /\ thread[i].at \in Nat /\ thread[i].stored \in Nat
                                  /\ thread[i].isReplied \in BOOLEAN /\ thread[i].answers \subseteq Nat
                                  /\ thread[i].show \in A \cup {"none"} /\ i \in Nat
  <2> HIDE DEF Row
  <2>1. thread[i] \in Row /\ i \in Nat
    BY <1>1
  <2> USE DEF Row
  <2> QED
    BY <2>1
<1>4. \A w \in Workers : job[w] \in Job /\ job[w].at \in Nat
  BY <1>1
<1>5. Thread!Idle \in Job /\ Thread!Idle.step = "idle" /\ Thread!Idle.at = 0
  BY DEF Thread!Idle
<1> HIDE DEF Row, Job
\* A request goes on.
<1>6. ASSUME NEW w \in Workers, NEW j \in Job, Thread!Goes(w, j), UNCHANGED <<thread, clock, lastReadAt, seen>>,
             j.at <= clock, j.step = "commit" => Commits(j), j.step = "read" => Reads(j)
      PROVE  Thread!IInv'
  <2>1. job' \in [Workers -> Job] /\ \A x \in Workers : job'[x] = IF x = w THEN j ELSE job[x]
    BY <1>1, <1>6 DEF Thread!Goes
  <2>2. \A x \in Workers : Works(x)'
    BY <1>1, <1>6, <2>1
  <2> QED
    BY <1>1, <1>2, <1>6, <2>1, <2>2
<1>7. ASSUME NEW w \in Workers, Thread!Goes(w, Thread!Idle), UNCHANGED <<thread, clock, lastReadAt, seen>>
      PROVE  Thread!IInv'
  BY <1>1, <1>5, <1>6, <1>7
\* A row is appended, and some messages may be marked as replied.
<1>8. ASSUME NEW n, NEW row \in Row, n \notin Rows, thread' \in Seq(Row), DOMAIN thread' = Rows \cup {n}, thread'[n] = row,
             row.at <= clock, row.stored = clock, row.from = "station" => FromListener(row.answers),
             \A i \in Rows : /\ thread'[i].from = thread[i].from /\ thread'[i].at = thread[i].at
                             /\ thread'[i].stored = thread[i].stored /\ thread'[i].answers = thread[i].answers
                             /\ thread[i].isReplied => thread'[i].isReplied,
             \A i \in Rows \cup {n} : User(i)' => (thread'[i].isReplied <=> Answered(i)'),
             job' \in [Workers -> Job], \A w \in Workers : job'[w] \in {job[w], Thread!Idle},
             UNCHANGED <<clock, lastReadAt, seen>>
      PROVE  Thread!IInv'
  <2>1. row.stored \in Nat /\ row.at \in Nat
    BY <1>8 DEF Row
  <2>2. Typed' /\ Times'
    BY <1>1, <1>8, <2>1
  <2>3. Seen'
    BY <1>1, <1>8
  <2>4. ASSUME NEW S, FromListener(S) PROVE S \subseteq Rows \cup {n} /\ \A i \in S : User(i)'
    BY <1>8, <2>4
  <2>5. Replies'
    <3>1. ASSUME NEW r \in Rows \cup {n}, Reply(r)'
          PROVE  thread'[r].answers \subseteq Rows \cup {n} /\ \A i \in thread'[r].answers : User(i)'
      <4>1. CASE r = n
        BY <1>8, <2>4, <3>1, <4>1
      <4>2. CASE r \in Rows
        <5>1. Reply(r) /\ thread'[r].answers = thread[r].answers
          BY <1>8, <3>1, <4>2
        <5>2. FromListener(thread[r].answers)
          BY <1>1, <4>2, <5>1
        <5> QED
          BY <2>4, <5>1, <5>2
      <4> QED
        BY <4>1, <4>2
    <3> QED
      BY <1>8, <3>1
  <2>6. ASSUME NEW w \in Workers PROVE Works(w)'
    <3>1. CASE job'[w] = Thread!Idle
      BY <1>1, <1>5, <1>8, <3>1
    <3>2. CASE job'[w] = job[w]
      <4>1. PICK j : j = job[w]
        OBVIOUS
      <4>2. Works(w)
        BY <1>1
      <4>3. ASSUME j.step = "commit" PROVE Commits(j)'
        <5>1. Commits(j)
          BY <4>1, <4>2, <4>3
        <5>2. \A i \in j.answers \ j.marks : i \in Rows /\ thread'[i].isReplied
          BY <1>8, <5>1
        <5>3. j.answers \subseteq Rows \cup {n} /\ \A i \in j.answers : User(i)'
          BY <2>4, <5>1
        <5> QED
          BY <1>8, <5>1, <5>2, <5>3
      <4>4. ASSUME w \in Devices, j.step = "read" PROVE Reads(j)'
        <5>1. Reads(j) /\ j.at \in Nat /\ j.at <= clock
          BY <1>1, <1>4, <4>1, <4>2, <4>4
        <5>2. \A i \in j.marks : i \in Rows /\ Reply(i)' /\ thread'[i].at <= j.at
          BY <1>8, <5>1
        <5>3. ASSUME NEW i \in Rows \cup {n}, i \notin j.marks, Reply(i)' PROVE j.at <= thread'[i].stored
          <6>1. CASE i = n
            BY <1>8, <5>1, <6>1
          <6>2. CASE i \in Rows
            BY <1>8, <5>1, <5>3, <6>2
          <6> QED
            BY <6>1, <6>2
        <5> QED
          BY <1>8, <5>2, <5>3
      <4>5. job'[w].at <= clock' /\ job'[w] = j
        BY <1>8, <3>2, <4>1, <4>2
      <4> QED
        BY <4>3, <4>4, <4>5
    <3> QED
      BY <1>8, <3>1, <3>2
  <2> QED
    BY <1>2, <2>2, <2>3, <2>5, <2>6
<1>10. CASE Thread!Tick
  <2>1. clock' = clock + 1 /\ UNCHANGED <<thread, lastReadAt, job, seen>>
    BY <1>10 DEF Thread!Tick
  <2>2. Typed' /\ Times'
    BY <1>1, <1>3, <2>1
  <2>3. \A w \in Workers : Works(w)'
    BY <1>1, <1>4, <2>1
  <2> QED
    BY <1>1, <1>2, <2>1, <2>2, <2>3
<1>11. CASE Thread!ListenerWrites
  <2>1. PICK show \in A : thread' = Append(thread, [from |-> "user", show |-> show, at |-> clock, stored |-> clock,
                                                    isReplied |-> FALSE, answers |-> {}])
    BY <1>11 DEF Thread!ListenerWrites
  <2>2. UNCHANGED <<clock, lastReadAt, job, seen>>
    BY <1>11 DEF Thread!ListenerWrites
  <2>3. PICK row : row = [from |-> "user", show |-> show, at |-> clock, stored |-> clock,
                          isReplied |-> FALSE, answers |-> {}]
    OBVIOUS
  <2>4. /\ row \in Row /\ row.from = "user" /\ row.at = clock /\ row.stored = clock
        /\ row.isReplied = FALSE /\ row.answers = {}
    BY <1>1, <2>3 DEF Row
  <2>5. PICK n : n = Len(thread) + 1
    OBVIOUS
  <2>6. /\ n \notin Rows /\ thread' \in Seq(Row) /\ DOMAIN thread' = Rows \cup {n} /\ thread'[n] = row
        /\ \A i \in Rows : thread'[i] = thread[i]
    BY <1>1, <2>1, <2>3, <2>4, <2>5, OneIsAppended
  <2>7. \A i \in Rows \cup {n} : User(i)' => (thread'[i].isReplied <=> Answered(i)')
    <3>1. ~Answered(n)'
      BY <1>1, <2>4, <2>6
    <3>2. \A i \in Rows : Answered(i)' <=> Answered(i)
      BY <2>4, <2>6
    <3> QED
      BY <1>1, <2>4, <2>6, <3>1, <3>2
  <2> QED
    BY <1>1, <1>8, <2>2, <2>4, <2>6, <2>7
<1>12. ASSUME NEW s \in B, Thread!StartReply(s) PROVE Thread!IInv'
  <2>1. PICK show : show = IF Thread!FromUser = {} THEN "none" ELSE thread[Thread!Max(Thread!FromUser)].show
    OBVIOUS
  <2>2. PICK j : j = [Thread!Idle EXCEPT !.step = "open", !.show = show]
    OBVIOUS
  <2>3. Thread!Goes(s, j) /\ UNCHANGED <<thread, clock, lastReadAt, seen>>
    BY <1>12, <2>1, <2>2 DEF Thread!StartReply
  <2>4. show \in A \cup {"none"}
    <3>1. Thread!FromUser \in SUBSET (1 .. Len(thread)) /\ Len(thread) \in Nat
      BY <1>1 DEF Thread!FromUser, Thread!Rows
    <3>2. Thread!FromUser # {} => Thread!Max(Thread!FromUser) \in Rows
      BY <3>1, LargestIsThere DEF Thread!FromUser, Thread!Rows
    <3> QED
      BY <1>3, <2>1, <3>2
  <2>5. j \in Job /\ j.step = "open" /\ j.at = 0
    BY <2>2, <2>4 DEF Thread!Idle, Job
  <2> QED
    BY <1>1, <1>6, <2>3, <2>5
<1>13. ASSUME NEW s \in B, Thread!OpenReply(s) PROVE Thread!IInv'
  <2>1. PICK answers : answers = {i \in Thread!FromUser : Thread!Matches(i, job[s].show)}
    OBVIOUS
  <2>2. PICK marks : marks = {i \in answers : ~thread[i].isReplied}
    OBVIOUS
  <2>3. PICK j : j = [job[s] EXCEPT !.step = "commit", !.at = clock, !.answers = answers, !.marks = marks]
    OBVIOUS
  <2>4. Thread!Goes(s, j) /\ UNCHANGED <<thread, clock, lastReadAt, seen>>
    BY <1>13, <2>1, <2>2, <2>3 DEF Thread!OpenReply
  <2>5. FromListener(answers) /\ answers \subseteq Nat /\ marks \subseteq answers
    BY <1>3, <2>1, <2>2 DEF Thread!FromUser, Thread!Rows
  <2>6. j \in Job /\ j.step = "commit" /\ j.at = clock /\ j.answers = answers /\ j.marks = marks
    BY <1>1, <1>4, <2>3, <2>5 DEF Job
  <2>7. Commits(j)
    BY <2>2, <2>5, <2>6
  <2> QED
    BY <1>1, <1>6, <2>4, <2>6, <2>7
<1>14. ASSUME NEW s \in B, Thread!CommitReply(s) PROVE Thread!IInv'
  <2>1. PICK j : j = job[s]
    OBVIOUS
  <2>2. PICK row : row = [from |-> "station", show |-> j.show, at |-> j.at, stored |-> clock,
                          isReplied |-> FALSE, answers |-> j.answers]
    OBVIOUS
  <2>3. PICK marked : marked = Thread!Marked(j.marks)
    OBVIOUS
  <2>4. /\ j.step = "commit" /\ thread' = Append(marked, row) /\ Thread!Goes(s, Thread!Idle)
        /\ UNCHANGED <<clock, lastReadAt, seen>>
    BY <1>14, <2>1, <2>2, <2>3 DEF Thread!CommitReply
  <2>5. j \in Job /\ j.at \in Nat /\ j.at <= clock /\ Commits(j)
    BY <1>1, <1>4, <2>1, <2>4
  <2>6. /\ row \in Row /\ row.from = "station" /\ row.at = j.at /\ row.stored = clock
        /\ row.isReplied = FALSE /\ row.answers = j.answers
    BY <1>1, <2>2, <2>5 DEF Row, Job
  <2>7. ASSUME NEW i \in Rows
        PROVE  /\ [thread[i] EXCEPT !.isReplied = TRUE] \in Row
               /\ [thread[i] EXCEPT !.isReplied = TRUE].isReplied = TRUE
               /\ [thread[i] EXCEPT !.isReplied = TRUE].from = thread[i].from
               /\ [thread[i] EXCEPT !.isReplied = TRUE].at = thread[i].at
               /\ [thread[i] EXCEPT !.isReplied = TRUE].stored = thread[i].stored
               /\ [thread[i] EXCEPT !.isReplied = TRUE].answers = thread[i].answers
    BY <1>3 DEF Row
  <2>8. marked = [i \in Rows |-> IF i \in j.marks THEN [thread[i] EXCEPT !.isReplied = TRUE] ELSE thread[i]]
    BY <2>3 DEF Thread!Marked, Thread!Rows
  <2>9. /\ marked \in [Rows -> Row]
        /\ \A i \in Rows : /\ marked[i].from = thread[i].from /\ marked[i].at = thread[i].at
                           /\ marked[i].stored = thread[i].stored /\ marked[i].answers = thread[i].answers
                           /\ marked[i].isReplied <=> thread[i].isReplied \/ i \in j.marks
    BY <1>3, <2>7, <2>8
  <2>10. marked \in Seq(Row) /\ Len(marked) = Len(thread) /\ DOMAIN marked = Rows
    <3>1. Rows = 1 .. Len(thread) /\ Len(thread) \in Nat
      BY <1>1
    <3> QED
      BY <2>9, <3>1
  <2>11. PICK n : n = Len(thread) + 1
    OBVIOUS
  <2>12. /\ n \notin Rows /\ thread' \in Seq(Row) /\ DOMAIN thread' = Rows \cup {n} /\ thread'[n] = row
         /\ \A i \in Rows : thread'[i] = marked[i]
    BY <1>1, <2>4, <2>6, <2>10, <2>11, OneIsAppended
  <2>13. \A i \in Rows \cup {n} : User(i)' => (thread'[i].isReplied <=> Answered(i)')
    <3>1. ASSUME NEW i \in Rows PROVE Answered(i)' <=> Answered(i) \/ i \in j.answers
      BY <2>6, <2>9, <2>12
    <3>2. ASSUME NEW i \in Rows, User(i) PROVE thread'[i].isReplied <=> Answered(i)'
      BY <1>1, <2>5, <2>9, <2>12, <3>1, <3>2
    <3> QED
      BY <2>6, <2>9, <2>12, <3>2
  <2>14. job' \in [Workers -> Job] /\ \A w \in Workers : job'[w] \in {job[w], Thread!Idle}
    BY <1>1, <1>5, <2>4 DEF Thread!Goes
  <2>15. FromListener(row.answers) /\ row.at <= clock
    BY <2>5, <2>6
  <2>16. \A i \in Rows : /\ thread'[i].from = thread[i].from /\ thread'[i].at = thread[i].at
                         /\ thread'[i].stored = thread[i].stored /\ thread'[i].answers = thread[i].answers
                         /\ thread[i].isReplied => thread'[i].isReplied
    BY <2>9, <2>12
  <2> QED
    BY <1>8, <2>4, <2>6, <2>12, <2>13, <2>14, <2>15, <2>16
<1>15. ASSUME NEW s \in B, Thread!RetryReply(s) PROVE Thread!IInv'
  <2>1. PICK j : j = [job[s] EXCEPT !.step = "open"]
    OBVIOUS
  <2>2. Thread!Goes(s, j) /\ UNCHANGED <<thread, clock, lastReadAt, seen>>
    BY <1>15, <2>1 DEF Thread!RetryReply
  <2>3. j \in Job /\ j.step = "open" /\ j.at = job[s].at
    BY <1>4, <2>1 DEF Job
  <2> QED
    BY <1>1, <1>6, <2>2, <2>3
<1>16. ASSUME NEW s \in B, Thread!AbortReply(s) PROVE Thread!IInv'
  BY <1>7, <1>16 DEF Thread!AbortReply
<1>17. ASSUME NEW d \in Devices, Thread!StartRead(d) PROVE Thread!IInv'
  <2>1. PICK marks : marks = Thread!Visible
    OBVIOUS
  <2>2. PICK j : j = [Thread!Idle EXCEPT !.step = "read", !.at = clock, !.marks = marks]
    OBVIOUS
  <2>3. Thread!Goes(d, j) /\ UNCHANGED <<thread, clock, lastReadAt, seen>>
    BY <1>17, <2>1, <2>2 DEF Thread!StartRead
  <2>4. marks \subseteq Rows /\ marks \subseteq Nat /\ \A i \in Rows : i \in marks <=> Reply(i)
    BY <1>3, <2>1 DEF Thread!Visible, Thread!Rows
  <2>5. j \in Job /\ j.step = "read" /\ j.at = clock /\ j.marks = marks
    BY <1>1, <2>2, <2>4 DEF Thread!Idle, Job
  <2>6. Reads(j)
    <3>1. \A i \in Rows : thread[i].at <= clock
      BY <1>1, <1>3
    <3> QED
      BY <2>4, <2>5, <3>1
  <2> QED
    BY <1>1, <1>6, <2>3, <2>5, <2>6
<1>18. ASSUME NEW d \in Devices, Thread!MarkThreadRead(d) PROVE Thread!IInv'
  <2>1. PICK j : j = job[d]
    OBVIOUS
  <2>2. /\ j.step = "read" /\ lastReadAt' = (IF j.at > lastReadAt THEN j.at ELSE lastReadAt)
        /\ seen' = seen \cup j.marks /\ Thread!Goes(d, Thread!Idle) /\ UNCHANGED <<thread, clock>>
    BY <1>18, <2>1 DEF Thread!MarkThreadRead, Thread!MovedTo
  <2>3. j.at \in Nat /\ j.at <= clock /\ Reads(j)
    BY <1>1, <1>4, <2>1, <2>2
  <2>4. job' \in [Workers -> Job] /\ \A w \in Workers : job'[w] \in {job[w], Thread!Idle}
    BY <1>1, <1>5, <2>2 DEF Thread!Goes
  <2>5. \A w \in Workers : Works(w)'
    <3>1. ASSUME NEW w \in Workers PROVE Works(w)'
      <4>1. CASE job'[w] = Thread!Idle
        BY <1>1, <1>5, <2>2, <4>1
      <4>2. CASE job'[w] = job[w]
        BY <1>1, <2>2, <4>2
      <4> QED
        BY <2>4, <4>1, <4>2
    <3> QED
      BY <3>1
  <2>6. Typed' /\ Times'
    BY <1>1, <2>2, <2>3, <2>4
  <2>7. Seen'
    <3>1. ASSUME NEW i \in Rows PROVE thread[i].at \in Nat /\ thread[i].stored \in Nat
      BY <1>3
    <3>2. seen' \subseteq Rows /\ \A i \in seen' : Reply(i) /\ thread[i].at <= lastReadAt'
      BY <1>1, <2>2, <2>3, <3>1
    <3>3. \A i \in Rows \ seen' : Reply(i) => lastReadAt' <= thread[i].stored
      BY <1>1, <2>2, <2>3, <3>1
    <3> QED
      BY <2>2, <3>2, <3>3
  <2> QED
    BY <1>1, <1>2, <2>2, <2>5, <2>6, <2>7
<1> QED
  BY <1>10, <1>11, <1>12, <1>13, <1>14, <1>15, <1>16, <1>17, <1>18 DEF Thread!Next

\* A reply that was seen is no longer unread, and one that is neither was stored as it was read.
LEMMA ThreadReadsTrue == Thread!IInv => Thread!AnsweredByReply /\ Thread!UnreadIsUnseen
<1> SUFFICES ASSUME Thread!IInv PROVE Thread!UnreadIsUnseen
  BY DEF Thread!IInv
<1> DEFINE Row == [from : {"user", "station"}, show : A \cup {"none"}, at : Nat, stored : Nat,
                   isReplied : BOOLEAN, answers : SUBSET Nat]
<1>1. \A i \in Thread!Rows : v1[i].at \in Nat /\ v1[i].stored \in Nat
  <2>1. v1 \in Seq(Row)
    BY DEF Thread!IInv
  <2> HIDE DEF Row
  <2>2. \A i \in Thread!Rows : v1[i] \in Row
    BY <2>1 DEF Thread!Rows
  <2> USE DEF Row
  <2> QED
    BY <2>2
<1>2. v3 \in Int /\ Thread!ReadersHaveHadReplies
  BY DEF Thread!IInv
<1> QED
  BY <1>1, <1>2 DEF Thread!ReadersHaveHadReplies, Thread!UnreadIsUnseen, Thread!Unread, Thread!Visible

-----------------------------------------------------------------------------
(* Statuses.                                                                  *)

\* Nobody has viewed or liked it.
LEMMA StatusesAtFirst == Statuses!Init => Statuses!IInv
<1> SUFFICES ASSUME Statuses!Init PROVE Statuses!IInv
  OBVIOUS
<1> DEFINE Job == [step : Statuses!Steps, who : SUBSET A, count : Nat]
<1>1. Statuses!Idle \in Job /\ Statuses!Idle.step = "idle" /\ Statuses!Idle.who = {}
  BY DEF Statuses!Idle, Statuses!Steps
<1>2. v6 = [r \in B |-> Statuses!Idle]
  BY DEF Statuses!Init
<1> HIDE DEF Job
<1>3. v6 \in [B -> Job] /\ \A r \in B : v6[r].step = "idle" /\ v6[r].who = {}
  BY <1>1, <1>2
<1>4. Statuses!Counters = {}
  BY <1>3 DEF Statuses!Counters, Statuses!At
<1>5. Statuses!Counting = Cardinality(Statuses!Counters)
  BY SameOperators DEF Statuses!Counting, Statuses!Counters
<1>6. Statuses!ViewsAreCounted /\ Statuses!LikesAreGiven
  BY <1>3, <1>4, <1>5, SameOperators, FS_EmptySet
     DEF Statuses!Init, Statuses!ViewsAreCounted, Statuses!LikesAreGiven, Statuses!At
<1>7. IsFiniteSet(v2) /\ IsFiniteSet(v3) /\ IsFiniteSet(Statuses!Counters) /\ \A r \in B : IsFiniteSet(v6[r].who)
  BY <1>3, <1>4, FS_EmptySet DEF Statuses!Init
<1> QED
  BY <1>3, <1>6, <1>7, SameOperators DEF Job, Statuses!Init, Statuses!IInv, Statuses!Parts

\* A view is stored and its count to come is one step, and counting it another; a like is
\* stored before likes are counted, and counted before the count is written.
LEMMA StatusesKept ==
  ASSUME Statuses!IInv, Statuses!Next
  PROVE  Statuses!IInv'
<1> DEFINE live == v1  views == v2  likes == v3  viewCount == v4  likeCount == v5  job == v6
           deletion == v7  uncounted == v8
           Job == [step : Statuses!Steps, who : SUBSET A, count : Nat]
           Up == live /\ deletion = {}
           Counters == {r \in B : job[r].step = "countView"}
           Counted(r) == job[r].step = "write" => job[r].count <= Cardinality(likes)
           Rest == /\ live \in BOOLEAN /\ deletion \subseteq Statuses!Parts
                   /\ live => deletion = {} \/ "status" \in deletion
           Views == /\ IsFiniteSet(views) /\ IsFiniteSet(Counters) /\ viewCount \in Nat /\ uncounted \in Nat
                    /\ Up => viewCount + Cardinality(Counters) + uncounted = Cardinality(views)
           Likes == /\ IsFiniteSet(likes) /\ likeCount \in Nat
                    /\ Up => likeCount <= Cardinality(likes) /\ \A r \in B : Counted(r)
           Jobs == job \in [B -> Job] /\ \A r \in B : IsFiniteSet(job[r].who)
<1>1. Rest /\ Views /\ Likes /\ Jobs
  <2>1. Statuses!Counters = Counters /\ Statuses!Counting = Cardinality(Counters) /\ (Statuses!Untouched <=> Up)
    BY SameOperators DEF Statuses!Counters, Statuses!Counting, Statuses!At, Statuses!Untouched
  <2> QED
    BY <2>1, SameOperators DEF Statuses!IInv, Statuses!ViewsAreCounted, Statuses!LikesAreGiven, Statuses!At
<1>2. ASSUME Rest', Views', Likes', Jobs' PROVE Statuses!IInv'
  <2>1. /\ Statuses!Counters' = Counters' /\ Statuses!Counting' = Cardinality(Counters')
        /\ (Statuses!Untouched' <=> Up')
    BY SameOperators DEF Statuses!Counters, Statuses!Counting, Statuses!At, Statuses!Untouched
  <2>2. Statuses!ViewsAreCounted' /\ Statuses!LikesAreGiven'
    BY <1>2, <2>1, SameOperators DEF Statuses!ViewsAreCounted, Statuses!LikesAreGiven, Statuses!At
  <2> QED
    BY <1>2, <2>1, <2>2, SameOperators DEF Statuses!IInv
<1> HIDE DEF Job
<1>3. Statuses!Idle \in Job /\ Statuses!Idle.step = "idle" /\ IsFiniteSet(Statuses!Idle.who)
  BY FS_EmptySet DEF Statuses!Idle, Statuses!Steps, Job
\* A request goes on with another job.
<1>4. ASSUME NEW r \in B, NEW j \in Job, IsFiniteSet(j.who), Statuses!Goes(r, j)
      PROVE  /\ Jobs' /\ \A x \in B : job'[x] = IF x = r THEN j ELSE job[x]
             /\ Counters' = IF j.step = "countView" THEN Counters \cup {r} ELSE Counters \ {r}
  <2>1. job' = [job EXCEPT ![r] = j]
    BY <1>4 DEF Statuses!Goes
  <2>2. job' \in [B -> Job] /\ \A x \in B : job'[x] = IF x = r THEN j ELSE job[x]
    BY <1>1, <2>1
  <2> QED
    BY <1>1, <1>4, <2>2
\* ... that has nothing to do with views.
<1>5. ASSUME NEW r \in B, NEW j \in Job, IsFiniteSet(j.who), Statuses!Goes(r, j),
             j.step # "countView", job[r].step # "countView",
             UNCHANGED <<live, views, viewCount, deletion, uncounted>>
      PROVE  Views' /\ Rest' /\ Jobs'
  <2>1. Jobs' /\ Counters' = Counters
    BY <1>4, <1>5
  <2> QED
    BY <1>1, <1>5, <2>1
\* ... that has nothing to do with likes.
<1>6. ASSUME NEW r \in B, NEW j \in Job, IsFiniteSet(j.who), Statuses!Goes(r, j), j.step # "write",
             UNCHANGED <<live, likes, likeCount, deletion>>
      PROVE  Likes'
  BY <1>1, <1>4, <1>6
\* A request to view or to like.
<1>10. ASSUME NEW r \in B, NEW p \in A, NEW j \in Job, j.who = {p}, j.step \in {"view", "like"},
              job[r].step = "idle", Statuses!Goes(r, j),
              UNCHANGED <<live, views, likes, viewCount, likeCount, deletion, uncounted>>
       PROVE  Statuses!IInv'
  <2>1. IsFiniteSet(j.who)
    BY <1>10, FS_Singleton
  <2> QED
    BY <1>2, <1>5, <1>6, <1>10, <2>1
<1>11. ASSUME NEW r \in B, NEW p \in A, Statuses!RecordView(r, p) \/ Statuses!ToggleLike(r, p) PROVE Statuses!IInv'
  <2>1. /\ [Statuses!Idle EXCEPT !.step = "view", !.who = {p}] \in Job
        /\ [Statuses!Idle EXCEPT !.step = "like", !.who = {p}] \in Job
    BY DEF Statuses!Idle, Statuses!Steps, Job
  <2>2. /\ [Statuses!Idle EXCEPT !.step = "view", !.who = {p}].who = {p}
        /\ [Statuses!Idle EXCEPT !.step = "view", !.who = {p}].step = "view"
        /\ [Statuses!Idle EXCEPT !.step = "like", !.who = {p}].who = {p}
        /\ [Statuses!Idle EXCEPT !.step = "like", !.who = {p}].step = "like"
    BY DEF Statuses!Idle
  <2>3. CASE Statuses!RecordView(r, p)
    BY <1>10, <2>1, <2>2, <2>3 DEF Statuses!RecordView, Statuses!At
  <2>4. CASE Statuses!ToggleLike(r, p)
    BY <1>10, <2>1, <2>2, <2>4 DEF Statuses!ToggleLike, Statuses!At
  <2> QED
    BY <1>11, <2>3, <2>4
<1>12. ASSUME NEW r \in B, Statuses!CreateView(r) PROVE Statuses!IInv'
  <2> DEFINE next == [Statuses!Idle EXCEPT !.step = "countView"]
  <2>1. PICK p \in job[r].who : /\ views' = views \cup {p}
                                /\ Statuses!Goes(r, IF p \notin views THEN next ELSE Statuses!Idle)
    BY <1>12 DEF Statuses!CreateView, Statuses!NewView
  <2>2. job[r].step = "view" /\ UNCHANGED <<live, likes, viewCount, likeCount, deletion, uncounted>>
    BY <1>12 DEF Statuses!CreateView, Statuses!At
  <2>3. next \in Job /\ next.step = "countView" /\ IsFiniteSet(next.who)
    BY FS_EmptySet DEF Statuses!Idle, Statuses!Steps, Job
  <2> HIDE DEF next
  <2>4. CASE p \notin views
    <3>1. Jobs' /\ Counters' = Counters \cup {r} /\ Likes'
      BY <1>4, <1>6, <2>1, <2>2, <2>3, <2>4
    <3>2. r \notin Counters
      BY <2>2
    <3>3. /\ IsFiniteSet(Counters') /\ Cardinality(Counters') = Cardinality(Counters) + 1
          /\ IsFiniteSet(views') /\ Cardinality(views') = Cardinality(views) + 1
      BY <1>1, <2>1, <2>4, <3>1, <3>2, FS_AddElement
    <3>4. Cardinality(Counters) \in Nat /\ Cardinality(views) \in Nat
      BY <1>1, FS_CardinalityType
    <3>5. Views' /\ Rest'
      BY <1>1, <2>2, <3>3, <3>4
    <3> QED
      BY <1>2, <3>1, <3>5
  <2>5. CASE p \in views
    <3>1. views' = views
      BY <2>1, <2>5
    <3> QED
      BY <1>2, <1>3, <1>5, <1>6, <2>1, <2>2, <2>5, <3>1
  <2> QED
    BY <2>4, <2>5
<1>13. ASSUME NEW r \in B, Statuses!IncrementViewCount(r) PROVE Statuses!IInv'
  <2>1. /\ job[r].step = "countView" /\ viewCount' = IF live THEN viewCount + 1 ELSE viewCount
        /\ Statuses!Goes(r, Statuses!Idle) /\ UNCHANGED <<live, views, likes, likeCount, deletion, uncounted>>
    BY <1>13 DEF Statuses!IncrementViewCount, Statuses!At
  <2>2. Jobs' /\ Counters' = Counters \ {r} /\ r \in Counters /\ Likes'
    BY <1>3, <1>4, <1>6, <2>1
  <2> HIDE DEF Counters
  <2>3. /\ IsFiniteSet(Counters') /\ Cardinality(Counters') = Cardinality(Counters) - 1
        /\ Cardinality(Counters) \in Nat /\ Cardinality(views) \in Nat
    BY <1>1, <2>2, FS_RemoveElement, FS_CardinalityType
  <2>4. Views' /\ Rest'
    BY <1>1, <2>1, <2>3
  <2> QED
    BY <1>2, <2>2, <2>4
<1>14. ASSUME NEW r \in B, Statuses!CreateLike(r) PROVE Statuses!IInv'
  <2> DEFINE next == [Statuses!Idle EXCEPT !.step = "recount"]
  <2>1. /\ job[r].step = "like" /\ likes' = likes \cup job[r].who /\ Statuses!Goes(r, next)
        /\ UNCHANGED <<live, views, viewCount, likeCount, deletion, uncounted>>
    BY <1>14 DEF Statuses!CreateLike, Statuses!At
  <2>2. next \in Job /\ next.step = "recount" /\ IsFiniteSet(next.who)
    BY FS_EmptySet DEF Statuses!Idle, Statuses!Steps, Job
  <2> HIDE DEF next
  <2>3. Views' /\ Rest' /\ Jobs' /\ \A x \in B : job'[x] = IF x = r THEN next ELSE job[x]
    BY <1>4, <1>5, <2>1, <2>2
  <2>4. IsFiniteSet(likes')
    BY <1>1, <2>1, FS_Union
  <2>5. /\ Cardinality(likes) <= Cardinality(likes')
        /\ Cardinality(likes) \in Nat /\ Cardinality(likes') \in Nat
    BY <1>1, <2>1, <2>4, FS_Subset, FS_CardinalityType
  <2>6. \A x \in B : job[x].count \in Nat
    BY <1>1 DEF Job
  <2>7. ASSUME Up, NEW x \in B, job'[x].step = "write" PROVE job'[x].count <= Cardinality(likes')
    <3>1. job'[x] = job[x] /\ job[x].count \in Nat
      BY <2>2, <2>3, <2>6, <2>7
    <3>2. job[x].count <= Cardinality(likes)
      BY <1>1, <2>7, <3>1
    <3> QED
      BY <2>5, <3>1, <3>2
  <2>8. Up => likeCount <= Cardinality(likes')
    BY <1>1, <2>5
  <2>9. (Up' <=> Up) /\ likeCount' = likeCount /\ likeCount \in Nat
    BY <1>1, <2>1
  <2>10. Likes'
    BY <2>4, <2>7, <2>8, <2>9
  <2> QED
    BY <1>2, <2>3, <2>10
<1>15. ASSUME NEW r \in B, Statuses!CountLikes(r) PROVE Statuses!IInv'
  <2>1. PICK next : next = [Statuses!Idle EXCEPT !.step = "write", !.count = Cardinality(likes)]
    OBVIOUS
  <2>2. /\ job[r].step = "recount" /\ Statuses!Goes(r, next)
        /\ UNCHANGED <<live, views, likes, viewCount, likeCount, deletion, uncounted>>
    BY <1>15, <2>1, SameOperators DEF Statuses!CountLikes, Statuses!At
  <2>3. Cardinality(likes) \in Nat
    BY <1>1, FS_CardinalityType
  <2>4. next \in Job /\ next.step = "write" /\ next.count = Cardinality(likes) /\ IsFiniteSet(next.who)
    BY <2>1, <2>3, FS_EmptySet DEF Statuses!Idle, Statuses!Steps, Job
  <2>5. Views' /\ Rest' /\ Jobs' /\ \A x \in B : job'[x] = IF x = r THEN next ELSE job[x]
    BY <1>4, <1>5, <2>2, <2>4
  <2>6. Likes'
    BY <1>1, <2>2, <2>3, <2>4, <2>5
  <2> QED
    BY <1>2, <2>5, <2>6
<1>16. ASSUME NEW r \in B, Statuses!WriteCount(r) PROVE Statuses!IInv'
  <2>1. /\ job[r].step = "write" /\ likeCount' = IF live THEN job[r].count ELSE likeCount
        /\ Statuses!Goes(r, Statuses!Idle) /\ UNCHANGED <<live, views, likes, viewCount, deletion, uncounted>>
    BY <1>16 DEF Statuses!WriteCount, Statuses!NewCount, Statuses!At
  <2>2. Views' /\ Rest' /\ Jobs' /\ \A x \in B : job'[x] = IF x = r THEN Statuses!Idle ELSE job[x]
    BY <1>3, <1>4, <1>5, <2>1
  <2>3. job[r].count \in Nat
    BY <1>1 DEF Job
  <2>4. Likes'
    BY <1>1, <1>3, <2>1, <2>2, <2>3
  <2> QED
    BY <1>2, <2>2, <2>4
<1>17. CASE Statuses!DeleteStatus
  <2>1. deletion' = Statuses!Parts /\ UNCHANGED <<live, views, likes, viewCount, likeCount, job, uncounted>>
    BY <1>17 DEF Statuses!DeleteStatus
  <2>2. "status" \in deletion' /\ deletion' # {}
    BY <2>1 DEF Statuses!Parts
  <2> QED
    BY <1>1, <1>2, <2>1, <2>2
<1>18. ASSUME NEW part \in Statuses!Parts, Statuses!DeletePart(part) PROVE Statuses!IInv'
  <2>1. /\ part \in deletion /\ deletion' = deletion \ {part} /\ live' = (live /\ part # "status")
        /\ views' \in {views, {}} /\ likes' \in {likes, {}} /\ UNCHANGED <<viewCount, likeCount, job, uncounted>>
    BY <1>18 DEF Statuses!DeletePart
  <2>2. Rest' /\ ~Up'
    BY <1>1, <2>1
  <2>3. IsFiniteSet(views') /\ IsFiniteSet(likes')
    BY <1>1, <2>1, FS_EmptySet
  <2> QED
    BY <1>1, <1>2, <2>1, <2>2, <2>3
<1>19. CASE Statuses!Expire
  <2>1. ~live' /\ live' \in BOOLEAN /\ UNCHANGED <<views, likes, viewCount, likeCount, job, deletion, uncounted>>
    BY <1>19 DEF Statuses!Expire
  <2> QED
    BY <1>1, <1>2, <2>1
<1>20. ASSUME NEW r \in B, Statuses!Stop(r) PROVE Statuses!IInv'
  <2>1. /\ uncounted' = IF job[r].step = "countView" THEN uncounted + 1 ELSE uncounted
        /\ Statuses!Goes(r, Statuses!Idle) /\ UNCHANGED <<live, views, likes, viewCount, likeCount, deletion>>
    BY <1>20 DEF Statuses!Stop, Statuses!At
  <2>2. Jobs' /\ Counters' = Counters \ {r} /\ Likes'
    BY <1>3, <1>4, <1>6, <2>1
  <2> HIDE DEF Counters
  <2>3. /\ IsFiniteSet(Counters')
        /\ Cardinality(Counters') = IF r \in Counters THEN Cardinality(Counters) - 1 ELSE Cardinality(Counters)
        /\ Cardinality(Counters) \in Nat /\ Cardinality(views) \in Nat
    BY <1>1, <2>2, FS_RemoveElement, FS_CardinalityType
  <2>4. r \in Counters <=> job[r].step = "countView"
    BY DEF Counters
  <2>5. Views' /\ Rest'
    BY <1>1, <2>1, <2>3, <2>4
  <2> QED
    BY <1>2, <2>2, <2>5
<1> QED
  BY <1>11, <1>12, <1>13, <1>14, <1>15, <1>16, <1>17, <1>18, <1>19, <1>20 DEF Statuses!Next

-----------------------------------------------------------------------------
(* StationList.                                                               *)

\* Nobody follows, nothing is cached.
LEMMA StationListAtFirst == StationList!Init => StationList!IInv
<1> SUFFICES ASSUME StationList!Init PROVE StationList!IInv
  OBVIOUS
<1> DEFINE Toggle == {StationList!Idle} \cup
               [at : {"delete", "create", "count", "uncount", "invalidate"}, who : A \X D]
<1>1. v3 \in [B -> Toggle] /\ \A r \in B : v3[r].at = "idle"
  BY DEF StationList!Init, StationList!Idle
<1>2. \A s \in D : StationList!Toggling(s, "count") = {} /\ StationList!Toggling(s, "uncount") = {}
  BY <1>1 DEF StationList!Toggling
<1>3. \A s \in D : StationList!Under(s, "count") = 0 /\ StationList!Under(s, "uncount") = 0
  BY <1>2, SameOperators, FS_EmptySet DEF StationList!Under, StationList!Toggling
<1>4. v1 = {} /\ v2 = [s \in D |-> 0] /\ v4 = [s \in D |-> TRUE] /\ v6 = StationList!Idle
  BY DEF StationList!Init
<1>5. \A s \in D : StationList!RowsOf(s) = {}
  BY <1>4 DEF StationList!RowsOf
<1>6. StationList!CountFollowsRows
  BY <1>3, <1>4, <1>5, SameOperators, FS_EmptySet DEF StationList!CountFollowsRows
<1>7. v7 = [held |-> StationList!None, made |-> StationList!None]
      /\ v9 = [skewed |-> {}, late |-> FALSE, stops |-> 0, failures |-> 0]
  BY DEF StationList!Init
<1>8. v7 = [held |-> v7.held, made |-> v7.made] /\ StationList!ListedAreActive
  BY <1>7 DEF StationList!ListedAreActive
<1>9. v9 \in [skewed : SUBSET D, late : BOOLEAN, stops : Nat, failures : Nat]
  BY <1>7
<1>10. v1 \subseteq A \X D /\ v2 \in [D -> Int] /\ v4 \in [D -> BOOLEAN] /\ StationList!IsFiniteSet(v1)
  BY <1>4, SameOperators, FS_EmptySet
<1>11. \A s \in D : /\ StationList!IsFiniteSet(StationList!Toggling(s, "count"))
                    /\ StationList!IsFiniteSet(StationList!Toggling(s, "uncount"))
  BY <1>2, SameOperators, FS_EmptySet
<1> QED
  BY <1>1, <1>4, <1>6, <1>8, <1>9, <1>10, <1>11 DEF StationList!IInv

\* Toggles change a row and their own state, or the count and their own state; whoever
\* switches a station drops the list.
LEMMA StationListKept ==
  ASSUME StationList!IInv, StationList!Next
  PROVE  StationList!IInv'
<1> DEFINE follow == v1  followersCount == v2  toggle == v3  isActive == v4  switch == v6
           list == v7  faults == v9
           Idle == StationList!Idle
           None == StationList!None
           At == {"delete", "create", "count", "uncount", "invalidate"}
           Toggle == {Idle} \cup [at : At, who : A \X D]
           Faults == [skewed : SUBSET D, late : BOOLEAN, stops : Nat, failures : Nat]
           Rows(s) == {f \in follow : f[2] = s}
           Plus(s) == {r \in B : toggle[r].at = "count" /\ toggle[r].who[2] = s}
           Minus(s) == {r \in B : toggle[r].at = "uncount" /\ toggle[r].who[2] = s}
           Follows == /\ follow \subseteq A \X D /\ IsFiniteSet(follow) /\ followersCount \in [D -> Int]
                      /\ toggle \in [B -> Toggle] /\ \A s \in D : IsFiniteSet(Plus(s)) /\ IsFiniteSet(Minus(s))
           Balanced(s) == s \notin faults.skewed =>
                 followersCount[s] = Cardinality(Rows(s)) - Cardinality(Plus(s)) + Cardinality(Minus(s))
           Active == {s \in D : isActive[s]}
           Listed == /\ isActive \in [D -> BOOLEAN]
                     /\ switch \in {Idle} \cup [at : {"cascade", "invalidate"}, of : D]
                     /\ list = [held |-> list.held, made |-> list.made]
                     /\ faults \in Faults
                     /\ list.held # None /\ switch = Idle /\ ~faults.late => DOMAIN list.held.live = Active
<1>1. Follows /\ Listed /\ \A s \in D : Balanced(s)
  <2>1. \A s \in D : /\ StationList!Toggling(s, "count") = Plus(s) /\ StationList!Toggling(s, "uncount") = Minus(s)
                     /\ StationList!Under(s, "count") = Cardinality(Plus(s))
                     /\ StationList!Under(s, "uncount") = Cardinality(Minus(s))
                     /\ StationList!RowsOf(s) = Rows(s)
    BY SameOperators DEF StationList!Toggling, StationList!Under, StationList!RowsOf
  <2>2. StationList!CountFollowsRows
    BY DEF StationList!IInv
  <2>3. \A s \in D : StationList!IsFiniteSet(StationList!Toggling(s, "count"))
                    /\ StationList!IsFiniteSet(StationList!Toggling(s, "uncount"))
    BY DEF StationList!IInv
  <2>4. /\ follow \subseteq A \X D /\ StationList!IsFiniteSet(follow) /\ followersCount \in [D -> Int]
        /\ toggle \in [B -> Toggle]
    BY DEF StationList!IInv
  <2>5. Listed
    BY DEF StationList!IInv, StationList!ListedAreActive, StationList!Active
  <2> HIDE DEF Rows, Plus, Minus, Listed, Toggle
  <2>6. \A s \in D : Balanced(s)
    BY <2>1, <2>2, SameOperators DEF StationList!CountFollowsRows
  <2>7. Follows
    BY <2>1, <2>3, <2>4, SameOperators
  <2> QED
    BY <2>5, <2>6, <2>7
<1>2. ASSUME Follows', Listed', \A s \in D : Balanced(s)' PROVE StationList!IInv'
  <2>1. \A s \in D : /\ StationList!Toggling(s, "count")' = Plus(s)' /\ StationList!Toggling(s, "uncount")' = Minus(s)'
                     /\ StationList!Under(s, "count")' = Cardinality(Plus(s)')
                     /\ StationList!Under(s, "uncount")' = Cardinality(Minus(s)')
                     /\ StationList!RowsOf(s)' = Rows(s)'
    BY SameOperators DEF StationList!Toggling, StationList!Under, StationList!RowsOf
  <2>2. StationList!CountFollowsRows'
    BY <1>2, <2>1, SameOperators DEF StationList!CountFollowsRows
  <2>3. StationList!ListedAreActive'
    BY <1>2 DEF StationList!ListedAreActive, StationList!Active
  <2>4. \A s \in D : /\ StationList!IsFiniteSet(StationList!Toggling(s, "count"))'
                    /\ StationList!IsFiniteSet(StationList!Toggling(s, "uncount"))'
    BY <1>2, <2>1, SameOperators
  <2>5. StationList!IsFiniteSet(follow)'
    BY <1>2, SameOperators
  <2> HIDE DEF Rows, Plus, Minus
  <2>6. /\ follow' \subseteq A \X D /\ followersCount' \in [D -> Int] /\ toggle' \in [B -> Toggle]
        /\ isActive' \in [D -> BOOLEAN] /\ switch' \in {Idle} \cup [at : {"cascade", "invalidate"}, of : D]
        /\ list' = [held |-> list'.held, made |-> list'.made] /\ faults' \in Faults
    BY <1>2
  <2> QED
    BY <2>2, <2>3, <2>4, <2>5, <2>6 DEF StationList!IInv
<1>3. Idle \in Toggle /\ Idle.at = "idle"
  BY DEF StationList!Idle
<1> HIDE DEF Idle, None
\* The rows, the counts and the toggles stay.
<1>4. ASSUME UNCHANGED <<follow, followersCount, toggle>>, faults'.skewed = faults.skewed
      PROVE  Follows' /\ \A s \in D : Balanced(s)'
  BY <1>1, <1>4
\* A request goes on with another toggle.
<1>5. ASSUME NEW r \in B, NEW j \in Toggle, toggle' = [toggle EXCEPT ![r] = j]
      PROVE  /\ toggle' \in [B -> Toggle]
             /\ \A s \in D : Plus(s)' = IF j.at = "count" /\ j.who[2] = s THEN Plus(s) \cup {r} ELSE Plus(s) \ {r}
             /\ \A s \in D : Minus(s)' = IF j.at = "uncount" /\ j.who[2] = s THEN Minus(s) \cup {r} ELSE Minus(s) \ {r}
  <2>1. toggle' \in [B -> Toggle] /\ \A x \in B : toggle'[x] = IF x = r THEN j ELSE toggle[x]
    BY <1>1, <1>5
  <2> QED
    BY <2>1
<1>6. ASSUME NEW r \in B, toggle[r].at # "idle"
      PROVE  /\ toggle[r].who \in A \X D /\ toggle[r].who[2] \in D
             /\ \A at \in At : /\ [toggle[r] EXCEPT !.at = at] \in Toggle
                               /\ [toggle[r] EXCEPT !.at = at].at = at
                               /\ [toggle[r] EXCEPT !.at = at].who = toggle[r].who
  <2>1. toggle[r] \in [at : At, who : A \X D]
    BY <1>1, <1>3, <1>6
  <2> QED
    BY <2>1
\* ... that counts no more, nor did it before.
<1>7. ASSUME NEW r \in B, NEW j \in Toggle, toggle' = [toggle EXCEPT ![r] = j],
             j.at \notin {"count", "uncount"}, toggle[r].at \notin {"count", "uncount"},
             UNCHANGED <<follow, followersCount>>, faults'.skewed = faults.skewed
      PROVE  Follows' /\ \A s \in D : Balanced(s)'
  <2>1. \A s \in D : r \notin Plus(s) /\ r \notin Minus(s)
    BY <1>7
  <2>2. /\ toggle' \in [B -> Toggle]
        /\ \A s \in D : Plus(s)' = Plus(s) \ {r} /\ Minus(s)' = Minus(s) \ {r}
    BY <1>5, <1>7
  <2>3. \A s \in D : Rows(s)' = Rows(s)
    BY <1>7
  <2> HIDE DEF Rows, Plus, Minus, Toggle
  <2>4. \A s \in D : Plus(s)' = Plus(s) /\ Minus(s)' = Minus(s)
    BY <2>1, <2>2
  <2> QED
    BY <1>1, <1>7, <2>2, <2>3, <2>4
<1>8. \A s \in D : /\ IsFiniteSet(Rows(s)) /\ Cardinality(Rows(s)) \in Int
                   /\ Cardinality(Plus(s)) \in Int /\ Cardinality(Minus(s)) \in Int
  <2>1. \A s \in D : Rows(s) \in SUBSET follow
    OBVIOUS
  <2>2. \A s \in D : IsFiniteSet(Rows(s))
    BY <1>1, <2>1, FS_Subset
  <2> HIDE DEF Rows, Plus, Minus
  <2> QED
    BY <1>1, <2>2, FS_CardinalityType
<1> USE DEF Idle, None
\* toggleFollow.
<1>10. ASSUME NEW r \in B, NEW u \in A, NEW t \in D, StationList!FindFollow(r, u, t) PROVE StationList!IInv'
  <2>1. PICK j : j = [at |-> IF <<u, t>> \in follow THEN "delete" ELSE "create", who |-> <<u, t>>]
    OBVIOUS
  <2>2. j \in Toggle /\ j.at \in {"delete", "create"}
    BY <2>1
  <2>3. /\ toggle[r] = Idle /\ toggle' = [toggle EXCEPT ![r] = j]
        /\ UNCHANGED <<follow, followersCount, list, faults, isActive, switch>>
    BY <1>10, <2>1 DEF StationList!FindFollow, StationList!NotFollows
  <2>4. Follows' /\ \A s \in D : Balanced(s)'
    BY <1>3, <1>7, <2>2, <2>3
  <2> QED
    BY <1>1, <1>2, <2>3, <2>4
<1>11. ASSUME NEW r \in B, StationList!DeleteFollow(r) PROVE StationList!IInv'
  <2>1. PICK who : who = toggle[r].who
    OBVIOUS
  <2>2. PICK j : j = [toggle[r] EXCEPT !.at = "uncount"]
    OBVIOUS
  <2>3. /\ toggle[r].at = "delete" /\ toggle' = [toggle EXCEPT ![r] = j] /\ follow' = follow \ {who}
        /\ faults' = IF who \in follow THEN faults ELSE [faults EXCEPT !.skewed = faults.skewed \cup {who[2]}]
        /\ UNCHANGED <<followersCount, list, isActive, switch>>
    BY <1>11, <2>1, <2>2 DEF StationList!DeleteFollow, StationList!Goes, StationList!NotFollows
  <2>4. j \in Toggle /\ j.at = "uncount" /\ j.who = who /\ who \in A \X D /\ who[2] \in D
    BY <1>6, <2>1, <2>2, <2>3
  <2>5. /\ faults' \in Faults /\ faults'.late = faults.late
        /\ faults'.skewed = IF who \in follow THEN faults.skewed ELSE faults.skewed \cup {who[2]}
    BY <1>1, <2>3, <2>4
  <2>6. /\ toggle' \in [B -> Toggle]
        /\ \A s \in D : Plus(s)' = Plus(s) /\ Minus(s)' = IF s = who[2] THEN Minus(s) \cup {r} ELSE Minus(s)
        /\ r \notin Minus(who[2])
    <3>1. \A s \in D : r \notin Plus(s) /\ r \notin Minus(s)
      BY <2>3
    <3> HIDE DEF Plus, Minus, Toggle
    <3>2. toggle' = [toggle EXCEPT ![r] = j]
      BY <2>3
    <3>3. /\ toggle' \in [B -> Toggle]
          /\ \A s \in D : Plus(s)' = IF j.at = "count" /\ j.who[2] = s THEN Plus(s) \cup {r} ELSE Plus(s) \ {r}
          /\ \A s \in D : Minus(s)' = IF j.at = "uncount" /\ j.who[2] = s THEN Minus(s) \cup {r} ELSE Minus(s) \ {r}
      BY <1>5, <2>4, <3>2
    <3>4. ASSUME NEW s \in D
          PROVE  Plus(s)' = Plus(s) /\ Minus(s)' = IF s = who[2] THEN Minus(s) \cup {r} ELSE Minus(s)
      <4>1. Plus(s)' = Plus(s) \ {r} /\ r \notin Plus(s)
        BY <2>4, <3>1, <3>3
      <4>2. Minus(s)' = IF s = who[2] THEN Minus(s) \cup {r} ELSE Minus(s) \ {r}
        BY <2>4, <3>3
      <4>3. r \notin Minus(s)
        BY <3>1
      <4> QED
        BY <4>1, <4>2, <4>3
    <3> QED
      BY <2>4, <3>1, <3>3, <3>4
  <2>7. follow' \subseteq A \X D /\ IsFiniteSet(follow')
    BY <1>1, <2>3, FS_RemoveElement
  <2>8. \A s \in D : Rows(s)' = IF s = who[2] THEN Rows(s) \ {who} ELSE Rows(s)
    BY <2>3
  <2>9. who \in Rows(who[2]) <=> who \in follow
    OBVIOUS
  <2> HIDE DEF Rows, Plus, Minus
  <2>10. \A s \in D : IsFiniteSet(Plus(s)') /\ IsFiniteSet(Minus(s)')
    BY <1>1, <2>6, FS_AddElement
  <2>11. ASSUME NEW s \in D PROVE Balanced(s)'
    <3>1. CASE s # who[2]
      BY <1>1, <2>3, <2>5, <2>6, <2>8, <3>1
    <3>2. CASE s = who[2] /\ who \in follow
      <4>1. Cardinality(Rows(s)') = Cardinality(Rows(s)) - 1
        BY <1>8, <2>8, <2>9, <3>2, FS_RemoveElement
      <4>2. Cardinality(Minus(s)') = Cardinality(Minus(s)) + 1
        <5>1. Minus(s)' = Minus(s) \cup {r} /\ r \notin Minus(s) /\ IsFiniteSet(Minus(s))
          BY <1>1, <2>6, <3>2
        <5> QED
          BY <5>1, FS_AddElement
      <4> QED
        BY <1>1, <1>8, <2>3, <2>5, <2>6, <3>2, <4>1, <4>2
    <3>3. CASE s = who[2] /\ who \notin follow
      BY <2>5, <3>3
    <3> QED
      BY <3>1, <3>2, <3>3
  <2> QED
    BY <1>1, <1>2, <2>3, <2>5, <2>6, <2>7, <2>10, <2>11
<1>12. ASSUME NEW r \in B, StationList!CreateFollow(r) PROVE StationList!IInv'
  <2>1. PICK who : who = toggle[r].who
    OBVIOUS
  <2>2. PICK j : j = [toggle[r] EXCEPT !.at = "count"]
    OBVIOUS
  <2>3. /\ toggle[r].at = "create" /\ follow' = follow \cup {who}
        /\ toggle' = [toggle EXCEPT ![r] = IF who \notin follow THEN j ELSE Idle]
        /\ UNCHANGED <<followersCount, list, faults, isActive, switch>>
    BY <1>12, <2>1, <2>2 DEF StationList!CreateFollow, StationList!IsNew, StationList!Goes, StationList!NotFollows
  <2>4. j \in Toggle /\ j.at = "count" /\ j.who = who /\ who \in A \X D /\ who[2] \in D
    BY <1>6, <2>1, <2>2, <2>3
  <2>5. CASE who \in follow
    <3>1. follow' = follow
      BY <2>3, <2>5
    <3>2. Follows' /\ \A s \in D : Balanced(s)'
      BY <1>3, <1>7, <2>3, <2>5, <3>1
    <3> QED
      BY <1>1, <1>2, <2>3, <3>2
  <2>6. CASE who \notin follow
    <3>1. /\ toggle' \in [B -> Toggle]
          /\ \A s \in D : Minus(s)' = Minus(s) /\ Plus(s)' = IF s = who[2] THEN Plus(s) \cup {r} ELSE Plus(s)
          /\ r \notin Plus(who[2])
      <4>1. \A s \in D : r \notin Plus(s) /\ r \notin Minus(s)
        BY <2>3
      <4> HIDE DEF Plus, Minus, Toggle
      <4>2. toggle' = [toggle EXCEPT ![r] = j]
        BY <2>3, <2>6
      <4>3. /\ toggle' \in [B -> Toggle]
            /\ \A s \in D : Plus(s)' = IF j.at = "count" /\ j.who[2] = s THEN Plus(s) \cup {r} ELSE Plus(s) \ {r}
            /\ \A s \in D : Minus(s)' = IF j.at = "uncount" /\ j.who[2] = s THEN Minus(s) \cup {r} ELSE Minus(s) \ {r}
        BY <1>5, <2>4, <4>2
      <4>4. ASSUME NEW s \in D
            PROVE  Minus(s)' = Minus(s) /\ Plus(s)' = IF s = who[2] THEN Plus(s) \cup {r} ELSE Plus(s)
        <5>1. Minus(s)' = Minus(s) \ {r} /\ r \notin Minus(s)
          BY <2>4, <4>1, <4>3
        <5>2. Plus(s)' = IF s = who[2] THEN Plus(s) \cup {r} ELSE Plus(s) \ {r}
          BY <2>4, <4>3
        <5>3. r \notin Plus(s)
          BY <4>1
        <5> QED
          BY <5>1, <5>2, <5>3
      <4> QED
        BY <2>4, <4>1, <4>3, <4>4
    <3>2. follow' \subseteq A \X D /\ IsFiniteSet(follow')
      BY <1>1, <2>3, <2>4, FS_AddElement
    <3>3. \A s \in D : Rows(s)' = IF s = who[2] THEN Rows(s) \cup {who} ELSE Rows(s)
      BY <2>3
    <3>4. who \notin Rows(who[2])
      BY <2>6
    <3> HIDE DEF Rows, Plus, Minus
    <3>5. \A s \in D : IsFiniteSet(Plus(s)') /\ IsFiniteSet(Minus(s)')
      BY <1>1, <3>1, FS_AddElement
    <3>6. ASSUME NEW s \in D PROVE Balanced(s)'
      <4>1. CASE s # who[2]
        BY <1>1, <2>3, <3>1, <3>3, <4>1
      <4>2. CASE s = who[2]
        <5>1. Cardinality(Rows(s)') = Cardinality(Rows(s)) + 1
          BY <1>8, <3>3, <3>4, <4>2, FS_AddElement
        <5>2. Cardinality(Plus(s)') = Cardinality(Plus(s)) + 1
          <6>1. Plus(s)' = Plus(s) \cup {r} /\ r \notin Plus(s) /\ IsFiniteSet(Plus(s))
            BY <1>1, <3>1, <4>2
          <6> QED
            BY <6>1, FS_AddElement
        <5> QED
          BY <1>1, <1>8, <2>3, <3>1, <4>2, <5>1, <5>2
      <4> QED
        BY <4>1, <4>2
    <3> QED
      BY <1>1, <1>2, <2>3, <3>1, <3>2, <3>5, <3>6
  <2> QED
    BY <2>5, <2>6
<1>13. ASSUME NEW r \in B, StationList!CountFollow(r) PROVE StationList!IInv'
  <2>1. PICK t : t = toggle[r].who[2]
    OBVIOUS
  <2>2. PICK j : j = [toggle[r] EXCEPT !.at = "invalidate"]
    OBVIOUS
  <2>3. /\ toggle[r].at \in {"count", "uncount"} /\ toggle' = [toggle EXCEPT ![r] = j]
        /\ followersCount' = [followersCount EXCEPT
               ![t] = followersCount[t] + IF toggle[r].at = "count" THEN 1 ELSE 0 - 1]
        /\ UNCHANGED <<follow, list, faults, isActive, switch>>
    BY <1>13, <2>1, <2>2 DEF StationList!CountFollow, StationList!Goes, StationList!NotFollows
  <2>4. j \in Toggle /\ j.at = "invalidate" /\ t \in D
    BY <1>6, <2>1, <2>2, <2>3
  <2>5. /\ followersCount' \in [D -> Int]
        /\ followersCount'[t] = followersCount[t] + IF toggle[r].at = "count" THEN 1 ELSE 0 - 1
        /\ \A s \in D \ {t} : followersCount'[s] = followersCount[s]
    BY <1>1, <2>3, <2>4
  <2>6. /\ toggle' \in [B -> Toggle]
        /\ \A s \in D : Plus(s)' = Plus(s) \ {r} /\ Minus(s)' = Minus(s) \ {r}
        /\ \A s \in D : /\ r \in Plus(s) <=> s = t /\ toggle[r].at = "count"
                        /\ r \in Minus(s) <=> s = t /\ toggle[r].at = "uncount"
    BY <1>5, <2>1, <2>3, <2>4
  <2>7. \A s \in D : Rows(s)' = Rows(s)
    BY <2>3
  <2> HIDE DEF Rows, Plus, Minus
  <2>8. \A s \in D : IsFiniteSet(Plus(s)') /\ IsFiniteSet(Minus(s)')
    BY <1>1, <2>6, FS_RemoveElement
  <2>9. ASSUME NEW s \in D PROVE Balanced(s)'
    <3>1. /\ Cardinality(Plus(s)') = Cardinality(Plus(s)) - (IF r \in Plus(s) THEN 1 ELSE 0)
          /\ Cardinality(Minus(s)') = Cardinality(Minus(s)) - (IF r \in Minus(s) THEN 1 ELSE 0)
      BY <1>1, <1>8, <2>6, FS_RemoveElement
    <3>2. followersCount[s] \in Int
      BY <1>1
    <3>3. CASE s # t
      <4>1. Cardinality(Plus(s)') = Cardinality(Plus(s)) /\ Cardinality(Minus(s)') = Cardinality(Minus(s))
        BY <1>8, <2>6, <3>1, <3>3
      <4> QED
        BY <1>1, <2>3, <2>5, <2>7, <3>3, <4>1
    <3>4. CASE s = t /\ toggle[r].at = "count"
      <4>1. Cardinality(Plus(s)') = Cardinality(Plus(s)) - 1 /\ Cardinality(Minus(s)') = Cardinality(Minus(s))
        BY <1>8, <2>6, <3>1, <3>4
      <4>2. followersCount'[s] = followersCount[s] + 1
        BY <2>5, <3>4
      <4> QED
        BY <1>1, <1>8, <2>3, <2>7, <3>2, <4>1, <4>2
    <3>5. CASE s = t /\ toggle[r].at = "uncount"
      <4>1. Cardinality(Plus(s)') = Cardinality(Plus(s)) /\ Cardinality(Minus(s)') = Cardinality(Minus(s)) - 1
        BY <1>8, <2>6, <3>1, <3>5
      <4>2. followersCount'[s] = followersCount[s] - 1
        BY <2>5, <3>2, <3>5
      <4> QED
        BY <1>1, <1>8, <2>3, <2>7, <3>2, <4>1, <4>2
    <3> QED
      BY <2>3, <3>3, <3>4, <3>5
  <2> QED
    BY <1>1, <1>2, <2>3, <2>5, <2>6, <2>8, <2>9
<1>14. ASSUME NEW r \in B, StationList!InvalidateFollow(r) PROVE StationList!IInv'
  <2>1. /\ toggle[r].at = "invalidate" /\ toggle' = [toggle EXCEPT ![r] = Idle]
        /\ list' = [list EXCEPT !.held = None] /\ UNCHANGED <<follow, followersCount, faults, isActive, switch>>
    BY <1>14 DEF StationList!InvalidateFollow, StationList!NotFollows
  <2>2. Follows' /\ \A s \in D : Balanced(s)'
    BY <1>3, <1>7, <2>1
  <2>3. list' = [held |-> None, made |-> list.made]
    BY <1>1, <2>1
  <2> QED
    BY <1>1, <1>2, <2>1, <2>2, <2>3
\* The stations and their list.
<1>15. ASSUME NEW s \in D, StationList!SwitchStation(s) PROVE StationList!IInv'
  <2>1. /\ isActive' = [isActive EXCEPT ![s] = ~isActive[s]] /\ switch' = [at |-> "cascade", of |-> s]
        /\ UNCHANGED <<follow, followersCount, toggle, list, faults>>
    BY <1>15 DEF StationList!SwitchStation, StationList!NotSwitched
  <2>2. switch' # Idle /\ switch' \in [at : {"cascade", "invalidate"}, of : D]
    BY <1>3, <2>1
  <2>3. isActive' \in [D -> BOOLEAN]
    BY <1>1, <2>1
  <2> QED
    BY <1>1, <1>2, <1>4, <2>1, <2>2, <2>3
<1>16. CASE StationList!Cascade
  <2>1. /\ switch.at = "cascade" /\ switch' = [switch EXCEPT !.at = "invalidate"]
        /\ faults' = faults \/ faults' = [faults EXCEPT !.failures = faults.failures + 1]
        /\ UNCHANGED <<follow, followersCount, toggle, list, isActive>>
    BY <1>16 DEF StationList!Cascade, StationList!NotSwitched
  <2>2. switch \in [at : {"cascade", "invalidate"}, of : D]
    BY <1>1, <1>3, <2>1
  <2>3. switch' \in [at : {"cascade", "invalidate"}, of : D] /\ switch'.at = "invalidate"
    BY <2>1, <2>2
  <2>4. faults' \in Faults /\ faults'.skewed = faults.skewed
    BY <1>1, <2>1
  <2> QED
    BY <1>1, <1>2, <1>3, <1>4, <2>1, <2>3, <2>4
<1>17. CASE StationList!InvalidateStation \/ StationList!Expires
  <2>1. /\ list' = [list EXCEPT !.held = None] /\ switch' \in {switch, Idle}
        /\ UNCHANGED <<follow, followersCount, toggle, isActive, faults>>
    BY <1>17 DEF StationList!InvalidateStation, StationList!Invalidated, StationList!Expires, StationList!NotSwitched
  <2>2. list' = [held |-> None, made |-> list.made]
    BY <1>1, <2>1
  <2> QED
    BY <1>1, <1>2, <1>4, <2>1, <2>2
<1>18. CASE StationList!ReadStations
  <2>1. /\ list.held = None /\ UNCHANGED <<follow, followersCount, toggle, isActive, switch, faults>>
        /\ \E m : list' = [list EXCEPT !.made = m]
    BY <1>18 DEF StationList!ReadStations, StationList!NotSwitched
  <2>2. PICK m : list' = [list EXCEPT !.made = m]
    BY <2>1
  <2>3. list' = [held |-> None, made |-> m]
    BY <1>1, <2>1, <2>2
  <2> QED
    BY <1>1, <1>2, <1>4, <2>1, <2>3
<1>19. CASE StationList!StoreStations
  <2>1. PICK l : l = (DOMAIN list.made.live # Active)
    OBVIOUS
  <2>2. /\ list' = [held |-> list.made, made |-> None] /\ faults' = [faults EXCEPT !.late = l]
        /\ UNCHANGED <<follow, followersCount, toggle, isActive, switch>>
    BY <1>19, <2>1 DEF StationList!StoreStations, StationList!Active, StationList!NotSwitched
  <2>3. l \in BOOLEAN
    BY <2>1
  <2>4. faults' \in Faults /\ faults'.skewed = faults.skewed /\ faults'.late = l
    BY <1>1, <2>2, <2>3
  <2>5. ~l => DOMAIN list'.held.live = Active'
    BY <2>1, <2>2
  <2> QED
    BY <1>1, <1>2, <1>4, <2>2, <2>4, <2>5
<1>20. CASE StationList!HourPasses
  <2>1. UNCHANGED <<follow, followersCount, toggle, isActive, switch, list, faults>>
    BY <1>20 DEF StationList!HourPasses
  <2> QED
    BY <1>1, <1>2, <1>4, <2>1
<1>21. CASE StationList!Restart
  <2>1. PICK skew : skew = faults.skewed \cup {toggle[r].who[2] : r \in
                               {x \in B : toggle[x].at \in {"count", "uncount"}}}
    OBVIOUS
  <2>2. PICK l : l = (faults.late \/ switch # Idle)
    OBVIOUS
  <2>3. /\ faults' = [faults EXCEPT !.stops = faults.stops + 1, !.skewed = skew, !.late = l]
        /\ toggle' = [r \in B |-> Idle] /\ switch' = Idle /\ list' = [list EXCEPT !.made = None]
        /\ UNCHANGED <<follow, followersCount, isActive>>
    BY <1>21, <2>1, <2>2 DEF StationList!Restart
  <2>4. skew \subseteq D /\ l \in BOOLEAN
    <3>1. faults.skewed \subseteq D /\ faults.late \in BOOLEAN
      BY <1>1
    <3>2. \A r \in B : toggle[r].at \in {"count", "uncount"} => toggle[r].who[2] \in D
      BY <1>6
    <3> QED
      BY <2>1, <2>2, <3>1, <3>2
  <2>5. faults' \in Faults /\ faults'.skewed = skew /\ faults'.late = l
    <3>1. faults \in Faults /\ faults.stops + 1 \in Nat /\ skew \in SUBSET D
      BY <1>1, <2>4
    <3> QED
      BY <2>3, <2>4, <3>1
  <2>6. list' = [held |-> list.held, made |-> None]
    BY <1>1, <2>3
  <2>7. Listed'
    BY <1>1, <2>2, <2>3, <2>5, <2>6
  <2>8. toggle' \in [B -> Toggle] /\ \A s \in D : Plus(s)' = {} /\ Minus(s)' = {}
    BY <1>3, <2>3
  <2>9. \A s \in D \ skew : Plus(s) = {} /\ Minus(s) = {} /\ s \notin faults.skewed
    BY <2>1
  <2>10. \A s \in D : Rows(s)' = Rows(s)
    BY <2>3
  <2> HIDE DEF Rows, Plus, Minus
  <2>11. Follows'
    BY <1>1, <2>3, <2>8, FS_EmptySet
  <2>12. \A s \in D : Balanced(s)'
    BY <1>1, <2>3, <2>5, <2>8, <2>9, <2>10
  <2> QED
    BY <1>2, <2>7, <2>11, <2>12
<1> QED
  BY <1>10, <1>11, <1>12, <1>13, <1>14, <1>15, <1>16, <1>17, <1>18, <1>19, <1>20, <1>21 DEF StationList!Next

\* Whoever follows a station, in a list that is served, is one of those it counts.
LEMMA StationListAgrees == StationList!IInv => StationList!FollowersAndListAgree
<1> SUFFICES ASSUME StationList!IInv, v7.held # StationList!None, v6 = StationList!Idle, ~v9.late
             PROVE  StationList!ListIsOfActive
  BY DEF StationList!IInv, StationList!FollowersAndListAgree, StationList!ListIsOfActive
<1>1. DOMAIN v7.held.live = StationList!Active /\ StationList!Active \subseteq D
  BY DEF StationList!IInv, StationList!ListedAreActive, StationList!Active
<1>2. ASSUME NEW u \in A, NEW s \in DOMAIN StationList!Answer(u), StationList!Answer(u)[s].isFollowing
      PROVE  StationList!Answer(u)[s].followersCount > 0 \/ s \in v9.skewed \/ StationList!Under(s, "count") > 0
  <2>1. s \in D /\ <<u, s>> \in v1 /\ StationList!Answer(u)[s].followersCount = v2[s]
    BY <1>1, <1>2 DEF StationList!Answer
  <2>2. s \in v9.skewed \/ v2[s] = Cardinality(StationList!RowsOf(s)) - StationList!Under(s, "count")
                                   + StationList!Under(s, "uncount")
    BY <2>1, SameOperators DEF StationList!IInv, StationList!CountFollowsRows
  <2>3. StationList!RowsOf(s) \in SUBSET v1 /\ StationList!RowsOf(s) # {}
    BY <2>1 DEF StationList!RowsOf
  <2>4. IsFiniteSet(StationList!RowsOf(s))
    BY <2>3, SameOperators, FS_Subset DEF StationList!IInv
  <2>5. Cardinality(StationList!RowsOf(s)) \in Nat \ {0}
    BY <2>3, <2>4, FS_CardinalityType, FS_EmptySet
  <2>6. StationList!Under(s, "count") \in Nat /\ StationList!Under(s, "uncount") \in Nat
    BY <2>1, SameOperators, FS_CardinalityType DEF StationList!IInv, StationList!Under, StationList!Toggling
  <2> QED
    BY <2>1, <2>2, <2>5, <2>6
<1> QED
  BY <1>1, <1>2 DEF StationList!ListIsOfActive

-----------------------------------------------------------------------------
(* Presence.                                                                  *)

\* No socket has connected.
LEMMA PresenceAtFirst == Presence!Init => Presence!IInv
<1> SUFFICES ASSUME Presence!Init PROVE Presence!IInv
  OBVIOUS
<1>1. Presence!Live = {} /\ v3 = 0 /\ v7 = {} /\ v8 = {} /\ ~v6
  BY DEF Presence!Init, Presence!Live
<1>2. Cardinality({}) = 0 /\ IsFiniteSet({})
  BY FS_EmptySet
<1>3. /\ v2 \in [R -> {"new", "auth", "nothing", "over"}] /\ v4 \in [R -> SUBSET {"station"}]
      /\ v5 \in [R -> {"station"} \cup {"nothing"}] /\ {v6, v9, v10, v11} \subseteq BOOLEAN
      /\ \A s \in R : v4[s] = {}
  BY DEF Presence!Init, Presence!Nothing
<1>4. Presence!CountIsLive /\ Presence!RoomsAreLive /\ Presence!OnlineFollowsSockets
  BY <1>1, <1>2, <1>3, SameOperators DEF Presence!CountIsLive, Presence!RoomsAreLive, Presence!OnlineFollowsSockets
<1>5. Presence!LiveHaveConnected /\ Presence!OthersAreKnown
  BY <1>1 DEF Presence!LiveHaveConnected, Presence!OthersAreKnown
<1> QED
  BY <1>1, <1>2, <1>3, <1>4, <1>5, SameOperators DEF Presence!IInv, Presence!Nothing

\* Sockets connect, evict one another and leave; what they still do elsewhere follows later.
LEMMA PresenceKept ==
  ASSUME Presence!IInv, Presence!Next
  PROVE  Presence!IInv'
<1> DEFINE sockets == v1  handshake == v2  count == v3  rooms == v4  joining == v5  online == v6
           closing == v7  refreshing == v8  lapsed == v9  returned == v10  stray == v11
           Live == DOMAIN sockets
           Places == {"station"}
           Counted == Live \subseteq R /\ IsFiniteSet(Live) /\ count = Cardinality(Live) /\ Cardinality(Live) <= 2
           Shaken == handshake \in [R -> {"new", "auth", "nothing", "over"}] /\ \A s \in Live : handshake[s] = "nothing"
           Roomed == /\ rooms \in [R -> SUBSET Places] /\ joining \in [R -> Places \cup {"nothing"}]
                     /\ \A s \in R : rooms[s] # {} => s \in Live
           Truths == online \in BOOLEAN /\ lapsed \in BOOLEAN /\ returned \in BOOLEAN /\ stray \in BOOLEAN
           Marked == /\ Live # {} => online \/ lapsed \/ returned
                     /\ Live = {} /\ closing = {} /\ ~stray => ~online
                     /\ Live # {} /\ closing # {} => returned
                     /\ Live = {} /\ closing = {} /\ refreshing # {} => stray
<1>1. Counted /\ Shaken /\ Roomed /\ Truths /\ Marked
  <2>1. Counted
    BY SameOperators DEF Presence!IInv, Presence!CountIsLive, Presence!Live
  <2>2. Shaken
    BY DEF Presence!IInv, Presence!LiveHaveConnected, Presence!Nothing, Presence!Live
  <2>3. Roomed
    BY DEF Presence!IInv, Presence!RoomsAreLive, Presence!Nothing, Presence!Live
  <2>4. Truths
    BY DEF Presence!IInv
  <2>5. Marked
    BY DEF Presence!IInv, Presence!OnlineFollowsSockets, Presence!OthersAreKnown, Presence!Live
  <2> QED
    BY <2>1, <2>2, <2>3, <2>4, <2>5
<1>2. ASSUME Counted', Shaken', Roomed', Truths', Marked' PROVE Presence!IInv'
  <2>1. Presence!CountIsLive'
    BY <1>2, SameOperators DEF Presence!CountIsLive, Presence!Live
  <2>2. Presence!LiveHaveConnected'
    BY <1>2 DEF Presence!LiveHaveConnected, Presence!Nothing, Presence!Live
  <2>3. Presence!RoomsAreLive'
    BY <1>2 DEF Presence!RoomsAreLive, Presence!Live
  <2>4. Presence!OnlineFollowsSockets' /\ Presence!OthersAreKnown'
    BY <1>2 DEF Presence!OnlineFollowsSockets, Presence!OthersAreKnown, Presence!Live
  <2>5. {online', lapsed', returned', stray'} \subseteq BOOLEAN
    BY <1>2
  <2>6. /\ Presence!Live' \subseteq R /\ Presence!IsFiniteSet(Presence!Live') 
        /\ handshake' \in [R -> {"new", "auth", Presence!Nothing, "over"}]
        /\ rooms' \in [R -> SUBSET Places] /\ joining' \in [R -> Places \cup {Presence!Nothing}]
    BY <1>2, SameOperators DEF Presence!Live, Presence!Nothing
  <2> QED
    BY <2>1, <2>2, <2>3, <2>4, <2>5, <2>6, SameOperators DEF Presence!IInv, Presence!Live
\* Nobody comes or goes.
<1>3. ASSUME UNCHANGED <<sockets, count>> PROVE Counted' /\ Live' = Live
  BY <1>1, <1>3
\* The sockets in gone leave.
<1>4. ASSUME NEW gone \in SUBSET Live, gone # {}, NEW left, NEW n,
             Presence!Close(gone, left, n), Live' = Live \ gone, left = Live \ gone,
             n = count - Cardinality(gone), joining' = joining, UNCHANGED <<online, refreshing, lapsed, returned, stray>>,
             \A s \in R : handshake'[s] = IF s \in gone THEN "over" ELSE handshake[s],
             handshake' \in [R -> {"new", "auth", "nothing", "over"}]
      PROVE  Presence!IInv'
  <2>1. /\ rooms' = [s \in R |-> IF s \in gone THEN {} ELSE rooms[s]] /\ count' = n
        /\ left # {} => closing' = closing
        /\ left = {} => closing' # {}
    BY <1>4 DEF Presence!Close
  <2>2. /\ IsFiniteSet(Live') /\ Cardinality(Live') = Cardinality(Live) - Cardinality(gone)
        /\ Cardinality(Live) \in Nat /\ Cardinality(gone) \in Nat /\ Cardinality(Live') \in Nat
    <3>1. IsFiniteSet(gone)
      BY <1>1, <1>4, FS_Subset
    <3>2. IsFiniteSet(Live \ gone) /\ Cardinality(Live \ gone) = Cardinality(Live) - Cardinality(Live \cap gone)
      BY <1>1, FS_Difference
    <3>3. Live \cap gone = gone
      OBVIOUS
    <3> QED
      BY <1>1, <1>4, <3>1, <3>2, <3>3, FS_CardinalityType
  <2>3. Counted'
    BY <1>1, <1>4, <2>1, <2>2
  <2>4. Shaken'
    BY <1>1, <1>4
  <2>5. Roomed'
    BY <1>1, <1>4, <2>1
  <2>6. Truths' /\ Marked'
    BY <1>1, <1>4, <2>1
  <2> QED
    BY <1>2, <2>3, <2>4, <2>5, <2>6
<1>10. ASSUME NEW s \in R, Presence!Handshake(s) PROVE Presence!IInv'
  <2>1. PICK h \in {"auth", "over"} : handshake' = [handshake EXCEPT ![s] = h]
    BY <1>10 DEF Presence!Handshake
  <2>2. handshake[s] = "new" /\ UNCHANGED <<sockets, count, rooms, joining, closing, returned, online, refreshing, lapsed, stray>>
    BY <1>10 DEF Presence!Handshake, Presence!Marker
  <2>3. Shaken'
    BY <1>1, <2>1, <2>2
  <2> QED
    BY <1>1, <1>2, <2>2, <2>3
<1>11. ASSUME NEW s \in R, Presence!Connect(s) PROVE Presence!IInv'
  <2> DEFINE full == count >= 2 /\ Live # {}
  <2>1. PICK gone \in Presence!Evicted :
           /\ sockets' = [t \in (Live \ gone) \cup {s} |-> IF t = s THEN Live \ gone ELSE sockets[t] \ gone]
           /\ handshake' = [t \in R |-> IF t = s THEN "nothing" ELSE IF t \in gone THEN "over" ELSE handshake[t]]
           /\ Presence!Close(gone, IF full THEN Live \ gone ELSE {s},
                             (IF full THEN Presence!Less(count) ELSE count) + 1)
    BY <1>11 DEF Presence!Connect, Presence!Full, Presence!Live, Presence!Nothing, Presence!NewCount
  <2>2. /\ handshake[s] = "auth" /\ online' \in {TRUE, online} /\ lapsed' = ~online' /\ returned' = (closing' # {})
        /\ UNCHANGED <<joining, refreshing, stray>>
    BY <1>11 DEF Presence!Connect
  <2>3. gone \subseteq Live /\ Cardinality(gone) = IF full THEN 1 ELSE 0
    <3>1. CASE full
      <4>1. PICK t \in Live : gone = {t}
        BY <2>1, <3>1 DEF Presence!Evicted, Presence!Full, Presence!Live
      <4> QED
        BY <3>1, <4>1, FS_Singleton
    <3>2. CASE ~full
      <4>1. gone = {}
        BY <2>1, <3>2 DEF Presence!Evicted, Presence!Full, Presence!Live
      <4> QED
        BY <3>2, <4>1, FS_EmptySet
    <3> QED
      BY <3>1, <3>2
  <2>4. s \notin Live /\ Live' = (Live \ gone) \cup {s}
    BY <1>1, <2>1, <2>2
  <2>5. /\ rooms' = [t \in R |-> IF t \in gone THEN {} ELSE rooms[t]]
        /\ count' = (IF full THEN Presence!Less(count) ELSE count) + 1
    BY <2>1 DEF Presence!Close
  <2>6. /\ IsFiniteSet(Live') /\ Cardinality(Live) \in Nat
        /\ Cardinality(Live') = Cardinality(Live) - Cardinality(gone) + 1
    <3>1. IsFiniteSet(Live \ gone) /\ Cardinality(Live \ gone) = Cardinality(Live) - Cardinality(Live \cap gone)
      BY <1>1, FS_Difference
    <3>2. Live \cap gone = gone /\ s \notin Live \ gone
      BY <2>3, <2>4
    <3>3. PICK kept : kept = Live \ gone
      OBVIOUS
    <3>4. /\ IsFiniteSet(kept \cup {s})
          /\ Cardinality(kept \cup {s}) = Cardinality(kept) + 1
      BY <3>1, <3>2, <3>3, FS_AddElement
    <3>5. Live' = kept \cup {s} /\ Cardinality(Live) \in Nat
      BY <1>1, <2>4, <3>3, FS_CardinalityType
    <3> QED
      BY <3>1, <3>2, <3>3, <3>4, <3>5
  <2>7. Counted'
    <3>1. CASE full
      BY <1>1, <2>3, <2>4, <2>5, <2>6, <3>1 DEF Presence!Less
    <3>2. CASE ~full
      <4>1. count < 2
        BY <1>1, <2>6, <3>2, FS_EmptySet
      <4> QED
        BY <1>1, <2>3, <2>4, <2>5, <2>6, <3>2, <4>1
    <3> QED
      BY <3>1, <3>2
  <2>8. Shaken'
    <3>1. \A t \in Live' : handshake'[t] = "nothing"
      BY <1>1, <2>1, <2>4
    <3> QED
      BY <1>1, <2>1, <3>1
  <2>9. Roomed'
    BY <1>1, <2>2, <2>4, <2>5
  <2>10. Truths' /\ Marked'
    BY <1>1, <2>2, <2>4
  <2> QED
    BY <1>2, <2>7, <2>8, <2>9, <2>10
<1>12. ASSUME NEW s \in R, Presence!Disconnect(s) PROVE Presence!IInv'
  <2>1. /\ s \in Live /\ Presence!Close({s}, Live \ {s}, Presence!Less(count)) /\ Live' = Live \ {s}
        /\ handshake' = [handshake EXCEPT ![s] = "over"]
        /\ UNCHANGED <<joining, returned, online, refreshing, lapsed, stray>>
    BY <1>12 DEF Presence!Disconnect, Presence!Ends, Presence!Without, Presence!Live, Presence!Marker
  <2>2. Cardinality({s}) = 1 /\ Cardinality(Live) \in Nat /\ Cardinality(Live) # 0
    BY <1>1, <2>1, FS_Singleton, FS_EmptySet, FS_CardinalityType
  <2>3. Presence!Less(count) = count - Cardinality({s})
    BY <1>1, <2>2 DEF Presence!Less
  <2>4. /\ handshake' \in [R -> {"new", "auth", "nothing", "over"}]
        /\ \A t \in R : handshake'[t] = IF t \in {s} THEN "over" ELSE handshake[t]
    BY <1>1, <2>1
  <2> QED
    BY <1>4, <2>1, <2>3, <2>4
<1>13. CASE Presence!DisconnectUserSockets
  <2>1. PICK gone \in (SUBSET Live) \ {{}} :
           /\ sockets' = Presence!Without(gone)
           /\ handshake' = [s \in R |-> IF s \in gone THEN "over" ELSE handshake[s]]
           /\ Presence!Close(gone, Live \ gone, count - Presence!Cardinality(gone))
    BY <1>13 DEF Presence!DisconnectUserSockets, Presence!Live
  <2>2. UNCHANGED <<joining, returned, online, refreshing, lapsed, stray>>
    BY <1>13 DEF Presence!DisconnectUserSockets, Presence!Marker
  <2>3. Live' = Live \ gone /\ count - Presence!Cardinality(gone) = count - Cardinality(gone)
    BY <2>1, SameOperators DEF Presence!Without, Presence!Live
  <2>4. handshake' \in [R -> {"new", "auth", "nothing", "over"}]
    BY <1>1, <2>1
  <2> QED
    BY <1>4, <2>1, <2>2, <2>3, <2>4
<1>14. ASSUME NEW s \in R, Presence!RemoveOperatorOnline(s) PROVE Presence!IInv'
  <2>1. /\ s \in closing /\ closing' = closing \ {s} /\ online' \in {FALSE, online} /\ stray' = (online' \/ refreshing # {})
        /\ UNCHANGED <<sockets, handshake, count, rooms, joining, refreshing, lapsed, returned>>
    BY <1>14 DEF Presence!RemoveOperatorOnline
  <2>2. Truths' /\ Marked'
    BY <1>1, <2>1
  <2> QED
    BY <1>1, <1>2, <2>1, <2>2
<1>15. ASSUME NEW s \in R, Presence!JoinStation(s) PROVE Presence!IInv'
  <2>1. /\ s \in Live /\ rooms' = [rooms EXCEPT ![s] = rooms[s] \cup {"station"}]
        /\ UNCHANGED <<sockets, handshake, count, joining, online, closing, lapsed, returned, stray>>
    BY <1>15 DEF Presence!JoinStation, Presence!Live
  <2>2. Roomed' /\ Marked'
    BY <1>1, <2>1
  <2> QED
    BY <1>1, <1>2, <2>1, <2>2
<1>16. ASSUME NEW s \in R, NEW room \in Places, Presence!AskToJoin(s, room) PROVE Presence!IInv'
  <2>1. /\ joining' = [joining EXCEPT ![s] = room]
        /\ UNCHANGED <<sockets, handshake, count, rooms, closing, returned, online, refreshing, lapsed, stray>>
    BY <1>16 DEF Presence!AskToJoin, Presence!Marker
  <2>2. Roomed'
    BY <1>1, <2>1
  <2> QED
    BY <1>1, <1>2, <2>1, <2>2
<1>17. ASSUME NEW s \in R, Presence!JoinOrNot(s) PROVE Presence!IInv'
  <2>1. /\ joining[s] # "nothing" /\ joining' = [joining EXCEPT ![s] = "nothing"]
        /\ \/ s \in Live /\ rooms' = [rooms EXCEPT ![s] = rooms[s] \cup {joining[s]}]
           \/ rooms' = rooms
        /\ UNCHANGED <<sockets, handshake, count, closing, returned, online, refreshing, lapsed, stray>>
    BY <1>17 DEF Presence!JoinOrNot, Presence!Joins, Presence!Live, Presence!Nothing, Presence!Marker
  <2>2. joining[s] \in Places
    BY <1>1, <2>1
  <2>3. Roomed'
    BY <1>1, <2>1, <2>2
  <2> QED
    BY <1>1, <1>2, <2>1, <2>3
<1>18. ASSUME NEW s \in R, NEW room \in Places, Presence!Leave(s, room) PROVE Presence!IInv'
  <2>1. /\ room \in rooms[s] /\ rooms' = [rooms EXCEPT ![s] = rooms[s] \ {room}]
        /\ UNCHANGED <<sockets, handshake, count, joining, closing, returned, online, refreshing, lapsed, stray>>
    BY <1>18 DEF Presence!Leave, Presence!Marker
  <2>2. Roomed'
    BY <1>1, <2>1
  <2> QED
    BY <1>1, <1>2, <2>1, <2>2
<1>19. ASSUME NEW s \in R, Presence!Ping(s) \/ Presence!Refresh(s) PROVE Presence!IInv'
  <2>1. UNCHANGED <<sockets, handshake, count, rooms, joining, closing, returned, stray>>
    BY <1>19 DEF Presence!Ping, Presence!Refresh
  <2>2. CASE Presence!Ping(s)
    <3>1. Live # {} /\ UNCHANGED <<online, lapsed>>
      BY <2>2 DEF Presence!Ping, Presence!Live
    <3> QED
      BY <1>1, <1>2, <2>1, <3>1
  <2>3. CASE Presence!Refresh(s)
    <3>1. s \in refreshing /\ refreshing' = refreshing \ {s}
          /\ ((online' = TRUE /\ lapsed' = FALSE) \/ UNCHANGED <<online, lapsed>>)
      BY <2>3 DEF Presence!Refresh
    <3>2. CASE online' = TRUE /\ lapsed' = FALSE
      BY <1>1, <1>2, <2>1, <3>1, <3>2
    <3>3. CASE UNCHANGED <<online, lapsed>>
      BY <1>1, <1>2, <2>1, <3>1, <3>3
    <3> QED
      BY <3>1, <3>2, <3>3
  <2> QED
    BY <1>19, <2>2, <2>3
<1>20. CASE Presence!Expires
  <2>1. /\ online' = FALSE /\ lapsed' = TRUE /\ stray' = (refreshing # {})
        /\ UNCHANGED <<sockets, handshake, count, rooms, joining, closing, refreshing, returned>>
    BY <1>20 DEF Presence!Expires
  <2>2. Truths' /\ Marked'
    BY <1>1, <2>1
  <2> QED
    BY <1>1, <1>2, <2>1, <2>2
<1>21. CASE Presence!Restart
  <2>1. /\ sockets' = Presence!Without(Live) /\ count' = 0 /\ closing' = {} /\ refreshing' = {}
        /\ handshake' = [s \in R |-> IF handshake[s] = "new" THEN "new" ELSE "over"]
        /\ rooms' = [s \in R |-> {}] /\ joining' = [s \in R |-> "nothing"]
        /\ stray' = online /\ UNCHANGED <<online, lapsed, returned>>
    BY <1>21 DEF Presence!Restart, Presence!Live, Presence!Nothing
  <2>2. Live' = {}
    BY <2>1 DEF Presence!Without, Presence!Live
  <2>3. Counted'
    BY <2>1, <2>2, FS_EmptySet
  <2>4. Shaken' /\ Roomed' /\ Truths' /\ Marked'
    BY <1>1, <2>1, <2>2
  <2> QED
    BY <1>2, <2>3, <2>4
<1> QED
  BY <1>10, <1>11, <1>12, <1>13, <1>14, <1>15, <1>16, <1>17, <1>18, <1>19, <1>20, <1>21 DEF Presence!Next

-----------------------------------------------------------------------------
(* WeeklyPosts.                                                               *)

\* There are as many ranks as fans.
LEMMA RanksAreCounted ==
  ASSUME WeeklyPosts!FansAssumption
  PROVE  /\ WeeklyPosts!Ranks \subseteq Nat \ {0}
         /\ B # {} => 1 \in WeeklyPosts!Ranks
         /\ \A k \in WeeklyPosts!Ranks \ {1} : k - 1 \in WeeklyPosts!Ranks
<1>1. IsFiniteSet(B) /\ WeeklyPosts!Ranks = 1 .. Cardinality(B)
  BY SameOperators DEF WeeklyPosts!FansAssumption, WeeklyPosts!Ranks
<1>2. Cardinality(B) \in Nat /\ (B # {} => Cardinality(B) # 0)
  BY <1>1, FS_CardinalityType, FS_EmptySet
<1> QED
  BY <1>1, <1>2

\* Nothing is posted.
LEMMA WeeklyPostsAtFirst == WeeklyPosts!FansAssumption /\ WeeklyPosts!Init => WeeklyPosts!IInv
<1> SUFFICES ASSUME WeeklyPosts!FansAssumption, WeeklyPosts!Init PROVE WeeklyPosts!IInv
  OBVIOUS
<1> DEFINE Weeks == {"w1", "w2"}
           Steps == [step : {"idle", "rank", "insert"}, week : Weeks \cup {"none"}, fans : Seq(B), next : Nat \ {0}]
<1>1. /\ WeeklyPosts!Idle \in Steps /\ WeeklyPosts!Idle.step = "idle" /\ WeeklyPosts!Distinct(WeeklyPosts!Idle.fans)
      /\ WeeklyPosts!Distinct(<< >>)
  BY DEF WeeklyPosts!Idle, WeeklyPosts!Distinct
<1>2. v3 = [r \in A |-> WeeklyPosts!Idle]
  BY DEF WeeklyPosts!Init
<1> HIDE DEF Steps
<1>3. v3 \in [A -> Steps] /\ \A r \in A : v3[r].step = "idle" /\ WeeklyPosts!Distinct(v3[r].fans)
  BY <1>1, <1>2
<1>4. WeeklyPosts!OneRunInserts
  BY <1>3 DEF WeeklyPosts!OneRunInserts, WeeklyPosts!Inserts
<1>7. /\ v1 = [w \in Weeks |-> [k \in WeeklyPosts!Ranks |-> "none"]]
      /\ v2 = [w \in Weeks |-> << >>] /\ v4 = 0
  BY DEF WeeklyPosts!Init
<1> HIDE DEF Weeks
<1>5. \A w \in Weeks : v1[w] = [k \in WeeklyPosts!Ranks |-> "none"] /\ v2[w] = << >>
  BY <1>7
<1>6. WeeklyPosts!PostsAreInOrder /\ WeeklyPosts!OneRanking
  <2>1. \A w \in Weeks, k \in WeeklyPosts!Ranks : v1[w][k] = "none"
    BY <1>5
  <2> QED
    BY <2>1 DEF WeeklyPosts!PostsAreInOrder, WeeklyPosts!OneRanking, Weeks
<1>8. /\ v1 \in [Weeks -> [WeeklyPosts!Ranks -> B \union {"none"}]]
      /\ v2 \in [Weeks -> Seq(B)] /\ v4 \in Nat
  BY <1>7
<1>9. \A w \in Weeks : WeeklyPosts!Distinct(v2[w])
  BY <1>1, <1>5
<1> QED
  BY <1>3, <1>4, <1>6, <1>8, <1>9 DEF WeeklyPosts!IInv, Steps, Weeks

\* Only a run that meets no duplicate inserts a post, and it is the one that inserted the first.
LEMMA WeeklyPostsKept ==
  ASSUME WeeklyPosts!FansAssumption, WeeklyPosts!IInv, WeeklyPosts!Next
  PROVE  WeeklyPosts!IInv'
<1> DEFINE post == v1  ranking == v2  run == v3  removed == v4
           Weeks == {"w1", "w2"}
           Ranks == WeeklyPosts!Ranks
           Step == [step : {"idle", "rank", "insert"}, week : Weeks \cup {"none"}, fans : Seq(B), next : Nat \ {0}]
           Distinct(fans) == \A i, j \in DOMAIN fans : fans[i] = fans[j] => i = j
           Fit(j) == /\ Distinct(j.fans) /\ (j.step = "insert" => j.next <= Len(j.fans) + 1)
                     /\ (j.step # "idle" => j.week \in Weeks) /\ (j.step = "rank" => j.next = 1)
           Inserting(j, w) == j.step = "insert" /\ j.next > 1 /\ j.week = w
           Posts(j, w) == \A k \in Ranks : post[w][k] = IF k < j.next THEN j.fans[k] ELSE "none"
           InOrder == removed = 0 => \A w \in Weeks :
                        \A k, m \in Ranks : m < k /\ post[w][k] # "none" => post[w][m] # "none"
           OneRun == removed = 0 => \A w \in Weeks :
                        /\ \A r \in A : Inserting(run[r], w) => Posts(run[r], w)
                        /\ \A r, q \in A : Inserting(run[r], w) /\ Inserting(run[q], w) => r = q
           OneFan == removed = 0 => \A w \in Weeks :
                        \A k, m \in Ranks : post[w][k] = post[w][m] /\ post[w][k] # "none" => k = m
           Typed == /\ post \in [Weeks -> [Ranks -> B \union {"none"}]]
                    /\ ranking \in [Weeks -> Seq(B)] /\ \A w \in Weeks : Distinct(ranking[w])
                    /\ run \in [A -> Step] /\ removed \in Nat
<1>1. /\ Typed /\ (\A r \in A : Fit(run[r])) /\ InOrder /\ OneRun /\ OneFan
  <2>1. Typed /\ \A r \in A : Fit(run[r])
    BY DEF WeeklyPosts!IInv, WeeklyPosts!Distinct
  <2>2. InOrder
    BY DEF WeeklyPosts!IInv, WeeklyPosts!PostsAreInOrder
  <2>3. OneRun
    BY DEF WeeklyPosts!IInv, WeeklyPosts!OneRunInserts, WeeklyPosts!Inserts
  <2>4. OneFan
    BY DEF WeeklyPosts!IInv, WeeklyPosts!OneRanking
  <2> QED
    BY <2>1, <2>2, <2>3, <2>4
<1>2. /\ Ranks \subseteq Nat \ {0} /\ (B # {} => 1 \in Ranks)
      /\ \A k \in Ranks \ {1} : k - 1 \in Ranks
  BY RanksAreCounted
<1>3. ASSUME Typed', \A r \in A : Fit(run'[r]), InOrder', OneRun', OneFan' PROVE WeeklyPosts!IInv'
  <2>1. WeeklyPosts!PostsAreInOrder'
    BY <1>3 DEF WeeklyPosts!PostsAreInOrder, WeeklyPosts!Ranks
  <2>2. WeeklyPosts!OneRunInserts'
    BY <1>3 DEF WeeklyPosts!OneRunInserts, WeeklyPosts!Inserts, WeeklyPosts!Ranks
  <2>3. WeeklyPosts!OneRanking'
    <3>1. ASSUME removed' = 0, NEW w \in Weeks, NEW k \in Ranks \ {1}, post'[w][k] # "none"
          PROVE  post'[w][k - 1] # "none"
      <4>1. PICK m : m = k - 1
        OBVIOUS
      <4>2. m \in Ranks /\ m < k
        <5>1. k \in Ranks /\ k # 1
          BY <3>1
        <5>2. k \in Nat /\ k - 1 \in Ranks
          BY ONLY <1>2, <5>1
        <5> QED
          BY ONLY <4>1, <5>2
      <4>3. post'[w][m] # "none"
        BY <1>3, <3>1, <4>2
      <4> QED
        BY <4>1, <4>3
    <3> QED
      BY <1>3, <3>1 DEF WeeklyPosts!OneRanking, WeeklyPosts!Ranks
  <2>4. (\A w \in Weeks : WeeklyPosts!Distinct(ranking[w])') /\ \A r \in A : WeeklyPosts!Distinct(run[r].fans)'
    BY <1>3 DEF WeeklyPosts!Distinct
  <2>5. /\ Typed'
        /\ \A r \in A : /\ run'[r].step = "insert" => run'[r].next <= Len(run'[r].fans) + 1
                        /\ run'[r].step # "idle" => run'[r].week \in Weeks
                        /\ run'[r].step = "rank" => run'[r].next = 1
    BY <1>3
  <2> QED
    BY <2>1, <2>2, <2>3, <2>4, <2>5 DEF WeeklyPosts!IInv, WeeklyPosts!Ranks
<1>17. "none" \notin Weeks
  OBVIOUS
<1> HIDE DEF Ranks, Step, Weeks
<1>4. \A r \in A : run[r] \in Step /\ Fit(run[r])
  BY <1>1
<1>5. \A j \in Step : /\ j.fans \in Seq(B) /\ j.next \in Nat \ {0} /\ j.step \in {"idle", "rank", "insert"}
                      /\ Len(j.fans) \in Nat /\ DOMAIN j.fans = 1 .. Len(j.fans)
  BY DEF Step
<1>6. WeeklyPosts!Idle \in Step /\ WeeklyPosts!Idle.step = "idle" /\ WeeklyPosts!Idle.next = 1 /\ WeeklyPosts!Idle.fans = << >>
  BY DEF WeeklyPosts!Idle, Step
\* A run goes on to something else, but does not go on inserting.
<1>7. ASSUME NEW r \in A, NEW j \in Step, Fit(j), ~(j.step = "insert" /\ j.next > 1),
             WeeklyPosts!Goes(r, j), UNCHANGED <<post, ranking, removed>>
      PROVE  WeeklyPosts!IInv'
  <2>1. run' \in [A -> Step] /\ \A q \in A : run'[q] = IF q = r THEN j ELSE run[q]
    BY <1>1, <1>7 DEF WeeklyPosts!Goes
  <2>2. Typed' /\ (\A q \in A : Fit(run'[q])) /\ InOrder' /\ OneFan'
    BY <1>1, <1>7, <2>1
  <2>3. OneRun'
    <3>1. ASSUME NEW w \in Weeks, NEW q \in A, Inserting(run'[q], w) PROVE run'[q] = run[q]
      BY <1>7, <2>1, <3>1
    <3> QED
      BY <1>1, <1>7, <3>1
  <2> QED
    BY <1>3, <2>2, <2>3
<1>8. ASSUME NEW r \in A, WeeklyPosts!Goes(r, WeeklyPosts!Idle), UNCHANGED <<post, ranking, removed>>
      PROVE  WeeklyPosts!IInv'
  BY <1>6, <1>7, <1>8
<1>10. ASSUME NEW w \in Weeks, WeeklyPosts!Spend(w) PROVE WeeklyPosts!IInv'
  <2>1. UNCHANGED <<post, run, removed>>
    BY <1>10 DEF WeeklyPosts!Spend
  <2>4. PICK fans : fans = ranking[w]
    OBVIOUS
  <2>5. fans \in Seq(B) /\ Distinct(fans)
    BY <1>1, <2>4
  <2>2. \E new \in Seq(B) : Distinct(new) /\ ranking' = [ranking EXCEPT ![w] = new]
    <3>1. ASSUME NEW f \in B, \A k \in DOMAIN fans : fans[k] # f,
                 ranking' = [ranking EXCEPT ![w] = Append(fans, f)]
          PROVE  \E new \in Seq(B) : Distinct(new) /\ ranking' = [ranking EXCEPT ![w] = new]
      <4>1. PICK n : n = Len(fans) + 1
        OBVIOUS
      <4>2. PICK new : new = Append(fans, f)
        OBVIOUS
      <4>3. /\ new \in Seq(B) /\ DOMAIN new = DOMAIN fans \union {n} /\ new[n] = f
            /\ \A k \in DOMAIN fans : new[k] = fans[k]
        BY <2>5, <3>1, <4>1, <4>2, OneIsAppended
      <4>4. Distinct(new)
        BY <2>5, <3>1, <4>3
      <4> QED
        BY <3>1, <4>2, <4>3, <4>4
    <3>2. ASSUME NEW k \in DOMAIN fans \ {1},
                 ranking' = [ranking EXCEPT ![w] = [fans EXCEPT ![k] = fans[k - 1], ![k - 1] = fans[k]]]
          PROVE  \E new \in Seq(B) : Distinct(new) /\ ranking' = [ranking EXCEPT ![w] = new]
      <4>1. DOMAIN fans = 1 .. Len(fans) /\ Len(fans) \in Nat
        BY <2>5
      <4>2. k \in Nat /\ k - 1 \in DOMAIN fans /\ k - 1 # k
        BY <3>2, <4>1
      <4>3. fans \in [DOMAIN fans -> B]
        BY <2>5
      <4>7. PICK new : new = [fans EXCEPT ![k] = fans[k - 1], ![k - 1] = fans[k]]
        OBVIOUS
      <4>4. /\ new \in [DOMAIN fans -> B]
            /\ \A i \in DOMAIN fans : new[i] = IF i = k - 1 THEN fans[k] ELSE IF i = k THEN fans[k - 1] ELSE fans[i]
        BY <3>2, <4>2, <4>3, <4>7
      <4>5. new \in Seq(B) /\ DOMAIN new = DOMAIN fans
        BY <4>1, <4>4
      <4>6. ASSUME NEW i \in DOMAIN fans, NEW j \in DOMAIN fans, new[i] = new[j] PROVE i = j
        BY <2>5, <3>2, <4>2, <4>4, <4>6
      <4>8. Distinct(new)
        BY <4>5, <4>6
      <4> QED
        BY <3>2, <4>5, <4>7, <4>8
    <3> QED
      BY <1>10, <2>4, <3>1, <3>2 DEF WeeklyPosts!Spend
  <2>6. PICK new \in Seq(B) : Distinct(new) /\ ranking' = [ranking EXCEPT ![w] = new]
    BY <2>2
  <2>7. ranking' \in [Weeks -> Seq(B)] /\ \A u \in Weeks : ranking'[u] = IF u = w THEN new ELSE ranking[u]
    BY <1>1, <2>6
  <2>8. \A u \in Weeks : Distinct(ranking'[u])
    BY <1>1, <2>6, <2>7
  <2>3. Typed' /\ (\A r \in A : Fit(run'[r])) /\ InOrder' /\ OneRun' /\ OneFan'
    BY <1>1, <2>1, <2>7, <2>8
  <2> QED
    BY <1>3, <2>3
<1>11. CASE WeeklyPosts!Remove
  <2>1. removed' = removed + 1 /\ UNCHANGED <<ranking, run>>
    BY <1>11 DEF WeeklyPosts!Remove
  <2>2. \E w \in Weeks, k \in Ranks : post' = [post EXCEPT ![w] = [post[w] EXCEPT ![k] = "none"]]
    BY <1>11 DEF WeeklyPosts!Remove, Ranks, Weeks
  <2>3. Typed' /\ removed' # 0
    BY <1>1, <2>1, <2>2
  <2>4. InOrder' /\ OneRun' /\ OneFan' /\ \A r \in A : Fit(run'[r])
    BY <1>1, <2>1, <2>3
  <2> QED
    BY <1>3, <2>3, <2>4
<1>12. ASSUME NEW r \in A, WeeklyPosts!Look(r) PROVE WeeklyPosts!IInv'
  <2>1. PICK w \in Weeks : WeeklyPosts!Goes(r, [WeeklyPosts!Idle EXCEPT !.step = "rank", !.week = w])
    BY <1>12 DEF WeeklyPosts!Look, Weeks
  <2>6. PICK j : j = [WeeklyPosts!Idle EXCEPT !.step = "rank", !.week = w]
    OBVIOUS
  <2>5. j = [step |-> "rank", week |-> w, fans |-> << >>, next |-> 1]
    BY <2>6 DEF WeeklyPosts!Idle
  <2>2. j \in Step /\ j.step = "rank" /\ j.fans = << >> /\ j.week = w /\ j.next = 1
    BY <2>5 DEF Step
  <2>3. WeeklyPosts!Goes(r, j) /\ UNCHANGED <<post, ranking, removed>>
    BY <1>12, <2>1, <2>6 DEF WeeklyPosts!Look
  <2>4. Fit(j) /\ ~(j.step = "insert" /\ j.next > 1)
    BY <2>2
  <2> QED
    BY <1>7, <2>2, <2>3, <2>4
<1>13. ASSUME NEW r \in A, WeeklyPosts!Rank(r) PROVE WeeklyPosts!IInv'
  <2>3. PICK i : i = run[r]
    OBVIOUS
  <2>4. i \in Step /\ i.step = "rank" /\ i.week \in Weeks /\ i.next = 1
    BY <1>4, <1>13, <2>3 DEF WeeklyPosts!Rank
  <2>5. PICK fans : fans = ranking[i.week]
    OBVIOUS
  <2>6. fans \in Seq(B) /\ Distinct(fans)
    BY <1>1, <2>4, <2>5
  <2>1. CASE fans = << >>
    BY <1>8, <1>13, <2>1, <2>3, <2>5 DEF WeeklyPosts!Rank
  <2>2. CASE fans # << >>
    <3>1. PICK j : j = [i EXCEPT !.step = "insert", !.fans = fans]
      OBVIOUS
    <3>2. j \in Step /\ j.step = "insert" /\ j.fans = fans /\ j.next = 1 /\ j.week = i.week
      BY <2>4, <2>6, <3>1 DEF Step
    <3>3. WeeklyPosts!Goes(r, j) /\ UNCHANGED <<post, ranking, removed>>
      BY <1>13, <2>2, <2>3, <2>5, <3>1 DEF WeeklyPosts!Rank
    <3>4. Fit(j) /\ ~(j.step = "insert" /\ j.next > 1)
      BY <1>5, <2>4, <2>6, <3>2
    <3> QED
      BY <1>7, <3>2, <3>3, <3>4
  <2> QED
    BY <2>1, <2>2
<1>14. ASSUME NEW r \in A, WeeklyPosts!Insert(r) PROVE WeeklyPosts!IInv'
  <2>1. PICK j : j = run[r]
    OBVIOUS
  <2>4. PICK w : w = j.week
    OBVIOUS
  <2>2. CASE post[w][j.next] # "none"
    <3>1. WeeklyPosts!Goes(r, WeeklyPosts!Idle) /\ UNCHANGED <<post, ranking, removed>>
      BY <1>14, <2>1, <2>2, <2>4 DEF WeeklyPosts!Insert, WeeklyPosts!OnDuplicate
    <3> QED
      BY <1>8, <3>1
  <2>3. CASE post[w][j.next] = "none"
    <3>1. PICK i : i = [j EXCEPT !.next = j.next + 1]
      OBVIOUS
    <3>2. PICK n : n = j.next
      OBVIOUS
    <3>3. /\ j.step = "insert" /\ n <= Len(j.fans)
          /\ post' = [post EXCEPT ![w] = [post[w] EXCEPT ![n] = j.fans[n]]]
          /\ WeeklyPosts!Goes(r, i) /\ UNCHANGED <<ranking, removed>>
      BY <1>14, <2>1, <2>3, <2>4, <3>1, <3>2 DEF WeeklyPosts!Insert
    <3>4. j \in Step /\ Fit(j) /\ n \in Nat \ {0} /\ w \in Weeks
      BY <1>4, <1>5, <2>1, <2>4, <3>2, <3>3
    <3>5. i \in Step /\ i.step = "insert" /\ i.fans = j.fans /\ i.next = n + 1 /\ i.week = w
      BY <2>4, <3>1, <3>2, <3>3, <3>4 DEF Step
    <3>6. Fit(i) /\ Inserting(i, w) /\ n \in DOMAIN j.fans /\ j.fans[n] \in B
      BY <1>5, <3>3, <3>4, <3>5
    <3>7. run' \in [A -> Step] /\ \A q \in A : run'[q] = IF q = r THEN i ELSE run[q]
      BY <1>1, <3>3, <3>5 DEF WeeklyPosts!Goes
    <3>8. /\ post' \in [Weeks -> [Ranks -> B \union {"none"}]]
          /\ \A u \in Weeks : u # w => post'[u] = post[u]
          /\ \A k \in Ranks : post'[w][k] = IF k = n THEN j.fans[n] ELSE post[w][k]
      <4>1. PICK old : old = post[w]
        OBVIOUS
      <4>2. PICK new : new = [old EXCEPT ![n] = j.fans[n]]
        OBVIOUS
      <4>3. old \in [Ranks -> B \union {"none"}]
        BY <1>1, <3>4, <4>1
      <4>4. /\ new \in [Ranks -> B \union {"none"}]
            /\ \A k \in Ranks : new[k] = IF k = n THEN j.fans[n] ELSE old[k]
        BY <3>6, <4>2, <4>3
      <4>5. post' = [post EXCEPT ![w] = new]
        BY <3>3, <4>1, <4>2
      <4> QED
        BY <1>1, <3>4, <4>1, <4>4, <4>5
    <3>9. Typed' /\ \A q \in A : Fit(run'[q])
      BY <1>1, <3>3, <3>6, <3>7, <3>8
    \* While none is removed: what was posted is what this run has posted.
    <3>10. ASSUME removed = 0 PROVE Posts(j, w)
      <4>1. CASE n > 1
        BY <1>1, <2>1, <2>4, <3>2, <3>3, <3>4, <3>10, <4>1
      <4>2. CASE n = 1
        <5>1. 1 \in Ranks /\ \A k \in Ranks : k = 1 \/ 1 < k
          BY <1>2, <3>6
        <5>2. \A k \in Ranks : post[w][k] = "none"
          BY <1>1, <2>3, <3>2, <3>4, <3>10, <4>2, <5>1
        <5>3. \A k \in Ranks : ~ (k < j.next)
          BY <1>2, <3>2, <4>2
        <5> QED
          BY <5>2, <5>3
      <4> QED
        BY <3>4, <4>1, <4>2
    <3>11. ASSUME removed = 0, NEW q \in A, q # r PROVE ~Inserting(run[q], w)
      <4>1. SUFFICES ASSUME Inserting(run[q], w) PROVE FALSE
        OBVIOUS
      <4>2. CASE n > 1
        BY <1>1, <2>1, <2>4, <3>2, <3>3, <3>4, <3>11, <4>1, <4>2
      <4>3. CASE n = 1
        <5>1. PICK m : m = run[q].next
          OBVIOUS
        <5>2. PICK fans : fans = run[q].fans
          OBVIOUS
        <5>3. m \in Nat /\ m > 1 /\ m <= Len(fans) + 1 /\ fans \in Seq(B)
          BY <1>4, <1>5, <4>1, <5>1, <5>2
        <5>4. fans[1] \in B
          BY <5>3
        <5>5. 1 \in Ranks /\ post[w][1] = fans[1]
          BY <1>1, <1>2, <3>4, <3>6, <3>11, <4>1, <5>1, <5>2, <5>3
        <5> QED
          BY <2>3, <3>2, <4>3, <5>4, <5>5 DEF WeeklyPosts!FansAssumption
      <4> QED
        BY <3>4, <4>2, <4>3
    <3>12. ASSUME removed = 0, NEW k \in Ranks PROVE post'[w][k] = IF k < n + 1 THEN j.fans[k] ELSE "none"
      <4>1. post[w][k] = IF k < n THEN j.fans[k] ELSE "none"
        BY <3>2, <3>10, <3>12
      <4> QED
        BY <1>2, <3>4, <3>8, <3>12, <4>1
    <3>13. ASSUME removed = 0, NEW k \in Ranks, post'[w][k] # "none"
           PROVE  k < n + 1 /\ k \in DOMAIN j.fans /\ post'[w][k] = j.fans[k]
      <4>2. k < n + 1 /\ post'[w][k] = j.fans[k]
        BY <3>12, <3>13
      <4> QED
        BY <1>2, <1>5, <3>3, <3>4, <4>2
    <3>14. ASSUME removed = 0, NEW k \in Ranks, k < n + 1 PROVE post'[w][k] # "none"
      <4>1. post'[w][k] = j.fans[k]
        BY <3>12, <3>14
      <4>2. j.fans[k] \in B
        BY <1>2, <1>5, <3>3, <3>4, <3>14
      <4> QED
        BY <4>1, <4>2 DEF WeeklyPosts!FansAssumption
    <3>15. InOrder'
      <4>1. ASSUME removed = 0, NEW k \in Ranks, NEW m \in Ranks, m < k, post'[w][k] # "none" PROVE post'[w][m] # "none"
        <5>1. k < n + 1
          BY <3>13, <4>1
        <5>2. m < n + 1
          BY <1>2, <3>4, <4>1, <5>1
        <5> QED
          BY <3>14, <4>1, <5>2
      <4>2. ASSUME removed = 0, NEW u \in Weeks, NEW k \in Ranks, NEW m \in Ranks, m < k, post'[u][k] # "none"
            PROVE  post'[u][m] # "none"
        <5>1. CASE u = w
          BY <4>1, <4>2, <5>1
        <5>2. CASE u # w
          BY <1>1, <3>8, <4>2, <5>2
        <5> QED
          BY <5>1, <5>2
      <4> QED
        BY <3>3, <4>2 DEF Ranks, WeeklyPosts!Ranks, Weeks
    <3>16. OneFan'
      <4>1. ASSUME removed = 0, NEW k \in Ranks, NEW m \in Ranks, post'[w][k] = post'[w][m], post'[w][k] # "none"
            PROVE  k = m
        BY <3>4, <3>13, <4>1
      <4>2. ASSUME removed = 0, NEW u \in Weeks, NEW k \in Ranks, NEW m \in Ranks,
                   post'[u][k] = post'[u][m], post'[u][k] # "none"
            PROVE  k = m
        <5>1. CASE u = w
          BY <4>1, <4>2, <5>1
        <5>2. CASE u # w
          BY <1>1, <3>8, <4>2, <5>2
        <5> QED
          BY <5>1, <5>2
      <4> QED
        BY <3>3, <4>2 DEF Ranks, WeeklyPosts!Ranks, Weeks
    <3>17. OneRun'
      <4>1. ASSUME removed = 0, NEW q \in A, Inserting(run'[q], w) PROVE q = r /\ run'[q] = i
        BY <3>7, <3>11, <4>1
      <4>2. ASSUME NEW u \in Weeks, u # w, NEW q \in A, Inserting(run'[q], u)
            PROVE  run'[q] = run[q] /\ post'[u] = post[u]
        BY <3>5, <3>7, <3>8, <4>2
      <4>3. ASSUME removed = 0, NEW u \in Weeks, NEW q \in A, Inserting(run'[q], u), NEW k \in Ranks
            PROVE  post'[u][k] = IF k < run'[q].next THEN run'[q].fans[k] ELSE "none"
        <5>1. CASE u = w
          BY <3>5, <3>12, <4>1, <4>3, <5>1
        <5>2. CASE u # w
          BY <1>1, <4>2, <4>3, <5>2
        <5> QED
          BY <5>1, <5>2
      <4>4. ASSUME removed = 0, NEW u \in Weeks, NEW q \in A, NEW p \in A, Inserting(run'[q], u), Inserting(run'[p], u)
            PROVE  q = p
        <5>1. CASE u = w
          BY <4>1, <4>4, <5>1
        <5>2. CASE u # w
          BY <1>1, <4>2, <4>4, <5>2
        <5> QED
          BY <5>1, <5>2
      <4> QED
        BY <3>3, <4>3, <4>4 DEF Ranks, WeeklyPosts!Ranks, Weeks
    <3> QED
      BY <1>3, <3>9, <3>15, <3>16, <3>17
  <2> QED
    BY <2>2, <2>3
<1>15. ASSUME NEW r \in A, WeeklyPosts!Done(r) \/ WeeklyPosts!Cut(r) PROVE WeeklyPosts!IInv'
  BY <1>8, <1>15 DEF WeeklyPosts!Done, WeeklyPosts!Cut
<1> QED
  BY <1>10, <1>11, <1>12, <1>13, <1>14, <1>15 DEF WeeklyPosts!Next, Weeks

-----------------------------------------------------------------------------
(* Listeners.                                                                 *)

\* Rows that are stored, each with a number of its own: one more, and one that is replaced by
\* one with its number.
LEMMA RowIsAdded ==
  ASSUME NEW R1, IsFiniteSet(R1), \A r \in R1 : r.id \in 0 .. Cardinality(R1) - 1,
         NEW n, n.id = Cardinality(R1)
  PROVE  /\ n \notin R1 /\ IsFiniteSet(R1 \cup {n})
         /\ Cardinality(R1) \in Nat /\ Cardinality(R1 \cup {n}) = Cardinality(R1) + 1
<1>1. Cardinality(R1) \in Nat
  BY FS_CardinalityType
<1>2. n \notin R1
  BY <1>1
<1> QED
  BY <1>1, <1>2, FS_AddElement

LEMMA RowIsReplaced ==
  ASSUME NEW R1, IsFiniteSet(R1), NEW r \in R1, NEW n, n \notin R1 \ {r}
  PROVE  /\ IsFiniteSet((R1 \ {r}) \cup {n})
         /\ Cardinality((R1 \ {r}) \cup {n}) = Cardinality(R1)
<1>1. /\ IsFiniteSet(R1 \ {r}) /\ Cardinality(R1 \ {r}) = Cardinality(R1) - 1
      /\ Cardinality(R1) \in Nat
  BY FS_RemoveElement, FS_CardinalityType
<1> DEFINE S1 == R1 \ {r}
<1> HIDE DEF S1
<1>2. n \notin S1 /\ IsFiniteSet(S1) /\ Cardinality(S1) = Cardinality(R1) - 1
  BY <1>1 DEF S1
<1>3. IsFiniteSet(S1 \cup {n}) /\ Cardinality(S1 \cup {n}) = Cardinality(R1)
  BY <1>1, <1>2, FS_AddElement
<1> QED
  BY <1>3 DEF S1

\* Nobody did anything yet.
LEMMA ListenersAtFirst == Listeners!ListenersAssumption /\ Listeners!Init => Listeners!IInv
<1> SUFFICES ASSUME Listeners!ListenersAssumption, Listeners!Init PROVE Listeners!IInv
  OBVIOUS
<1>1. v1 = {} /\ v2 = Crowd.firstNumber /\ v4.at = "nobody" /\ v6 = Crowd.post
  BY DEF Listeners!Init, Listeners!Nobody
<1>2. Listeners!RowsAreStored
  BY <1>1, SameOperators, FS_EmptySet DEF Listeners!RowsAreStored
<1>3. v2 \in [DOMAIN Crowd.firstNumber -> Crowd.numbers]
  BY <1>1 DEF Listeners!ListenersAssumption
<1>4. Listeners!PartnersStay
  BY <1>1 DEF Listeners!ListenersAssumption, Listeners!PartnersStay
<1> QED
  BY <1>1, <1>2, <1>3, <1>4 DEF Listeners!IInv, Listeners!NumbersStay, Listeners!ScoreGrows, Listeners!FansAgree

\* The messages, calls or votes of a listener in a scope.
LEMMA ListenersCounted ==
  ASSUME NEW kind, NEW scope, NEW u
  PROVE  Listeners!Counted(kind, scope, u)
           = Cardinality({r \in v1 : r.kind = kind /\ (scope = "n" \/ r.station = scope) /\ r.user = u})
<1> DEFINE here == {r \in v1 : r.kind = kind /\ (scope = "n" \/ r.station = scope) /\ r.user = u}
<1>1. Listeners!ByUser(Listeners!In(Listeners!Of(kind), scope), u) = here
  BY DEF Listeners!ByUser, Listeners!In, Listeners!Of
<1> HIDE DEF here
<1>2. Listeners!Counted(kind, scope, u) = Cardinality(here)
  BY <1>1, SameOperators DEF Listeners!Counted
<1> QED
  BY <1>2 DEF here

\* They get no fewer when a row is added, and stay as many when a message is deleted.
LEMMA ListenersCountedAlways ==
  ASSUME IsFiniteSet(v1), IsFiniteSet(v1'), NEW kind, NEW scope, NEW u,
         \/ v1 \subseteq v1'
         \/ \E r \in v1, n \in v1' : /\ v1' = (v1 \ {r}) \cup {n} /\ n \notin v1 \ {r}
                                     /\ n.kind = r.kind /\ n.station = r.station /\ n.user = r.user
  PROVE  /\ Listeners!Counted(kind, scope, u) \in Nat
         /\ Listeners!Counted(kind, scope, u)' \in Nat
         /\ Listeners!Counted(kind, scope, u) <= Listeners!Counted(kind, scope, u)'
<1> DEFINE P(r) == r.kind = kind /\ (scope = "n" \/ r.station = scope) /\ r.user = u
           here == {r \in v1 : P(r)}
           there == {r \in v1' : P(r)}
<1>1. Listeners!Counted(kind, scope, u) = Cardinality(here)
  BY ListenersCounted
<1>2. Listeners!Counted(kind, scope, u)' = Cardinality(there)
  <2>1. Listeners!ByUser(Listeners!In(Listeners!Of(kind), scope), u)' = there
    BY DEF Listeners!ByUser, Listeners!In, Listeners!Of
  <2> HIDE DEF there
  <2>2. Listeners!Counted(kind, scope, u)' = Listeners!Cardinality(there)
    BY <2>1 DEF Listeners!Counted
  <2> QED
    BY <2>2, SameOperators
<1>3. IsFiniteSet(here) /\ IsFiniteSet(there)
  BY FS_Subset
<1>4. Cardinality(here) \in Nat /\ Cardinality(there) \in Nat
  BY <1>3, FS_CardinalityType
<1>5. Cardinality(here) <= Cardinality(there)
  <2>1. CASE v1 \subseteq v1'
    <3>1. here \subseteq there
      BY <2>1
    <3> HIDE DEF here, there
    <3> QED
      BY <1>3, <3>1, FS_Subset
  <2>2. CASE \E r \in v1, n \in v1' :
                /\ v1' = (v1 \ {r}) \cup {n} /\ n \notin v1 \ {r}
                /\ n.kind = r.kind /\ n.station = r.station /\ n.user = r.user
    <3>1. PICK r \in v1, n \in v1' :
                /\ v1' = (v1 \ {r}) \cup {n} /\ n \notin v1 \ {r}
                /\ n.kind = r.kind /\ n.station = r.station /\ n.user = r.user
      BY <2>2
    <3>2. P(n) <=> P(r)
      BY <3>1
    <3>3. CASE ~P(r)
      <4>1. here \subseteq there
        BY <3>1, <3>3
      <4> HIDE DEF here, there
      <4> QED
        BY <1>3, <4>1, FS_Subset
    <3>4. CASE P(r)
      <4>1. r \in here /\ n \notin here \ {r} /\ there = (here \ {r}) \cup {n}
        BY <3>1, <3>2, <3>4
      <4> HIDE DEF here, there
      <4>2. Cardinality(there) = Cardinality(here)
        BY <1>3, <4>1, RowIsReplaced
      <4> QED
        BY <1>4, <4>2
    <3> QED
      BY <3>3, <3>4
  <2> QED
    BY <2>1, <2>2
<1> HIDE DEF here, there
<1> QED
  BY <1>1, <1>2, <1>4, <1>5

\* What is weighed grows with what it is made of.
LEMMA WeighGrows ==
  ASSUME NEW a \in Nat, NEW b \in Nat, NEW c \in Nat, NEW d \in Nat, a <= c, b <= d
  PROVE  /\ Listeners!Weigh(a, b) \in Nat /\ Listeners!Weigh(a, b) <= Listeners!Weigh(c, d)
BY DEF Listeners!Weigh

\* A row is added or replaced: what was read of them before is still no more than they say.
LEMMA ListenersScoreStays ==
  ASSUME IsFiniteSet(v1), IsFiniteSet(v1'), Listeners!ScoreGrows, UNCHANGED v4,
         \/ v1 \subseteq v1'
         \/ \E r \in v1, n \in v1' : /\ v1' = (v1 \ {r}) \cup {n} /\ n \notin v1 \ {r}
                                     /\ n.kind = r.kind /\ n.station = r.station /\ n.user = r.user
  PROVE  Listeners!ScoreGrows'
<1> SUFFICES ASSUME v4.at = "counted"
             PROVE  /\ v4.scope \in DOMAIN Crowd.partnerOf \cup {"n"}
                    /\ v4.fan \in DOMAIN Crowd.firstNumber /\ v4.score \in Nat
                    /\ v4.score <= Listeners!Weigh(Listeners!Counted("message", v4.scope, v4.fan)',
                                                   Listeners!Counted("call", v4.scope, v4.fan)')
  <2>1. \A k, s, u : Listeners!Counted(k, s, u)' = Listeners!Counted(k, s, u)'
    OBVIOUS
  <2> QED
    BY DEF Listeners!ScoreGrows, Listeners!Weigh, Listeners!Counted, Listeners!ByUser, Listeners!In, Listeners!Of
<1>1. /\ v4.scope \in DOMAIN Crowd.partnerOf \cup {"n"}
      /\ v4.fan \in DOMAIN Crowd.firstNumber /\ v4.score \in Nat
      /\ v4.score <= Listeners!Weigh(Listeners!Counted("message", v4.scope, v4.fan),
                                     Listeners!Counted("call", v4.scope, v4.fan))
  BY DEF Listeners!ScoreGrows
<1> DEFINE c(k) == Listeners!Counted(k, v4.scope, v4.fan)
           d(k) == Listeners!Counted(k, v4.scope, v4.fan)'
<1>2. \A k : c(k) \in Nat /\ d(k) \in Nat /\ c(k) <= d(k)
  BY ListenersCountedAlways
<1>3. /\ Listeners!Weigh(c("message"), c("call")) \in Nat
      /\ Listeners!Weigh(d("message"), d("call")) \in Nat
      /\ Listeners!Weigh(c("message"), c("call")) <= Listeners!Weigh(d("message"), d("call"))
  BY <1>2, WeighGrows
<1>4. v4.score <= Listeners!Weigh(d("message"), d("call"))
  <2> HIDE DEF c, d
  <2>1. v4.score \in Nat /\ v4.score <= Listeners!Weigh(c("message"), c("call"))
    BY <1>1 DEF c
  <2> QED
    BY <1>3, <2>1
<1> QED
  BY <1>1, <1>4

\* What somebody does is stored in a row of its own, with the number he has.
LEMMA ListenersAct ==
  ASSUME Listeners!ListenersAssumption, Listeners!IInv,
         NEW u \in DOMAIN Crowd.firstNumber, NEW s \in DOMAIN Crowd.partnerOf,
         NEW kind \in {"message", "call", "vote"}, Listeners!Acts(kind, u, s)
  PROVE  Listeners!IInv'
<1> DEFINE n == [kind |-> kind, user |-> u, station |-> s, msisdn |-> v2[u],
                 deleted |-> FALSE, id |-> Listeners!Cardinality(v1)]
<1>1. /\ v1' = v1 \cup {n} /\ UNCHANGED <<v2, v3, v4, v5, v6>>
      /\ kind = "vote" <=> s \in Crowd.pollChannels
  BY DEF Listeners!Acts
<1>2. /\ IsFiniteSet(v1) /\ \A r \in v1 : r.id \in 0 .. Cardinality(v1) - 1
      /\ v1 \subseteq [kind : {"message", "call", "vote"}, user : DOMAIN Crowd.firstNumber,
                       station : DOMAIN Crowd.partnerOf, msisdn : Crowd.numbers, deleted : BOOLEAN,
                       id : 0 .. Cardinality(v1) - 1]
      /\ \A r \in v1 : r.kind = "vote" <=> r.station \in Crowd.pollChannels
      /\ \A r, t \in v1 : r.id = t.id => r = t
  BY SameOperators DEF Listeners!IInv, Listeners!RowsAreStored
<1>3. n.id = Cardinality(v1) /\ v2 \in [DOMAIN Crowd.firstNumber -> Crowd.numbers] /\ v2[u] \in Crowd.numbers
  BY SameOperators DEF Listeners!IInv
<1>4. n.kind = kind /\ n.user = u /\ n.station = s /\ n.msisdn = v2[u] /\ n.deleted = FALSE
  OBVIOUS
<1>5. /\ IsFiniteSet(v1 \cup {n}) /\ n \notin v1
      /\ Cardinality(v1) \in Nat /\ Cardinality(v1 \cup {n}) = Cardinality(v1) + 1
  <2> HIDE DEF n
  <2> QED
    BY <1>2, <1>3, RowIsAdded
<1>6. n \in [kind : {"message", "call", "vote"}, user : DOMAIN Crowd.firstNumber,
             station : DOMAIN Crowd.partnerOf, msisdn : Crowd.numbers, deleted : BOOLEAN,
             id : 0 .. Cardinality(v1)]
  BY <1>3, <1>5
<1> HIDE DEF n
<1>7. Listeners!RowsAreStored'
  <2>1. IsFiniteSet(v1') /\ Cardinality(v1') = Cardinality(v1) + 1 /\ Cardinality(v1') - 1 = Cardinality(v1)
    BY <1>1, <1>5
  <2>2. v1' \subseteq [kind : {"message", "call", "vote"}, user : DOMAIN Crowd.firstNumber,
                       station : DOMAIN Crowd.partnerOf, msisdn : Crowd.numbers, deleted : BOOLEAN,
                       id : 0 .. Cardinality(v1') - 1]
    <3>1. 0 .. Cardinality(v1) - 1 \subseteq 0 .. Cardinality(v1)
      BY <1>5
    <3> QED
      BY <1>1, <1>2, <1>6, <2>1, <3>1
  <2>3. \A r \in v1' : r.kind = "vote" <=> r.station \in Crowd.pollChannels
    BY <1>1, <1>2, <1>4
  <2>4. \A r, t \in v1' : r.id = t.id => r = t
    <3>1. \A r \in v1 : r.id # n.id
      BY <1>2, <1>3, <1>5
    <3> QED
      BY <1>1, <1>2, <3>1
  <2> QED
    BY <2>1, <2>2, <2>3, <2>4, SameOperators DEF Listeners!RowsAreStored
<1>8. Listeners!NumbersStay'
  BY <1>1, <1>4 DEF Listeners!IInv, Listeners!NumbersStay
<1>9. Listeners!ScoreGrows'
  BY <1>1, <1>2, <1>5, ListenersScoreStays DEF Listeners!IInv
<1> QED
  BY <1>1, <1>7, <1>8, <1>9 DEF Listeners!IInv, Listeners!FansAgree, Listeners!PartnersStay

\* A deleted message leaves its row.
LEMMA ListenersDelete ==
  ASSUME Listeners!IInv, Listeners!DeleteMessage
  PROVE  Listeners!IInv'
<1>1. PICK r \in Listeners!Of("message") : /\ ~r.deleted
                                           /\ v1' = (v1 \ {r}) \cup {[r EXCEPT !.deleted = TRUE]}
  BY DEF Listeners!DeleteMessage
<1>2. UNCHANGED <<v2, v3, v4, v5, v6>>
  BY DEF Listeners!DeleteMessage
<1> DEFINE Row == [kind : {"message", "call", "vote"}, user : DOMAIN Crowd.firstNumber,
                   station : DOMAIN Crowd.partnerOf, msisdn : Crowd.numbers, deleted : BOOLEAN,
                   id : 0 .. Cardinality(v1) - 1]
<1>3. /\ IsFiniteSet(v1) /\ v1 \subseteq Row
      /\ \A t \in v1 : t.kind = "vote" <=> t.station \in Crowd.pollChannels
      /\ \A t, o \in v1 : t.id = o.id => t = o
  BY SameOperators DEF Listeners!IInv, Listeners!RowsAreStored
<1>4. PICK n : n = [r EXCEPT !.deleted = TRUE]
  OBVIOUS
<1>5. r \in v1 /\ r \in Row
  BY <1>1, <1>3 DEF Listeners!Of
<1>6. /\ n \in Row /\ n.kind = r.kind /\ n.station = r.station /\ n.user = r.user
      /\ n.msisdn = r.msisdn /\ n.id = r.id
  BY <1>4, <1>5
<1> HIDE DEF Row
<1>7. v1' = (v1 \ {r}) \cup {n} /\ n \notin v1 \ {r}
  BY <1>1, <1>3, <1>4, <1>5, <1>6
<1>8. IsFiniteSet(v1') /\ Cardinality(v1') = Cardinality(v1)
  BY <1>3, <1>5, <1>7, RowIsReplaced
<1>9. Listeners!RowsAreStored'
  <2>1. v1' \subseteq Row
    BY <1>3, <1>6, <1>7
  <2>2. v1' \subseteq [kind : {"message", "call", "vote"}, user : DOMAIN Crowd.firstNumber,
                       station : DOMAIN Crowd.partnerOf, msisdn : Crowd.numbers, deleted : BOOLEAN,
                       id : 0 .. Cardinality(v1') - 1]
    BY <1>8, <2>1 DEF Row
  <2>3. \A t \in v1' : t.kind = "vote" <=> t.station \in Crowd.pollChannels
    BY <1>3, <1>5, <1>6, <1>7
  <2>4. \A t, o \in v1' : t.id = o.id => t = o
    BY <1>3, <1>5, <1>6, <1>7
  <2> QED
    BY <1>8, <2>2, <2>3, <2>4, SameOperators DEF Listeners!RowsAreStored
<1>10. Listeners!NumbersStay'
  BY <1>2, <1>5, <1>6, <1>7 DEF Listeners!IInv, Listeners!NumbersStay
<1>11. Listeners!ScoreGrows'
  BY <1>2, <1>3, <1>5, <1>6, <1>7, <1>8, ListenersScoreStays DEF Listeners!IInv
<1> QED
  BY <1>2, <1>9, <1>10, <1>11 DEF Listeners!IInv, Listeners!FansAgree, Listeners!PartnersStay

\* The smaller of two numbers, as the library takes it.
LEMMA ListenersLeast ==
  ASSUME NEW a \in Nat, NEW b \in Nat
  PROVE  Listeners!Min({a, b}) = IF a <= b THEN a ELSE b
BY DEF Listeners!Min

\* With as many places as there are listeners, everybody active is among the Most.
LEMMA ListenersAllAreRanked ==
  ASSUME Listeners!ListenersAssumption, Cardinality(DOMAIN Crowd.firstNumber) <= Crowd.most,
         NEW kind, NEW scope, NEW T \in Listeners!Top(kind, scope)
  PROVE  T = {u \in DOMAIN Crowd.firstNumber : Listeners!Counted(kind, scope, u) > 0}
<1> DEFINE some == {u \in DOMAIN Crowd.firstNumber : Listeners!Counted(kind, scope, u) > 0}
<1>1. T \subseteq some /\ Listeners!Cardinality(T) = Listeners!Min({Crowd.most, Listeners!Cardinality(some)})
  BY DEF Listeners!Top
<1>2. IsFiniteSet(DOMAIN Crowd.firstNumber) /\ Crowd.most \in Nat
  BY SameOperators DEF Listeners!ListenersAssumption
<1>3. some \subseteq DOMAIN Crowd.firstNumber
  OBVIOUS
<1> HIDE DEF some
<1>4. /\ IsFiniteSet(some) /\ Cardinality(some) \in Nat
      /\ Cardinality(some) <= Cardinality(DOMAIN Crowd.firstNumber)
      /\ Cardinality(DOMAIN Crowd.firstNumber) \in Nat
  BY <1>2, <1>3, FS_Subset, FS_CardinalityType
<1>5. Cardinality(T) = Cardinality(some)
  <2>1. Cardinality(some) <= Crowd.most
    BY <1>2, <1>4
  <2>2. Listeners!Min({Crowd.most, Cardinality(some)}) = Cardinality(some)
    BY <1>2, <1>4, <2>1, ListenersLeast
  <2> QED
    BY <1>1, <2>2, SameOperators
<1>6. T = some
  BY <1>1, <1>4, <1>5, FS_Subset
<1> QED
  BY <1>6 DEF some

\* The rank is read from a list that was made after the figures.
LEMMA ListenersRank ==
  ASSUME Listeners!ListenersAssumption, Listeners!IInv, Listeners!RankFan
  PROVE  Listeners!IInv'
<1>1. PICK list \in Listeners!TopFans(v4.scope) :
        v4' = [at |-> "answered", scope |-> v4.scope, fan |-> v4.fan,
               score |-> v4.score, rank |-> Listeners!RankIn(list, v4.fan), list |-> list]
  BY DEF Listeners!RankFan
<1>2. v4.at = "counted" /\ UNCHANGED <<v1, v2, v3, v5, v6>>
  BY DEF Listeners!RankFan
<1>3. Listeners!RowsAreStored' /\ Listeners!NumbersStay' /\ Listeners!ScoreGrows' /\ Listeners!PartnersStay'
  BY <1>1, <1>2, SameOperators DEF Listeners!IInv, Listeners!RowsAreStored, Listeners!NumbersStay, Listeners!ScoreGrows,
     Listeners!PartnersStay
<1> DEFINE scope == v4.scope
           fan == v4.fan
           People0 == DOMAIN Crowd.firstNumber
           count(kind, u) == Listeners!Counted(kind, scope, u)
<1>4. /\ fan \in People0 /\ v4.score \in Nat
      /\ v4.score <= Listeners!Weigh(count("message", fan), count("call", fan))
  BY <1>2 DEF Listeners!IInv, Listeners!ScoreGrows
<1>5. /\ v4'.at = "answered" /\ v4'.fan = fan /\ v4'.score = v4.score
      /\ v4'.rank = Listeners!RankIn(list, fan) /\ v4'.list = list
  BY <1>1
<1>6. ASSUME Cardinality(People0) <= Crowd.most
      PROVE  /\ Listeners!RankIn(list, fan) > 0 => list[fan] >= v4.score
             /\ Listeners!RankIn(list, fan) = 0 /\ v4.score > 0 =>
                   /\ Cardinality(DOMAIN list) = Crowd.listed
                   /\ \A v \in DOMAIN list : list[v] >= v4.score
  <2>0. PICK senders \in Listeners!Top("message", scope), callers \in Listeners!Top("call", scope) :
          \E F \in SUBSET Listeners!Ranked(senders, callers) :
            /\ list = [u \in F |-> Listeners!Score(scope, senders, callers, u)]
            /\ Listeners!Cardinality(F) = Listeners!Min({Crowd.listed, Listeners!Cardinality(Listeners!Ranked(senders, callers))})
            /\ \A u \in F, v \in Listeners!Ranked(senders, callers) \ F :
                  Listeners!Score(scope, senders, callers, u) >= Listeners!Score(scope, senders, callers, v)
    BY <1>1 DEF Listeners!TopFans
  <2>1. PICK F \in SUBSET Listeners!Ranked(senders, callers) :
          /\ list = [u \in F |-> Listeners!Score(scope, senders, callers, u)]
          /\ Listeners!Cardinality(F) = Listeners!Min({Crowd.listed, Listeners!Cardinality(Listeners!Ranked(senders, callers))})
          /\ \A u \in F, v \in Listeners!Ranked(senders, callers) \ F :
                Listeners!Score(scope, senders, callers, u) >= Listeners!Score(scope, senders, callers, v)
    BY <2>0
  <2> DEFINE fans == Listeners!Ranked(senders, callers)
             score(u) == Listeners!Weigh(count("message", u), count("call", u))
  <2>2. \A kind, u : count(kind, u) \in Nat
    <3>1. \A kind, u : {r \in v1 : r.kind = kind /\ (scope = "n" \/ r.station = scope) /\ r.user = u} \subseteq v1
      OBVIOUS
    <3>2. IsFiniteSet(v1)
      BY SameOperators DEF Listeners!IInv, Listeners!RowsAreStored
    <3>3. ASSUME NEW kind, NEW u PROVE count(kind, u) \in Nat
      <4> DEFINE here == {r \in v1 : r.kind = kind /\ (scope = "n" \/ r.station = scope) /\ r.user = u}
      <4>1. count(kind, u) = Cardinality(here) /\ here \subseteq v1
        BY <3>1, ListenersCounted
      <4> HIDE DEF here
      <4> QED
        BY <3>2, <4>1, FS_Subset, FS_CardinalityType
    <3> QED
      BY <3>3
  <2>3. /\ senders = {u \in People0 : count("message", u) > 0}
        /\ callers = {u \in People0 : count("call", u) > 0}
    BY <1>6, <2>0, ListenersAllAreRanked
  <2>4. \A u \in People0 : Listeners!Score(scope, senders, callers, u) = score(u)
    <3>1. \A u \in People0 : /\ u \notin senders => count("message", u) = 0
                             /\ u \notin callers => count("call", u) = 0
      BY <2>2, <2>3
    <3> QED
      BY <3>1 DEF Listeners!Score
  <2>5. /\ fans \subseteq People0 /\ F \subseteq fans /\ DOMAIN list = F
        /\ \A u \in F : list[u] = score(u)
        /\ \A u \in F, v \in fans \ F : score(u) >= score(v)
    BY <2>1, <2>3, <2>4 DEF Listeners!Ranked
  <2>6. \A u : score(u) \in Nat
    BY <2>2 DEF Listeners!Weigh
  <2>7. \A u \in People0 : score(u) > 0 => u \in fans
    BY <2>2, <2>3 DEF Listeners!Weigh, Listeners!Ranked
  <2>8. IsFiniteSet(fans) /\ IsFiniteSet(F) /\ Cardinality(fans) \in Nat /\ Cardinality(F) \in Nat
    <3>1. IsFiniteSet(People0)
      BY SameOperators DEF Listeners!ListenersAssumption
    <3>2. IsFiniteSet(fans)
      BY <2>5, <3>1, FS_Subset
    <3>3. IsFiniteSet(F)
      BY <2>5, <3>2, FS_Subset
    <3> QED
      BY <3>2, <3>3, FS_CardinalityType
  <2>9. v4.score <= score(fan)
    BY <1>4
  <2>10. ASSUME fan \in F PROVE Listeners!RankIn(list, fan) # 0 /\ list[fan] >= v4.score
    <3> DEFINE higher == {v \in DOMAIN list : list[v] > list[fan]}
    <3>1. higher \subseteq F
      BY <2>5
    <3>2. Listeners!RankIn(list, fan) = 1 + Listeners!Cardinality(higher)
      BY <2>5, <2>10 DEF Listeners!RankIn
    <3> HIDE DEF higher
    <3>3. Cardinality(higher) \in Nat
      BY <2>8, <3>1, FS_Subset, FS_CardinalityType
    <3>4. Listeners!RankIn(list, fan) # 0
      BY <3>2, <3>3, SameOperators
    <3>5. list[fan] = score(fan)
      BY <2>5, <2>10
    <3> HIDE DEF score
    <3> QED
      BY <1>4, <2>6, <2>9, <3>4, <3>5
  <2>11. ASSUME fan \notin F PROVE Listeners!RankIn(list, fan) = 0
    BY <2>5, <2>11 DEF Listeners!RankIn
  <2>12. ASSUME fan \notin F, v4.score > 0
         PROVE  /\ Cardinality(F) = Crowd.listed
                /\ \A v \in F : list[v] >= v4.score
    <3>0. score(fan) > 0
      <4> HIDE DEF score
      <4> QED
        BY <1>4, <2>6, <2>9, <2>12
    <3>1. fan \in fans
      BY <1>4, <2>7, <3>0
    <3>2. Cardinality(F) # Cardinality(fans)
      BY <2>5, <2>8, <2>12, <3>1, FS_Subset
    <3>3. Cardinality(F) = IF Crowd.listed <= Cardinality(fans) THEN Crowd.listed ELSE Cardinality(fans)
      <4>1. Crowd.listed \in Nat
        BY DEF Listeners!ListenersAssumption
      <4> HIDE DEF fans
      <4>2. Listeners!Min({Crowd.listed, Cardinality(fans)})
              = IF Crowd.listed <= Cardinality(fans) THEN Crowd.listed ELSE Cardinality(fans)
        BY <2>8, <4>1, ListenersLeast
      <4> QED
        BY <2>1, <4>2, SameOperators DEF fans
    <3>4. ASSUME NEW v \in F PROVE list[v] >= v4.score
      <4>1. list[v] = score(v) /\ score(v) >= score(fan)
        BY <2>5, <2>12, <3>1
      <4> HIDE DEF score
      <4> QED
        BY <1>4, <2>6, <2>9, <4>1
    <3> QED
      BY <3>2, <3>3, <3>4
  <2>13. CASE fan \in F
    BY <2>10, <2>13
  <2>14. CASE fan \notin F
    <3>1. ~ (Listeners!RankIn(list, fan) > 0)
      BY <2>11, <2>14
    <3> QED
      BY <2>5, <2>12, <2>14, <3>1
  <2> QED
    BY <2>13, <2>14
<1>7. Listeners!FansAgree'
  BY <1>5, <1>6, SameOperators DEF Listeners!FansAgree
<1> QED
  BY <1>2, <1>3, <1>7 DEF Listeners!IInv

\* Everybody's steps.
LEMMA ListenersKept ==
  ASSUME Listeners!ListenersAssumption, Listeners!IInv, Listeners!Next
  PROVE  Listeners!IInv'
<1>1. ASSUME NEW u \in DOMAIN Crowd.firstNumber \cup DOMAIN Crowd.post, Listeners!UpdateUserById(u)
      PROVE  Listeners!IInv'
  <2>2. v5' = v5 \cup {u} /\ UNCHANGED <<v1, v3, v4>>
    BY <1>1 DEF Listeners!UpdateUserById
  <2>3. Listeners!RowsAreStored'
    BY <2>2, SameOperators DEF Listeners!IInv, Listeners!RowsAreStored
  <2>4. Listeners!ScoreGrows' /\ Listeners!FansAgree'
    BY <2>2, SameOperators DEF Listeners!IInv, Listeners!ScoreGrows, Listeners!FansAgree, Listeners!Counted,
       Listeners!ByUser, Listeners!In, Listeners!Of
  <2>5. CASE u \in DOMAIN Crowd.firstNumber /\ UNCHANGED v6
             /\ \E n \in Crowd.numbers : v2' = [v2 EXCEPT ![u] = n]
    <3>1. v2' \in [DOMAIN Crowd.firstNumber -> Crowd.numbers]
      BY <2>5 DEF Listeners!IInv
    <3>2. Listeners!NumbersStay' /\ Listeners!PartnersStay'
      BY <2>2, <2>5 DEF Listeners!IInv, Listeners!NumbersStay, Listeners!PartnersStay
    <3> QED
      BY <2>3, <2>4, <3>1, <3>2 DEF Listeners!IInv
  \* Another station, of the same partner's or not.
  <2>6. CASE u \in DOMAIN Crowd.post /\ UNCHANGED v2
             /\ \E s \in DOMAIN Crowd.partnerOf : v6' = [v6 EXCEPT ![u].station = s]
    <3>1. PICK s \in DOMAIN Crowd.partnerOf : v6' = [v6 EXCEPT ![u] = [v6[u] EXCEPT !.station = s]]
      BY <2>6
    <3>2. /\ v6 \in [DOMAIN Crowd.post -> Listeners!Posts]
          /\ \A p \in DOMAIN Crowd.post :
                /\ v6[p].role = Crowd.post[p].role /\ v6[p].partner = Crowd.post[p].partner
                /\ Crowd.post[p].station \in DOMAIN Crowd.partnerOf => v6[p].station \in DOMAIN Crowd.partnerOf
      <4>1. Listeners!PartnersStay
        BY DEF Listeners!IInv
      <4> QED
        BY <4>1 DEF Listeners!PartnersStay
    <3>3. PICK new : new = [v6[u] EXCEPT !.station = s]
      OBVIOUS
    <3>4. new \in Listeners!Posts /\ new.role = v6[u].role /\ new.partner = v6[u].partner /\ new.station = s
      BY <2>6, <3>2, <3>3 DEF Listeners!Posts
    <3>5. /\ v6' \in [DOMAIN Crowd.post -> Listeners!Posts]
          /\ \A p \in DOMAIN Crowd.post : v6'[p] = IF p = u THEN new ELSE v6[p]
      BY <2>6, <3>1, <3>2, <3>3, <3>4
    <3>6. Listeners!PartnersStay'
      BY <3>2, <3>4, <3>5 DEF Listeners!PartnersStay, Listeners!Posts, Listeners!Partners
    <3>7. Listeners!NumbersStay'
      BY <2>2, <2>6 DEF Listeners!IInv, Listeners!NumbersStay
    <3>8. v2' \in [DOMAIN Crowd.firstNumber -> Crowd.numbers]
      BY <2>6 DEF Listeners!IInv
    <3> QED
      BY <2>3, <2>4, <3>6, <3>7, <3>8 DEF Listeners!IInv
  <2> QED
    BY <1>1, <2>5, <2>6 DEF Listeners!UpdateUserById
<1>2. ASSUME NEW p, Listeners!Block(p) PROVE Listeners!IInv'
  <2>1. UNCHANGED <<v1, v2, v4, v5, v6>>
    BY <1>2 DEF Listeners!Block
  <2>2. Listeners!RowsAreStored' /\ Listeners!NumbersStay' /\ Listeners!PartnersStay'
    BY <2>1, SameOperators DEF Listeners!IInv, Listeners!RowsAreStored, Listeners!NumbersStay, Listeners!PartnersStay
  <2>3. Listeners!ScoreGrows' /\ Listeners!FansAgree'
    BY <2>1, SameOperators DEF Listeners!IInv, Listeners!ScoreGrows, Listeners!FansAgree, Listeners!Counted,
       Listeners!ByUser, Listeners!In, Listeners!Of
  <2> QED
    BY <2>1, <2>2, <2>3 DEF Listeners!IInv
<1>3. ASSUME NEW scope \in DOMAIN Crowd.partnerOf \cup {"n"}, NEW u \in DOMAIN Crowd.firstNumber,
             Listeners!AskFan(scope, u)
      PROVE  Listeners!IInv'
  <2> DEFINE score == Listeners!Weigh(Listeners!Counted("message", scope, u), Listeners!Counted("call", scope, u))
  <2>1. /\ v4' = [at |-> "counted", scope |-> scope, fan |-> u, score |-> score]
        /\ UNCHANGED <<v1, v2, v3, v5, v6>>
    BY <1>3 DEF Listeners!AskFan
  <2>2. Listeners!RowsAreStored' /\ Listeners!NumbersStay' /\ Listeners!PartnersStay'
    BY <2>1, SameOperators DEF Listeners!IInv, Listeners!RowsAreStored, Listeners!NumbersStay, Listeners!PartnersStay
  <2>3. v4'.at = "counted" /\ v4'.scope = scope /\ v4'.fan = u /\ v4'.score = score
    BY <2>1
  <2>4. \A kind : Listeners!Counted(kind, scope, u)' = Listeners!Counted(kind, scope, u)
    BY <2>1 DEF Listeners!Counted, Listeners!ByUser, Listeners!In, Listeners!Of
  <2>5. \A kind : Listeners!Counted(kind, scope, u) \in Nat
    <3>1. IsFiniteSet(v1)
      BY SameOperators DEF Listeners!IInv, Listeners!RowsAreStored
    <3> QED
      BY <2>1, <3>1, ListenersCountedAlways
  <2>6. score \in Nat
    BY <2>5 DEF Listeners!Weigh
  <2>7. Listeners!ScoreGrows'
    BY <2>3, <2>4, <2>6 DEF Listeners!ScoreGrows, Listeners!Weigh
  <2>8. Listeners!FansAgree'
    BY <2>3 DEF Listeners!FansAgree
  <2> QED
    BY <2>1, <2>2, <2>7, <2>8 DEF Listeners!IInv
<1>4. ASSUME Listeners!Answered PROVE Listeners!IInv'
  <2>1. v4'.at = "nobody" /\ UNCHANGED <<v1, v2, v3, v5, v6>>
    BY <1>4 DEF Listeners!Answered, Listeners!Nobody
  <2>2. Listeners!RowsAreStored' /\ Listeners!NumbersStay' /\ Listeners!PartnersStay'
    BY <2>1, SameOperators DEF Listeners!IInv, Listeners!RowsAreStored, Listeners!NumbersStay, Listeners!PartnersStay
  <2> QED
    BY <2>1, <2>2 DEF Listeners!IInv, Listeners!ScoreGrows, Listeners!FansAgree
<1> QED
  BY <1>1, <1>2, <1>3, <1>4, ListenersAct, ListenersDelete, ListenersRank DEF Listeners!Next

\* As long as no number was changed, who wrote and who is listed are the same, and a
\* listener's page counts what the list counts but for what is deleted.
LEMMA ListenersListsAgree ==
  ASSUME Listeners!ListenersAssumption, Listeners!IInv, v5 \cap DOMAIN Crowd.firstNumber = {}
  PROVE  /\ \A u \in DOMAIN Crowd.firstNumber :
               Listeners!MessageCount(u) = Listeners!Detail(u).totalMessages
                  + Listeners!Cardinality({r \in Listeners!ByUser(Listeners!Of("message"), u) : r.deleted})
         /\ \A s \in DOMAIN Crowd.partnerOf \ Crowd.pollChannels :
               Listeners!AllListeners(s) = {r.user : r \in {m \in Listeners!Of("message") :
                                                               m.station = s /\ ~m.deleted}}
<1> DEFINE Person == DOMAIN Crowd.firstNumber
<1>1. /\ IsFiniteSet(v1)
      /\ v1 \subseteq [kind : {"message", "call", "vote"}, user : Person, station : DOMAIN Crowd.partnerOf,
                       msisdn : Crowd.numbers, deleted : BOOLEAN, id : 0 .. Cardinality(v1) - 1]
  BY SameOperators DEF Listeners!IInv, Listeners!RowsAreStored
<1>2. \A r \in v1 : r.user \in Person /\ r.deleted \in BOOLEAN
  BY <1>1
<1>3. /\ v2 = Crowd.firstNumber /\ \A r \in v1 : r.msisdn = v2[r.user]
      /\ \A u, v \in Person : v2[u] = v2[v] => u = v
  BY DEF Listeners!IInv, Listeners!NumbersStay, Listeners!ListenersAssumption
<1>4. ASSUME NEW u \in Person
      PROVE  Listeners!MessageCount(u) = Listeners!Detail(u).totalMessages
                  + Listeners!Cardinality({r \in Listeners!ByUser(Listeners!Of("message"), u) : r.deleted})
  <2> DEFINE sent == {r \in v1 : r.kind = "message" /\ r.user = u}
             gone == {r \in sent : r.deleted}
             left == {r \in sent : ~r.deleted}
  <2>1. Listeners!ByUser(Listeners!Of("message"), u) = sent
    BY DEF Listeners!ByUser, Listeners!Of
  <2>2. {r \in Listeners!ByUser(Listeners!Of("message"), u) : r.deleted} = gone
    BY <2>1
  <2>3. {r \in Listeners!Of("message") : ~r.deleted /\ (r.user = u \/ r.msisdn = v2[u])} = left
    BY <1>2, <1>3 DEF Listeners!Of
  <2>4. Listeners!Detail(u).totalMessages = Listeners!Cardinality(left)
    BY <2>3 DEF Listeners!Detail
  <2>5. Listeners!MessageCount(u) = Listeners!Cardinality(sent)
    BY <2>1 DEF Listeners!MessageCount
  <2>6. sent \subseteq v1 /\ gone \cup left = sent /\ gone \cap left = {}
    OBVIOUS
  <2> HIDE DEF sent, gone, left
  <2>7. IsFiniteSet(gone) /\ IsFiniteSet(left)
    <3>1. IsFiniteSet(sent)
      BY <1>1, <2>6, FS_Subset
    <3> QED
      BY <2>6, <3>1, FS_Subset
  <2>8. Cardinality(sent) = Cardinality(gone) + Cardinality(left) - Cardinality({})
    BY <2>6, <2>7, FS_Union
  <2>9. Cardinality(sent) = Cardinality(left) + Cardinality(gone)
    BY <2>7, <2>8, FS_CardinalityType, FS_EmptySet
  <2> QED
    BY <2>2, <2>4, <2>5, <2>9, SameOperators
<1>5. ASSUME NEW s \in DOMAIN Crowd.partnerOf \ Crowd.pollChannels
      PROVE  Listeners!AllListeners(s) = {r.user : r \in {m \in Listeners!Of("message") :
                                                               m.station = s /\ ~m.deleted}}
  <2> DEFINE wrote == {m \in Listeners!Of("message") : m.station = s /\ ~m.deleted}
  <2>1. Listeners!AllListeners(s) = {u \in Person : v2[u] \in Listeners!NumbersOf(s)}
    BY DEF Listeners!AllListeners, Listeners!ListenersAssumption
  <2>2. Listeners!NumbersOf(s) = {r.msisdn : r \in wrote}
    BY DEF Listeners!NumbersOf
  <2>3. \A r \in wrote : r \in v1
    BY DEF Listeners!Of
  <2> HIDE DEF wrote
  <2>4. \A u \in Person : v2[u] \in {r.msisdn : r \in wrote} <=> u \in {r.user : r \in wrote}
    BY <1>2, <1>3, <2>3
  <2>5. {r.user : r \in wrote} \subseteq Person
    BY <1>2, <2>3
  <2>6. {u \in Person : v2[u] \in Listeners!NumbersOf(s)} = {r.user : r \in wrote}
    BY <2>2, <2>4, <2>5
  <2> QED
    BY <2>1, <2>6 DEF wrote
<1> QED
  BY <1>4, <1>5

\* The staff of a partner are those of its stations, and those it lost to another's.
LEMMA ListenersStaffAgree ==
  ASSUME Listeners!ListenersAssumption, Listeners!IInv, NEW p \in DOMAIN Crowd.post
  PROVE  Listeners!StaffListsAgree(p)
<1> DEFINE Place == DOMAIN Crowd.partnerOf
           Person == DOMAIN Crowd.post
           role == v6[p].role
           List(scope, ask) == IF role = "presenter" THEN Listeners!Presenters(scope, ask)
                                                     ELSE Listeners!MediaStations(scope, ask)
           at(s) == [station |-> s, partner |-> "n"]
           of(q) == [station |-> "n", partner |-> q]
           own(q) == {s \in Place : Crowd.partnerOf[s] = q}
           lost(q) == {o \in Listeners!Strays : v6[o].role = role /\ v6[o].partner = q}
           all == List(of("n"), "n")
<1>1. /\ IsFiniteSet(Person) /\ "n" \notin Place
      /\ \A s \in Place : Crowd.partnerOf[s] # "n"
      /\ \A o \in Person : v6[o].role # "customer_care" => v6[o].station \in Place
  <2>1. /\ IsFiniteSet(Person) /\ "n" \notin Place
        /\ \A s \in Place : Crowd.partnerOf[s] # "n"
        /\ \A o \in Person : Crowd.post[o].role # "customer_care" => Crowd.post[o].station \in Place
    BY SameOperators DEF Listeners!ListenersAssumption
  <2> QED
    BY <2>1 DEF Listeners!IInv, Listeners!PartnersStay
<1>7. \A o : o \in Listeners!Strays <=> /\ o \in Person /\ v6[o].role # "customer_care"
                                       /\ v6[o].partner # Crowd.partnerOf[v6[o].station]
  BY DEF Listeners!Strays
<1>2. ASSUME role \in {"presenter", "media_station"}, NEW q \in Listeners!Partners
      PROVE  /\ List(of(q), "n") = (UNION {List(at(s), "n") : s \in own(q)}) \cup lost(q)
             /\ \A s \in Place :
                  List(of(q), s) = IF s \in own(q) THEN List(at(s), "n")
                                   ELSE {o \in lost(q) : v6[o].station = s}
  <2>1. \A scope, ask : List(scope, ask) = Listeners!StaffOf(role, scope, ask)
    BY <1>2 DEF Listeners!Presenters, Listeners!MediaStations
  <2> HIDE DEF List
  <2>8. q # "n" /\ role # "customer_care"
    BY <1>1, <1>2 DEF Listeners!Partners
  <2>2. \A s \in Place : List(at(s), "n") = {o \in Person : v6[o].role = role /\ v6[o].station = s}
    BY <1>1, <2>1 DEF Listeners!StaffOf
  <2>3. List(of(q), "n") = {o \in Person : /\ v6[o].role = role
                                          /\ q \in {v6[o].partner, Crowd.partnerOf[v6[o].station]}}
    BY <1>1, <2>1, <2>8 DEF Listeners!StaffOf
  <2>4. \A s \in Place :
          List(of(q), s) = {o \in Person : /\ v6[o].role = role /\ v6[o].station = s
                                          /\ q \in {v6[o].partner, Crowd.partnerOf[v6[o].station]}}
    BY <1>1, <2>1, <2>8 DEF Listeners!StaffOf
  <2>5. \A o : o \in lost(q) <=> /\ o \in Person /\ v6[o].role = role /\ v6[o].partner = q
                                 /\ q # Crowd.partnerOf[v6[o].station]
    BY <1>7, <2>8
  <2>6. List(of(q), "n") = (UNION {List(at(s), "n") : s \in own(q)}) \cup lost(q)
    <3> DEFINE All == UNION {List(at(s), "n") : s \in own(q)}
    <3> HIDE DEF lost
    <3>1. ASSUME NEW o \in List(of(q), "n") PROVE o \in All \cup lost(q)
      <4>1. o \in Person /\ v6[o].role = role /\ q \in {v6[o].partner, Crowd.partnerOf[v6[o].station]}
        BY <2>3
      <4>2. CASE q = Crowd.partnerOf[v6[o].station]
        <5>1. v6[o].station \in own(q)
          BY <1>1, <2>8, <4>1, <4>2
        <5>2. o \in List(at(v6[o].station), "n")
          BY <2>2, <4>1, <5>1
        <5> QED
          BY <5>1, <5>2
      <4>3. CASE q # Crowd.partnerOf[v6[o].station]
        BY <2>5, <4>1, <4>3
      <4> QED
        BY <4>2, <4>3
    <3>2. ASSUME NEW s \in own(q), NEW o \in List(at(s), "n") PROVE o \in List(of(q), "n")
      <4>1. o \in Person /\ v6[o].role = role /\ v6[o].station = s
        BY <2>2
      <4> QED
        BY <2>3, <4>1
    <3>3. lost(q) \subseteq List(of(q), "n")
      BY <2>3, <2>5
    <3> QED
      BY <3>1, <3>2, <3>3
  <2>7. ASSUME NEW s \in Place
        PROVE  List(of(q), s) = IF s \in own(q) THEN List(at(s), "n") ELSE {o \in lost(q) : v6[o].station = s}
    <3>1. CASE Crowd.partnerOf[s] = q
      <4>1. {o \in Person : /\ v6[o].role = role /\ v6[o].station = s
                            /\ q \in {v6[o].partner, Crowd.partnerOf[v6[o].station]}}
              = {o \in Person : v6[o].role = role /\ v6[o].station = s}
        BY <3>1
      <4>2. List(of(q), s) = List(at(s), "n")
        BY <2>2, <2>4, <4>1, Zenon
      <4> QED
        BY <3>1, <4>2
    <3>2. CASE Crowd.partnerOf[s] # q
      <4> HIDE DEF lost
      <4>1. {o \in Person : /\ v6[o].role = role /\ v6[o].station = s
                            /\ q \in {v6[o].partner, Crowd.partnerOf[v6[o].station]}}
              = {o \in lost(q) : v6[o].station = s}
        BY <2>5, <3>2
      <4>2. List(of(q), s) = {o \in lost(q) : v6[o].station = s}
        BY <2>4, <4>1, Zenon
      <4> QED
        BY <3>2, <4>2
    <3> QED
      BY <3>1, <3>2
  <2> QED
    BY <2>6, <2>7
<1>3. ASSUME role = "station_admin", NEW q \in Listeners!Partners
      PROVE  Listeners!StationAdmins(of(q), "n") =
               ((UNION {Listeners!StationAdmins(of("n"), s) : s \in own(q)}) \ Listeners!Strays) \cup lost(q)
  <2> DEFINE Admins == {o \in Person : v6[o].role = "station_admin"}
             All == UNION {Listeners!StationAdmins(of("n"), s) : s \in own(q)}
  <2>1. q # "n"
    BY <1>1 DEF Listeners!Partners
  <2>2. Listeners!StationAdmins(of(q), "n") = {o \in Admins : v6[o].partner = q}
    BY <2>1 DEF Listeners!StationAdmins
  <2>3. \A s \in Place : Listeners!StationAdmins(of("n"), s) = {o \in Admins : v6[o].station = s}
    BY <1>1 DEF Listeners!StationAdmins
  <2>4. \A o \in Admins : /\ v6[o].station \in Place
                          /\ o \in Listeners!Strays <=> v6[o].partner # Crowd.partnerOf[v6[o].station]
                          /\ o \in lost(q) <=> o \in Listeners!Strays /\ v6[o].partner = q
    BY <1>1, <1>3, <1>7
  <2>5. lost(q) \subseteq Admins
    BY <1>3, <1>7
  <2>6. \A o : o \in All <=> o \in Admins /\ v6[o].station \in own(q)
    <3>1. ASSUME NEW o \in All PROVE o \in Admins /\ v6[o].station \in own(q)
      BY <2>3
    <3>2. ASSUME NEW o \in Admins, v6[o].station \in own(q) PROVE o \in All
      <4>1. o \in Listeners!StationAdmins(of("n"), v6[o].station)
        BY <2>3, <3>2
      <4> QED
        BY <3>2, <4>1
    <3> QED
      BY <3>1, <3>2
  <2> HIDE DEF Admins, All, lost
  <2>7. {o \in Admins : v6[o].partner = q} = (All \ Listeners!Strays) \cup lost(q)
    BY <2>4, <2>5, <2>6
  <2> QED
    BY <2>2, <2>7 DEF All
<1>4. role = "customer_care" => p \in Listeners!CustomerCare(of("n"))
  BY DEF Listeners!CustomerCare
<1>5. all \subseteq Person
  BY DEF Listeners!Presenters, Listeners!MediaStations, Listeners!StaffOf
<1>6. /\ Listeners!Page(all, TRUE).total + Listeners!Page(all, FALSE).total = Listeners!Cardinality(all)
      /\ p \in all => Listeners!Page(all, p \notin v3).total > 0
  <2> HIDE DEF all
  <2> DEFINE kept == all \ v3
             out == all \cap v3
  <2>1. /\ Listeners!Page(all, TRUE).total = Listeners!Cardinality(kept)
        /\ Listeners!Page(all, FALSE).total = Listeners!Cardinality(out)
    BY DEF Listeners!Page
  <2>2. kept \cup out = all /\ kept \cap out = {}
    OBVIOUS
  <2>3. p \in all => IF p \in v3 THEN p \in out ELSE p \in kept
    OBVIOUS
  <2> HIDE DEF kept, out
  <2>4. IsFiniteSet(kept) /\ IsFiniteSet(out)
    <3>1. IsFiniteSet(all)
      BY <1>1, <1>5, FS_Subset
    <3> QED
      BY <2>2, <3>1, FS_Subset
  <2>5. Cardinality(kept) \in Nat /\ Cardinality(out) \in Nat
    BY <2>4, FS_CardinalityType
  <2>6. Cardinality(all) = Cardinality(kept) + Cardinality(out) - Cardinality({})
    BY <2>2, <2>4, FS_Union
  <2>7. Cardinality(all) = Cardinality(kept) + Cardinality(out)
    BY <2>5, <2>6, FS_EmptySet
  <2>8. ASSUME p \in all PROVE Listeners!Page(all, p \notin v3).total > 0
    <3>1. CASE p \in v3
      <4>1. Listeners!Page(all, p \notin v3).total = Listeners!Cardinality(out)
        BY <2>1, <3>1 DEF Listeners!Page, out
      <4>2. out # {}
        BY <2>3, <2>8, <3>1
      <4> QED
        BY <2>4, <2>5, <4>1, <4>2, FS_EmptySet, SameOperators
    <3>2. CASE p \notin v3
      <4>1. Listeners!Page(all, p \notin v3).total = Listeners!Cardinality(kept)
        BY <2>1, <3>2 DEF Listeners!Page, kept
      <4>2. kept # {}
        BY <2>3, <2>8, <3>2
      <4> QED
        BY <2>4, <2>5, <4>1, <4>2, FS_EmptySet, SameOperators
    <3> QED
      BY <3>1, <3>2
  <2> QED
    BY <2>1, <2>7, <2>8, SameOperators
<1> QED
  BY <1>2, <1>3, <1>4, <1>6 DEF Listeners!StaffListsAgree

\* Lists, pages and ranks.
LEMMA ListenersReadTrue ==
  Listeners!ListenersAssumption /\ Listeners!IInv => Listeners!ListenersAgree
<1> SUFFICES ASSUME Listeners!ListenersAssumption, Listeners!IInv PROVE Listeners!ListenersAgree
  OBVIOUS
<1>1. ASSUME NEW u \in DOMAIN Crowd.firstNumber
      PROVE  /\ Listeners!Detail(u).totalVotes = Listeners!Cardinality(Listeners!Votes(u))
             /\ Listeners!Votes(u) # {} => \E s \in Crowd.pollChannels : u \in Listeners!AllListeners(s)
  <2>1. Listeners!Detail(u).totalVotes = Listeners!Cardinality(Listeners!Votes(u))
    BY DEF Listeners!Detail, Listeners!VoteCount, Listeners!Votes
  <2>2. ASSUME NEW r \in Listeners!Votes(u) PROVE \E s \in Crowd.pollChannels : u \in Listeners!AllListeners(s)
    <3>1. r \in v1 /\ r.kind = "vote" /\ r.user = u
      BY <2>2 DEF Listeners!Votes, Listeners!ByUser, Listeners!Of
    <3>2. r.station \in Crowd.pollChannels
      BY <3>1 DEF Listeners!IInv, Listeners!RowsAreStored
    <3>3. r.station # "n"
      BY <3>2 DEF Listeners!ListenersAssumption
    <3>4. r \in Listeners!ByUser(Listeners!In(Listeners!Of("vote"), r.station), u)
      BY <3>1 DEF Listeners!ByUser, Listeners!Of, Listeners!In
    <3> QED
      BY <3>2, <3>3, <3>4 DEF Listeners!AllListeners
  <2> QED
    BY <2>1, <2>2
<1>2. Listeners!ListsAgree
  BY <1>1, ListenersListsAgree, ListenersStaffAgree DEF Listeners!ListsAgree
<1> QED
  BY <1>2 DEF Listeners!ListenersAgree, Listeners!IInv

-----------------------------------------------------------------------------
(* Dashboard.                                                                 *)

\* The dashboard adds up as Totals does.
LEMMA DashboardTotals == \A f : Dashboard!Total(f) = Total(f, DOMAIN f)
BY DEF Dashboard!Total, Dashboard!MapThenSumSet, Dashboard!MapThenFoldSet, Total, MapThenSumSet, MapThenFoldSet

\* The sum of the counts of a series is the count of what is in its periods.
LEMMA DashboardSums ==
  ASSUME NEW S, IsFiniteSet(S), NEW K, IsFiniteSet(K), NEW k, NEW f, DOMAIN f = K,
         \A d \in K : f[d] = Cardinality({s \in S : k[s] = d})
  PROVE  /\ Dashboard!Total(f) \in Nat /\ Dashboard!Total(f) <= Cardinality(S)
         /\ Cardinality(S) \in Nat
         /\ (\A s \in S : k[s] \in K) => Dashboard!Total(f) = Cardinality(S)
<1> DEFINE T == {s \in S : k[s] \in K}
<1>1. Dashboard!Total(f) = Cardinality(T)
  BY TotalOfCounts, DashboardTotals
<1>2. T \subseteq S /\ ((\A s \in S : k[s] \in K) => T = S)
  OBVIOUS
<1> HIDE DEF T
<1>3. /\ Cardinality(T) \in Nat /\ Cardinality(S) \in Nat /\ Cardinality(T) <= Cardinality(S)
  BY <1>2, FS_Subset, FS_CardinalityType
<1> QED
  BY <1>1, <1>2, <1>3

\* What the rows of each collection are like.
LEMMA DashboardRows ==
  ASSUME Dashboard!IInv, NEW r \in v1
  PROVE  /\ r.kind \in {"message", "call", "statement", "follow", "play", "login", "status", "transaction"}
         /\ r.user \in Board.listeners /\ r.day \in 0 .. v2 /\ r.id \in Nat
         /\ r.kind \in {"message", "call", "statement", "follow", "play", "status"} => r.station \in Board.stations
         /\ r.kind = "message" => /\ r.state \in {"live", "replied", "deleted", "repliedDeleted"}
                                  /\ r.show = "n" \/ (r.show \in Board.shows /\ Board.showStation[r.show] = r.station)
         /\ r.kind = "call" => /\ r.state \in {"queued", "answered", "completed", "missed", "rejected", "cancelled"}
                               /\ r.show \in Board.shows /\ Board.showStation[r.show] = r.station
         /\ r.kind = "statement" => r.state \in {"free", "paid"}
         /\ r.kind = "status" => r.state \in {"live", "expired"}
         /\ r.kind = "play" => r.state = "done"
<1>1. /\ r.kind \in DOMAIN Dashboard!States
      /\ r.user \in Board.listeners /\ r.day \in 0 .. v2 /\ r.id \in 0 .. Dashboard!Cardinality(v1) - 1
      /\ r.state \in Dashboard!States[r.kind] /\ r.station \in Dashboard!Place(r.kind, r.state)
      /\ r.show \in Dashboard!Show(r.kind, r.station)
  BY DEF Dashboard!IInv, Dashboard!RowsAreStored
<1>2. r.id \in Nat
  <2>1. IsFiniteSet(v1)
    BY SameOperators DEF Dashboard!IInv, Dashboard!RowsAreStored
  <2> QED
    BY <1>1, <2>1, FS_CardinalityType, SameOperators
<1>3. r.kind \in {"message", "call", "statement", "follow", "play", "login", "status", "transaction"}
  BY <1>1 DEF Dashboard!States
<1>4. CASE r.kind = "message"
  <2>1. r.state \in {"live", "replied", "deleted", "repliedDeleted"}
    BY <1>1, <1>4 DEF Dashboard!States
  <2>2. r.station \in Board.stations
    BY <1>1, <1>4, <2>1 DEF Dashboard!Place, Dashboard!Collection
  <2>3. r.show = "n" \/ (r.show \in Board.shows /\ Board.showStation[r.show] = r.station)
    BY <1>1, <1>4 DEF Dashboard!Show
  <2> QED
    BY <1>1, <1>2, <1>4, <2>1, <2>2, <2>3
<1>5. CASE r.kind = "call"
  <2>1. r.state \in {"queued", "answered", "completed", "missed", "rejected", "cancelled"}
    BY <1>1, <1>5 DEF Dashboard!States
  <2>2. r.station \in Board.stations
    BY <1>1, <1>5, <2>1 DEF Dashboard!Place, Dashboard!Collection
  <2>3. r.show \in Board.shows /\ Board.showStation[r.show] = r.station
    BY <1>1, <1>5 DEF Dashboard!Show
  <2> QED
    BY <1>1, <1>2, <1>5, <2>1, <2>2, <2>3
<1>6. CASE r.kind = "statement"
  BY <1>1, <1>2, <1>6 DEF Dashboard!States, Dashboard!Place, Dashboard!Collection
<1>7. CASE r.kind = "status"
  BY <1>1, <1>2, <1>7 DEF Dashboard!States, Dashboard!Place, Dashboard!Collection
<1>8. CASE r.kind = "play" \/ r.kind = "follow"
  BY <1>1, <1>2, <1>8 DEF Dashboard!States, Dashboard!Place, Dashboard!Collection
<1>9. CASE r.kind = "login" \/ r.kind = "transaction"
  BY <1>1, <1>2, <1>9
<1> QED
  BY <1>3, <1>4, <1>5, <1>6, <1>7, <1>8, <1>9

\* Any of the rows are finitely many.
LEMMA DashboardFinite ==
  ASSUME Dashboard!IInv, NEW S \in SUBSET v1
  PROVE  /\ IsFiniteSet(S) /\ Cardinality(S) \in Nat
         /\ \A T \in SUBSET S : Cardinality(T) \in Nat /\ Cardinality(T) <= Cardinality(S)
<1>1. IsFiniteSet(S)
  BY FS_Subset, SameOperators DEF Dashboard!IInv, Dashboard!RowsAreStored
<1>2. \A T \in SUBSET S : IsFiniteSet(T) /\ Cardinality(T) <= Cardinality(S)
  BY <1>1, FS_Subset
<1> QED
  BY <1>1, <1>2, FS_CardinalityType

\* getStats takes the same stations as everything else.
LEMMA DashboardScopes ==
  ASSUME Dashboard!DashboardAssumption, NEW q \in Board.requests
  PROVE  /\ Dashboard!StatsScope(q) = Dashboard!Scope(q)
         /\ Dashboard!Scope(q) \subseteq Board.stations /\ IsFiniteSet(Dashboard!Scope(q))
         /\ Dashboard!Scope(q) \subseteq Dashboard!Scope([q EXCEPT !.country = "n"])
<1>1. /\ IsFiniteSet(Board.stations) /\ "n" \notin Board.stations
      /\ \A s \in Board.stations : Board.partnerOf[s] # "n"
      /\ Dashboard!LeftByBuildScope(q)
  BY SameOperators DEF Dashboard!DashboardAssumption
<1>2. Dashboard!PartnersOwn(q) \subseteq Board.stations /\ "n" \notin Dashboard!PartnersOwn(q)
  BY <1>1 DEF Dashboard!PartnersOwn
<1>3. Dashboard!StatsScope(q) = Dashboard!Scope(q)
  <2>1. CASE Dashboard!StationRole(q)
    BY <1>1, <2>1 DEF Dashboard!LeftByBuildScope, Dashboard!StatsScope, Dashboard!Scope
  <2>2. CASE ~Dashboard!StationRole(q) /\ ~Dashboard!PartnerRole(q)
    BY <2>2 DEF Dashboard!StatsScope
  <2>3. CASE ~Dashboard!StationRole(q) /\ Dashboard!PartnerRole(q)
    <3>1. q.station \in Dashboard!PartnersOwn(q) \cup {"n"} /\ q.country = "n"
      BY <1>1, <2>3 DEF Dashboard!LeftByBuildScope
    <3>2. q.partner = "n" => Dashboard!PartnersOwn(q) = {}
      BY <1>1 DEF Dashboard!PartnersOwn
    <3> QED
      BY <1>2, <2>3, <3>1, <3>2 DEF Dashboard!StatsScope, Dashboard!Scope
  <2> QED
    BY <2>1, <2>2, <2>3
<1>4. Dashboard!Scope(q) \subseteq Board.stations
  BY <1>1, <1>2 DEF Dashboard!Scope, Dashboard!LeftByBuildScope
<1>5. IsFiniteSet(Dashboard!Scope(q))
  BY <1>1, <1>4, FS_Subset
<1>6. Dashboard!Scope(q) \subseteq Dashboard!Scope([q EXCEPT !.country = "n"])
  <2>1. PICK o : o = [q EXCEPT !.country = "n"]
    OBVIOUS
  <2>2. o.station = q.station /\ o.partner = q.partner /\ o.country = "n"
    BY <1>1, <2>1 DEF Dashboard!LeftByBuildScope
  <2>3. Dashboard!Scope(q) \subseteq Dashboard!Scope(o)
    BY <1>4, <2>2 DEF Dashboard!Scope, Dashboard!PartnersOwn
  <2> QED
    BY <2>1, <2>3
<1> QED
  BY <1>3, <1>4, <1>5, <1>6

\* The days some rows are of.
LEMMA DashboardDays ==
  ASSUME Dashboard!IInv, NEW S \in SUBSET v1
  PROVE  /\ IsFiniteSet(Dashboard!DaysOf(S)) /\ IsFiniteSet(Dashboard!Oldest(Dashboard!DaysOf(S)))
         /\ Dashboard!Oldest(Dashboard!DaysOf(S)) \subseteq Dashboard!DaysOf(S)
         /\ Board.periods \in Nat /\ Dashboard!Cardinality(Dashboard!DaysOf(S)) <= Board.periods
               => Dashboard!Oldest(Dashboard!DaysOf(S)) = Dashboard!DaysOf(S)
<1> DEFINE Days == Dashboard!DaysOf(S)
<1>1. Days \subseteq 0 .. v2 /\ v2 \in Nat
  BY DashboardRows DEF Dashboard!DaysOf, Dashboard!IInv
<1>2. Dashboard!Oldest(Days) = {d \in Days : Cardinality({e \in Days : e < d}) < Board.periods}
  BY SameOperators DEF Dashboard!Oldest
<1> HIDE DEF Days
<1>3. IsFiniteSet(Days)
  <2>1. IsFiniteSet(0 .. v2)
    BY <1>1, FS_Interval
  <2> QED
    BY <1>1, <2>1, FS_Subset
<1>4. IsFiniteSet(Dashboard!Oldest(Days))
  BY <1>2, <1>3, FS_Subset
<1>5. ASSUME Board.periods \in Nat, Cardinality(Days) <= Board.periods, NEW d \in Days
      PROVE  Cardinality({e \in Days : e < d}) < Board.periods
  <2> DEFINE E == {e \in Days : e < d}
  <2>1. E \subseteq Days /\ d \notin E
    BY <1>1
  <2> HIDE DEF E
  <2>2. /\ Cardinality(E) <= Cardinality(Days) /\ Cardinality(E) # Cardinality(Days)
        /\ IsFiniteSet(E)
    BY <1>3, <2>1, FS_Subset
  <2>3. Cardinality(E) \in Nat /\ Cardinality(Days) \in Nat
    BY <1>3, <2>2, FS_CardinalityType
  <2>4. Cardinality(E) < Board.periods
    BY <1>5, <2>2, <2>3
  <2> QED
    BY <2>4 DEF E
<1> QED
  BY <1>2, <1>3, <1>4, <1>5, SameOperators DEF Days

\* A series sums up what it is made of, all of it as long as its periods fit.
LEMMA DashboardSeries ==
  ASSUME Dashboard!IInv, NEW S \in SUBSET v1
  PROVE  /\ Dashboard!Total(Dashboard!Series(S)) \in Nat
         /\ Dashboard!Total(Dashboard!Series(S)) <= Cardinality(S)
         /\ Board.periods \in Nat /\ Dashboard!Cardinality(Dashboard!DaysOf(S)) <= Board.periods
               => Dashboard!Total(Dashboard!Series(S)) = Cardinality(S)
<1> DEFINE K == Dashboard!Oldest(Dashboard!DaysOf(S))
           f == Dashboard!Series(S)
           k == [r \in S |-> r.day]
<1>1. DOMAIN f = K /\ \A d \in K : f[d] = Cardinality({r \in S : k[r] = d})
  <2>1. \A d : Dashboard!OnDay(S, d) = {r \in S : k[r] = d}
    BY DEF Dashboard!OnDay
  <2> QED
    BY <2>1, SameOperators DEF Dashboard!Series
<1>2. \A r \in S : k[r] \in Dashboard!DaysOf(S)
  BY DEF Dashboard!DaysOf
<1>3. IsFiniteSet(S) /\ IsFiniteSet(K)
  BY DashboardFinite, DashboardDays
<1>4. Board.periods \in Nat /\ Dashboard!Cardinality(Dashboard!DaysOf(S)) <= Board.periods
         => K = Dashboard!DaysOf(S)
  BY DashboardDays
<1> HIDE DEF f, k, K
<1>5. /\ Dashboard!Total(f) \in Nat /\ Dashboard!Total(f) <= Cardinality(S)
      /\ (\A s \in S : k[s] \in K) => Dashboard!Total(f) = Cardinality(S)
  BY <1>1, <1>3, DashboardSums
<1> QED
  BY <1>2, <1>4, <1>5 DEF f

\* With as many places as there are stations or shows, all are in a ranking.
LEMMA DashboardHighest ==
  ASSUME NEW score, IsFiniteSet(DOMAIN score), NEW limit \in Nat, Cardinality(DOMAIN score) <= limit,
         NEW top \in Dashboard!Highest(score, limit)
  PROVE  DOMAIN top = DOMAIN score /\ \A s \in DOMAIN score : top[s] = score[s]
<1>1. PICK T \in SUBSET DOMAIN score :
        /\ top = [s \in T |-> score[s]]
        /\ Dashboard!Cardinality(T) = Dashboard!Min({limit, Dashboard!Cardinality(DOMAIN score)})
  BY DEF Dashboard!Highest
<1>2. Cardinality(DOMAIN score) \in Nat
  BY FS_CardinalityType
<1>3. Dashboard!Min({limit, Cardinality(DOMAIN score)}) = Cardinality(DOMAIN score)
  BY <1>2 DEF Dashboard!Min
<1>4. T = DOMAIN score
  BY <1>1, <1>3, FS_Subset, SameOperators
<1> QED
  BY <1>1, <1>4

\* The newest of some numbered things: those are newer than the rest, and when there is a rest
\* they are as many as asked for.
LEMMA DashboardNewest ==
  ASSUME NEW S, IsFiniteSet(S), \A r \in S : r.id \in Nat, \A r, t \in S : r.id = t.id => r = t,
         NEW limit \in Nat \ {0}
  PROVE  /\ Dashboard!Latest(S, limit) \subseteq S
         /\ \A r \in Dashboard!Latest(S, limit), t \in S \ Dashboard!Latest(S, limit) : r.id > t.id
         /\ Cardinality(Dashboard!Latest(S, limit)) \in Nat
         /\ Cardinality(Dashboard!Latest(S, limit)) <= limit
         /\ S # Dashboard!Latest(S, limit) => Cardinality(Dashboard!Latest(S, limit)) = limit
<1> DEFINE New == Dashboard!Latest(S, limit)
           Above(r) == {t \in S : t.id > r.id}
<1>1. New \subseteq S /\ \A r \in S : r \in New <=> Cardinality(Above(r)) < limit
  BY SameOperators DEF Dashboard!Latest
<1> HIDE DEF New
<1>2. \A r \in S : Above(r) \subseteq S /\ IsFiniteSet(Above(r)) /\ Cardinality(Above(r)) \in Nat
  <2>1. \A r \in S : Above(r) \subseteq S
    OBVIOUS
  <2> HIDE DEF Above
  <2> QED
    BY <2>1, FS_Subset, FS_CardinalityType
<1>3. ASSUME NEW r \in New, NEW t \in S \ New PROVE r.id > t.id
  <2>1. CASE r.id <= t.id
    <3>1. Above(t) \subseteq Above(r)
      BY <1>1, <2>1
    <3>2. Cardinality(Above(t)) <= Cardinality(Above(r))
      <4> HIDE DEF Above
      <4> QED
        BY <1>1, <1>2, <3>1, FS_Subset
    <3> HIDE DEF Above
    <3> QED
      BY <1>1, <1>2, <3>2
  <2> QED
    BY <1>1, <2>1
<1>4. IsFiniteSet(New) /\ Cardinality(New) \in Nat
  BY <1>1, FS_Subset, FS_CardinalityType
\* The oldest of the newest has less than limit above it, and they are the others.
<1>5. Cardinality(New) <= limit
  <2>1. CASE New = {}
    BY <2>1, FS_EmptySet
  <2>2. CASE New # {}
    <3> DEFINE Ids == {r.id : r \in New}
    <3>1. Ids \in SUBSET Nat /\ Ids # {}
      BY <1>1, <2>2
    <3>2. PICK n \in Ids : \A m \in Ids : n <= m
      <4> HIDE DEF Ids
      <4> QED
        BY <3>1, LeastNumber
    <3>3. PICK r \in New : r.id = n
      OBVIOUS
    <3>4. \A t \in New : r.id <= t.id
      BY <3>2, <3>3
    <3>5. New \ {r} \subseteq Above(r)
      BY <1>1, <3>4
    <3> HIDE DEF Above
    <3>6. Cardinality(New \ {r}) <= Cardinality(Above(r)) /\ Cardinality(Above(r)) < limit
      BY <1>1, <1>2, <3>5, FS_Subset
    <3>7. Cardinality(New \ {r}) = Cardinality(New) - 1
      BY <1>4, FS_RemoveElement
    <3>8. Cardinality(Above(r)) \in Nat
      BY <1>1, <1>2
    <3> QED
      BY <1>4, <3>6, <3>7, <3>8
  <2> QED
    BY <2>1, <2>2
\* Whoever is left out has at least limit above it; of the newest of those, they are the newest.
<1>6. ASSUME S # New PROVE Cardinality(New) = limit
  <2> DEFINE Old == S \ New
             Ids == {r.id : r \in Old}
  <2>1. Old # {} /\ IsFiniteSet(Old)
    BY <1>1, <1>6, FS_Subset
  <2>2. PICK r \in Old : \A t \in Old : t.id <= r.id
    <3> DEFINE Later(o) == {t \in Old : t.id > o.id}
               Less == {Cardinality(Later(o)) : o \in Old}
    <3>1. \A o : Later(o) \subseteq Old
      OBVIOUS
    <3>2. \A o, t : t \in Later(o) <=> t \in Old /\ t.id > o.id
      OBVIOUS
    <3> HIDE DEF Later, Old
    <3>3. \A o : IsFiniteSet(Later(o)) /\ Cardinality(Later(o)) \in Nat
      BY <2>1, <3>1, FS_Subset, FS_CardinalityType
    <3>4. Less \in SUBSET Nat /\ Less # {}
      BY <2>1, <3>3
    <3>5. PICK n \in Less : \A m \in Less : n <= m
      <4> HIDE DEF Less
      <4> QED
        BY <3>4, LeastNumber
    <3>6. PICK o \in Old : n = Cardinality(Later(o))
      OBVIOUS
    <3>7. \A t \in Old : Cardinality(Later(o)) <= Cardinality(Later(t))
      BY <3>5, <3>6
    <3> HIDE DEF Less
    <3>8. ASSUME NEW t \in Old, ~(t.id <= o.id) PROVE FALSE
      <4>1. t \in S /\ o \in S
        BY DEF Old
      <4>2. t.id > o.id
        BY <3>8, <4>1
      <4>3. Later(t) \subseteq Later(o) /\ t \in Later(o) /\ t \notin Later(t)
        <5>1. \A x \in Old : x.id \in Nat
          BY DEF Old
        <5> QED
          BY <3>1, <3>2, <4>2, <5>1
      <4>4. Cardinality(Later(t)) < Cardinality(Later(o))
        BY <3>3, <4>3, FS_Subset
      <4> QED
        BY <3>3, <3>7, <4>4
    <3> QED
      BY <3>8
  <2>3. Above(r) = New
    BY <1>1, <1>3, <2>2
  <2>4. ~(Cardinality(Above(r)) < limit)
    BY <1>1, <2>2
  <2> HIDE DEF Above
  <2> QED
    BY <1>4, <1>5, <2>3, <2>4
<1> QED
  BY <1>1, <1>3, <1>4, <1>5, <1>6 DEF New

\* The messages and calls of some stations.
LEMMA DashboardSent ==
  ASSUME NEW W
  PROVE  /\ Dashboard!Sent(W) = {r \in v1 : r.kind = "message" /\ r.station \in W /\ r.state \in {"live", "replied"}}
         /\ Dashboard!Calls(W) = {r \in v1 : r.kind = "call" /\ r.station \in W}
BY DEF Dashboard!Sent, Dashboard!Calls, Dashboard!InState, Dashboard!At, Dashboard!RowsOf

\* A ranking of all stations sums up all messages.
LEMMA DashboardTopStations ==
  ASSUME Dashboard!DashboardAssumption, Dashboard!IInv, NEW q \in Board.requests,
         NEW top \in Dashboard!TopStations(q, Dashboard!Cardinality(Board.stations))
  PROVE  /\ Dashboard!Total(top) = Cardinality(Dashboard!Sent(Dashboard!Scope(q)))
         /\ \A s \in DOMAIN top : /\ s \in Dashboard!Scope(q)
                                  /\ top[s] = Cardinality(Dashboard!Sent({s}))
<1> DEFINE W == Dashboard!Scope(q)
           f == [s \in W |-> Dashboard!Cardinality(Dashboard!Sent({s}))]
           K == {s \in W : f[s] > 0}
           S == Dashboard!Sent(W)
           k == [r \in S |-> r.station]
<1>1. IsFiniteSet(Board.stations) /\ IsFiniteSet(W) /\ W \subseteq Board.stations
  BY DashboardScopes, SameOperators DEF Dashboard!DashboardAssumption
<1>2. S \subseteq v1 /\ \A s : Dashboard!Sent({s}) \subseteq v1
  BY DashboardSent
<1>3. \A s : Cardinality(Dashboard!Sent({s})) \in Nat
  BY <1>2, DashboardFinite
<1>4. Dashboard!Scored(f) = [s \in K |-> f[s]]
  BY DEF Dashboard!Scored
<1>5. IsFiniteSet(K) /\ Cardinality(K) <= Cardinality(Board.stations) /\ Cardinality(Board.stations) \in Nat
  <2>1. K \subseteq Board.stations
    BY <1>1
  <2> HIDE DEF K
  <2> QED
    BY <1>1, <2>1, FS_Subset, FS_CardinalityType
<1>6. top \in Dashboard!Highest([s \in K |-> f[s]], Cardinality(Board.stations))
  BY <1>4, SameOperators DEF Dashboard!TopStations
<1>7. DOMAIN top = K /\ \A s \in K : top[s] = f[s]
  <2>1. DOMAIN [s \in K |-> f[s]] = K
    OBVIOUS
  <2>2. \A s \in K : [t \in K |-> f[t]][s] = f[s]
    OBVIOUS
  <2> DEFINE g == [s \in K |-> f[s]]
  <2>3. DOMAIN g = K /\ (\A s \in K : g[s] = f[s]) /\ top \in Dashboard!Highest(g, Cardinality(Board.stations))
    BY <1>6, <2>1, <2>2
  <2> HIDE DEF K, g
  <2>4. IsFiniteSet(DOMAIN g) /\ Cardinality(DOMAIN g) <= Cardinality(Board.stations)
    BY <1>5, <2>3
  <2>5. DOMAIN top = DOMAIN g /\ \A s \in DOMAIN g : top[s] = g[s]
    BY <1>5, <2>3, <2>4, DashboardHighest
  <2> QED
    BY <2>3, <2>5
<1>8. \A s \in K : s \in W /\ top[s] = Cardinality(Dashboard!Sent({s}))
  BY <1>7, SameOperators
<1>9. \A s \in W : Dashboard!Sent({s}) = {r \in S : k[r] = s}
  BY DashboardSent
<1>10. \A r \in S : k[r] \in K
  <2>1. ASSUME NEW r \in S PROVE k[r] \in K
    <3>1. k[r] = r.station /\ r.station \in W /\ r \in Dashboard!Sent({r.station})
      BY DashboardSent
    <3>2. IsFiniteSet(Dashboard!Sent({r.station}))
      BY <1>2, DashboardFinite
    <3>3. Cardinality(Dashboard!Sent({r.station})) # 0
      BY <3>1, <3>2, FS_EmptySet
    <3>4. f[r.station] > 0
      <4>1. f[r.station] = Cardinality(Dashboard!Sent({r.station}))
        BY <3>1, SameOperators
      <4>2. Cardinality(Dashboard!Sent({r.station})) \in Nat
        BY <1>3
      <4> QED
        BY <3>3, <4>1, <4>2
    <3> QED
      BY <3>1, <3>4
  <2> QED
    BY <2>1
<1> HIDE DEF K, k, f
<1>11. \A s \in K : top[s] = Cardinality({r \in S : k[r] = s})
  BY <1>8, <1>9
<1>12. IsFiniteSet(S)
  BY <1>2, DashboardFinite
<1>13. Dashboard!Total(top) = Cardinality(S)
  BY <1>5, <1>7, <1>10, <1>11, <1>12, DashboardSums
<1> QED
  BY <1>7, <1>8, <1>13

\* What a ranking of the shows has for those of a station is no more than the station has.
LEMMA DashboardTopShows ==
  ASSUME Dashboard!DashboardAssumption, Dashboard!IInv, NEW q \in Board.requests,
         NEW top \in Dashboard!TopShows(q, Dashboard!Cardinality(Board.shows)), NEW s \in Board.stations
  PROVE  Dashboard!Total([h \in {g \in DOMAIN top : Board.showStation[g] = s} |-> top[h]])
           <= IF s \in Dashboard!Scope(q) THEN Cardinality(Dashboard!Sent({s})) ELSE 0
<1> DEFINE W == Dashboard!Scope(q)
           H == {g \in DOMAIN top : Board.showStation[g] = s}
           part == [h \in H |-> top[h]]
           f == [h \in Board.shows |-> Dashboard!Cardinality({r \in Dashboard!Sent(W) : r.show = h})]
           K == {h \in Board.shows : f[h] > 0}
           zero == [h \in {g \in Board.shows : Board.showStation[g] \in Dashboard!Scope([q EXCEPT !.country = "n"])} |-> 0]
<1>1. IsFiniteSet(Board.shows) /\ Cardinality(Board.shows) \in Nat /\ "n" \notin Board.shows
  BY SameOperators, FS_CardinalityType DEF Dashboard!DashboardAssumption
<1>2. Dashboard!Scored(f) = [h \in K |-> f[h]]
  BY DEF Dashboard!Scored
<1>3. \/ top \in Dashboard!Highest([h \in K |-> f[h]], Cardinality(Board.shows))
      \/ top \in Dashboard!Highest(zero, Cardinality(Board.shows))
  BY <1>2, SameOperators DEF Dashboard!TopShows
<1>4. ASSUME NEW g, DOMAIN g \subseteq Board.shows, top \in Dashboard!Highest(g, Cardinality(Board.shows))
      PROVE  DOMAIN top = DOMAIN g /\ \A h \in DOMAIN g : top[h] = g[h]
  <2>1. IsFiniteSet(DOMAIN g) /\ Cardinality(DOMAIN g) <= Cardinality(Board.shows)
    BY <1>1, <1>4, FS_Subset
  <2> QED
    BY <1>1, <1>4, <2>1, DashboardHighest
<1>5. CASE top \in Dashboard!Highest([h \in K |-> f[h]], Cardinality(Board.shows))
  <2> DEFINE S == {r \in Dashboard!Sent(W) : r.station = s}
             k == [r \in S |-> r.show]
  <2>1. DOMAIN top = K /\ \A h \in K : top[h] = f[h]
    <3>1. DOMAIN [h \in K |-> f[h]] = K /\ K \subseteq Board.shows
      OBVIOUS
    <3>2. \A h \in K : [i \in K |-> f[i]][h] = f[h]
      OBVIOUS
    <3> HIDE DEF K
    <3> QED
      BY <1>4, <1>5, <3>1, <3>2
  <2>2. \A h \in H : top[h] = Cardinality({r \in Dashboard!Sent(W) : r.show = h})
    BY <2>1, SameOperators
  <2>3. \A h \in H : {r \in Dashboard!Sent(W) : r.show = h} = {r \in S : k[r] = h}
    <3>1. \A r \in Dashboard!Sent(W) : r.show = "n" \/ Board.showStation[r.show] = r.station
      BY DashboardRows, DashboardSent
    <3>2. \A h \in H : h # "n" /\ Board.showStation[h] = s
      BY <1>1, <2>1
    <3> QED
      BY <3>1, <3>2
  <2>4. S \subseteq v1 /\ (IF s \in W THEN S = Dashboard!Sent({s}) ELSE S = {})
    BY DashboardSent
  <2>5. DOMAIN part = H /\ \A h \in H : part[h] = Cardinality({r \in S : k[r] = h})
    BY <2>2, <2>3
  <2>6. H \subseteq Board.shows
    BY <2>1
  <2> HIDE DEF part, H, S, k
  <2>7. IsFiniteSet(S) /\ IsFiniteSet(H)
    BY <1>1, <2>4, <2>6, DashboardFinite, FS_Subset
  <2>8. Dashboard!Total(part) <= Cardinality(S)
    BY <2>5, <2>7, DashboardSums
  <2> QED
    BY <2>4, <2>8, FS_EmptySet DEF part, H
<1>6. CASE top \in Dashboard!Highest(zero, Cardinality(Board.shows))
  <2>1. DOMAIN top \subseteq Board.shows /\ \A h \in DOMAIN top : top[h] = 0
    <3>1. DOMAIN zero \subseteq Board.shows /\ \A h \in DOMAIN zero : zero[h] = 0
      OBVIOUS
    <3> HIDE DEF zero
    <3> QED
      BY <1>4, <1>6, <3>1
  <2>2. DOMAIN part = H /\ H \subseteq Board.shows /\ \A h \in H : part[h] = 0
    BY <2>1
  <2> HIDE DEF part, H
  <2>3. Dashboard!Total(part) = 0
    <3>1. IsFiniteSet(H)
      BY <1>1, <2>2, FS_Subset
    <3>2. Total(part, H) = 0
      BY <2>2, <3>1, TotalZero
    <3> QED
      BY <2>2, <3>2, DashboardTotals
  <2>4. Cardinality(Dashboard!Sent({s})) \in Nat
    <3>1. Dashboard!Sent({s}) \subseteq v1
      BY DashboardSent
    <3> QED
      BY <3>1, DashboardFinite
  <2> QED
    BY <2>3, <2>4 DEF part, H
<1> QED
  BY <1>3, <1>5, <1>6

\* The latest activity leaves out nothing newer.
LEMMA DashboardRecent ==
  ASSUME Dashboard!DashboardAssumption, Dashboard!IInv, NEW q \in Board.requests, NEW limit \in Nat \ {0}
  PROVE  LET recent == Dashboard!RecentActivity(q, limit)
             missed == Dashboard!At(Dashboard!InState(Dashboard!RowsOf("message") \cup Dashboard!RowsOf("play"),
                                                      {"live", "replied", "done"}), Dashboard!Scope(q)) \ recent
         IN missed # {} => /\ Dashboard!Cardinality(recent) = limit
                           /\ \A r \in recent, t \in missed : r.id > t.id
<1> DEFINE W == Dashboard!Scope([q EXCEPT !.country = "n"])
           M == Dashboard!Sent(W)
           P == Dashboard!At(Dashboard!RowsOf("play"), W)
           M1 == Dashboard!Latest(M, limit)
           P1 == Dashboard!Latest(P, limit)
           U == M1 \cup P1
           recent == Dashboard!Latest(U, limit)
           asked == Dashboard!At(Dashboard!InState(Dashboard!RowsOf("message") \cup Dashboard!RowsOf("play"),
                                                   {"live", "replied", "done"}), Dashboard!Scope(q))
<1>1. Dashboard!RecentActivity(q, limit) = recent
  BY DEF Dashboard!RecentActivity
<1>2. M \subseteq v1 /\ P \subseteq v1
  BY DashboardSent DEF Dashboard!At, Dashboard!RowsOf
<1>3. asked \subseteq M \cup P
  <2>1. Dashboard!Scope(q) \subseteq W
    BY DashboardScopes
  <2>2. ASSUME NEW r \in asked PROVE r \in M \/ r \in P
    <3>1. /\ r \in v1 /\ r.kind \in {"message", "play"} /\ r.station \in W
          /\ r.state \in {"live", "replied", "done"}
      BY <2>1 DEF Dashboard!At, Dashboard!InState, Dashboard!RowsOf
    <3>2. CASE r.kind = "message"
      <4>1. r.state # "done"
        BY <3>1, <3>2, DashboardRows
      <4> QED
        BY <3>1, <3>2, <4>1, DashboardSent
    <3>3. CASE r.kind = "play"
      BY <3>1, <3>3 DEF Dashboard!At, Dashboard!RowsOf
    <3> QED
      BY <3>1, <3>2, <3>3
  <2> QED
    BY <2>2
<1>4. /\ \A r \in v1 : r.id \in Nat
      /\ \A r, t \in v1 : r.id = t.id => r = t
  BY DashboardRows DEF Dashboard!IInv, Dashboard!RowsAreStored
<1> HIDE DEF M, P, asked
\* Of each list of rows, the newest.
<1>5. ASSUME NEW S \in SUBSET v1
      PROVE  /\ IsFiniteSet(S) /\ IsFiniteSet(Dashboard!Latest(S, limit))
             /\ Dashboard!Latest(S, limit) \subseteq S
             /\ \A r \in Dashboard!Latest(S, limit), t \in S \ Dashboard!Latest(S, limit) : r.id > t.id
             /\ Cardinality(Dashboard!Latest(S, limit)) \in Nat
             /\ Cardinality(Dashboard!Latest(S, limit)) <= limit
             /\ S # Dashboard!Latest(S, limit) => Cardinality(Dashboard!Latest(S, limit)) = limit
  <2>1. IsFiniteSet(S)
    BY DashboardFinite
  <2>2. \A r \in S : r.id \in Nat
    BY <1>4
  <2>3. \A r, t \in S : r.id = t.id => r = t
    BY <1>4
  <2>4. /\ Dashboard!Latest(S, limit) \subseteq S
        /\ \A r \in Dashboard!Latest(S, limit), t \in S \ Dashboard!Latest(S, limit) : r.id > t.id
        /\ Cardinality(Dashboard!Latest(S, limit)) \in Nat
        /\ Cardinality(Dashboard!Latest(S, limit)) <= limit
        /\ S # Dashboard!Latest(S, limit) => Cardinality(Dashboard!Latest(S, limit)) = limit
    BY <2>1, <2>2, <2>3, DashboardNewest
  <2> QED
    BY <2>1, <2>4, FS_Subset
<1>6. U \subseteq v1
  BY <1>2, <1>5
\* What is cut from one list is older than limit rows that are not.
<1>7. ASSUME NEW t \in (M \cup P) \ U, NEW S \in {M, P}, t \in S
      PROVE  /\ Dashboard!Latest(S, limit) \subseteq U
             /\ Cardinality(Dashboard!Latest(S, limit)) = limit
             /\ \A r \in Dashboard!Latest(S, limit) : r.id > t.id
  <2>1. S \subseteq v1 /\ Dashboard!Latest(S, limit) \subseteq U
    BY <1>2, <1>7
  <2>2. t \in S \ Dashboard!Latest(S, limit)
    BY <1>7, <2>1
  <2>3. S # Dashboard!Latest(S, limit)
    BY <2>2
  <2> QED
    BY <1>5, <2>1, <2>2, <2>3
<1> HIDE DEF U
<1>8. /\ recent \subseteq U /\ Cardinality(recent) \in Nat /\ Cardinality(recent) <= limit
      /\ \A r \in recent, t \in U \ recent : r.id > t.id
      /\ U # recent => Cardinality(recent) = limit
      /\ IsFiniteSet(recent) /\ IsFiniteSet(U)
  BY <1>5, <1>6
<1> HIDE DEF recent
<1>9. ASSUME NEW t \in asked \ recent
      PROVE  Cardinality(recent) = limit /\ \A r \in recent : r.id > t.id
  <2>1. CASE t \in U
    BY <1>8, <2>1
  <2>2. CASE t \notin U
    <3>1. PICK S \in {M, P} : t \in S
      BY <1>3
    <3> DEFINE L == Dashboard!Latest(S, limit)
    <3>2. L \subseteq U /\ Cardinality(L) = limit /\ (\A r \in L : r.id > t.id)
      BY <1>3, <1>7, <2>2, <3>1
    <3> HIDE DEF L
    <3>3. Cardinality(recent) = limit
      <4>1. CASE U = recent
        <5>1. Cardinality(L) <= Cardinality(recent)
          BY <1>8, <3>2, <4>1, FS_Subset
        <5> QED
          BY <1>8, <3>2, <5>1
      <4> QED
        BY <1>8, <4>1
    \* If an older row were recent, all of those would be too, and one more than limit.
    <3>4. ASSUME NEW r \in recent, ~(r.id > t.id) PROVE FALSE
      <4>1. r \in v1 /\ t \in v1 /\ r.id \in Nat /\ t.id \in Nat
        BY <1>2, <1>3, <1>4, <1>6, <1>8
      <4>2. \A o \in L : o.id \in Nat /\ o.id > r.id
        BY <1>4, <1>6, <3>2, <3>4, <4>1
      <4>3. L \subseteq recent
        <5>1. ASSUME NEW o \in L, o \notin recent PROVE FALSE
          <6>1. o \in U \ recent /\ r.id > o.id
            BY <1>8, <3>2, <5>1
          <6> QED
            BY <4>1, <4>2, <6>1
        <5> QED
          BY <5>1
      <4>4. r \notin L
        BY <4>1, <4>2
      <4>5. Cardinality(L) # Cardinality(recent)
        BY <1>8, <4>3, <4>4, FS_Subset
      <4> QED
        BY <3>2, <3>3, <4>5
    <3> QED
      BY <3>3, <3>4
  <2> QED
    BY <2>1, <2>2
<1> QED
  BY <1>1, <1>9, SameOperators DEF asked

\* Who is active is a listener.
LEMMA DashboardActive ==
  ASSUME Dashboard!DashboardAssumption, NEW q \in Board.requests
  PROVE  Dashboard!ActiveOf(q) \subseteq Dashboard!ListenersOf(q)
<1>1. CASE Dashboard!StationRole(q)
  <2>1. \A S : Dashboard!Recent(S) \subseteq S
    BY DEF Dashboard!Recent
  <2>2. \A S, T : S \subseteq T => Dashboard!UsersOf(S) \subseteq Dashboard!UsersOf(T)
    BY DEF Dashboard!UsersOf
  <2> DEFINE S == Dashboard!Sent({q.station}) \cup Dashboard!Calls({q.station})
                  \cup Dashboard!InState(Dashboard!At(Dashboard!RowsOf("transaction"), {q.station}), Dashboard!Spent)
  <2>3. Dashboard!UsersOf(Dashboard!Recent(S)) \subseteq Dashboard!UsersOf(S)
    <3> HIDE DEF S
    <3> QED
      BY <2>1, <2>2
  <2>4. Dashboard!ListenersOf(q) = Dashboard!UsersOf(S) \cup Dashboard!FollowersAt({q.station})
    BY <1>1 DEF Dashboard!ListenersOf, Dashboard!HeardAt
  <2>5. Dashboard!ActiveOf(q) = Dashboard!UsersOf(Dashboard!Recent(S)) \cup Dashboard!FollowersAt({q.station})
    BY <1>1 DEF Dashboard!ActiveOf
  <2> HIDE DEF S
  <2> QED
    BY <2>3, <2>4, <2>5
<1>2. CASE ~Dashboard!StationRole(q)
  BY <1>2 DEF Dashboard!ActiveOf
<1> QED
  BY <1>1, <1>2

\* On no day are there more senders than messages.
LEMMA DashboardSenders ==
  ASSUME Dashboard!DashboardAssumption, Dashboard!IInv, NEW q \in Board.requests,
         NEW d \in DOMAIN Dashboard!ListenerActivity(q)
  PROVE  Dashboard!ListenerActivity(q)[d] <= Dashboard!MessageActivity(q)[d]
<1> DEFINE S == Dashboard!Sent(Dashboard!Scope(q))
           K == Dashboard!Oldest(Dashboard!DaysOf(S))
           T == Dashboard!OnDay(S, d)
           u == [r \in T |-> r.user]
<1>1. /\ d \in K
      /\ Dashboard!ListenerActivity(q)[d] = Cardinality(Dashboard!UsersOf(T))
      /\ Dashboard!MessageActivity(q)[d] = Cardinality(T)
  BY SameOperators DEF Dashboard!ListenerActivity, Dashboard!MessageActivity, Dashboard!Series
<1>2. T \subseteq v1
  BY DashboardSent DEF Dashboard!OnDay
<1>3. IsFiniteSet(T)
  BY <1>2, DashboardFinite
<1>4. Dashboard!UsersOf(T) = {u[r] : r \in T}
  BY DEF Dashboard!UsersOf
<1> HIDE DEF T, u
<1>5. Cardinality({u[r] : r \in T}) <= Cardinality(T)
  BY <1>3, ImageIsSmaller
<1> QED
  BY <1>1, <1>4, <1>5

\* Series, rankings and the latest activity agree with the count of messages.
LEMMA DashboardMessages ==
  ASSUME Dashboard!DashboardAssumption, Dashboard!IInv, NEW q \in Board.requests
  PROVE  Dashboard!MessagesAgree(q, Dashboard!StationOverview(q))
<1> DEFINE o == Dashboard!StationOverview(q)
           S == Dashboard!Sent(Dashboard!Scope(q))
           sent == Dashboard!Cardinality(Dashboard!Sent(Dashboard!StatsScope(q)))
<1>1. sent = Cardinality(S) /\ Dashboard!Scope(q) \subseteq Board.stations
  BY DashboardScopes, SameOperators
<1>2. \A s \in Dashboard!Scope(q) : o[s].messages = Cardinality(Dashboard!Sent({s}))
  BY SameOperators DEF Dashboard!StationOverview
<1>3. S \subseteq v1
  BY DashboardSent
<1>4. Board.periods \in Nat /\ Board.maxRows \in Nat
  BY DEF Dashboard!DashboardAssumption
<1> HIDE DEF o
<1>5. Dashboard!Cardinality(Dashboard!DaysOf(S)) <= Board.periods => Dashboard!Total(Dashboard!MessageActivity(q)) = sent
  BY <1>1, <1>3, <1>4, DashboardSeries DEF Dashboard!MessageActivity
<1>6. ASSUME NEW top \in Dashboard!TopStations(q, Dashboard!Cardinality(Board.stations))
      PROVE  Dashboard!Total(top) = sent /\ \A s \in DOMAIN top : o[s].messages = top[s]
  <2>1. /\ Dashboard!Total(top) = Cardinality(S)
        /\ \A s \in DOMAIN top : s \in Dashboard!Scope(q) /\ top[s] = Cardinality(Dashboard!Sent({s}))
    BY <1>6, DashboardTopStations
  <2> QED
    BY <1>1, <1>2, <2>1
<1>7. ASSUME NEW top \in Dashboard!TopShows(q, Dashboard!Cardinality(Board.shows)), NEW s \in Board.stations
      PROVE  LET ofStation == {h \in DOMAIN top : Board.showStation[h] = s} IN
             Dashboard!Total([h \in ofStation |-> top[h]]) <= IF s \in Dashboard!Scope(q) THEN o[s].messages ELSE 0
  BY <1>2, DashboardTopShows
<1>8. \A d \in DOMAIN Dashboard!ListenerActivity(q) :
         Dashboard!ListenerActivity(q)[d] <= Dashboard!MessageActivity(q)[d]
  BY DashboardSenders
<1>9. \A limit \in 1 .. Board.maxRows : limit \in Nat \ {0}
  BY <1>4
<1>10. ASSUME NEW limit \in 1 .. Board.maxRows
       PROVE  LET recent == Dashboard!RecentActivity(q, limit)
                  missed == Dashboard!At(Dashboard!InState(Dashboard!RowsOf("message") \cup Dashboard!RowsOf("play"),
                                                           {"live", "replied", "done"}), Dashboard!Scope(q)) \ recent
              IN missed # {} => /\ Dashboard!Cardinality(recent) = limit
                                /\ \A r \in recent, t \in missed : r.id > t.id
  BY <1>9, DashboardRecent
<1>11. Dashboard!MessagesAgree(q, o)
  BY <1>5, <1>6, <1>7, <1>8, <1>10, DashboardActive DEF Dashboard!MessagesAgree
<1> QED
  BY <1>11 DEF o

\* The calls by what became of them, and of the stations together.
LEMMA DashboardCalls ==
  ASSUME Dashboard!DashboardAssumption, Dashboard!IInv, NEW q \in Board.requests
  PROVE  Dashboard!CallsAgree(q, Dashboard!StationOverview(q))
<1> DEFINE W == Dashboard!Scope(q)
           C == Dashboard!Calls(W)
           In(T) == Dashboard!InState(C, T)
           o == Dashboard!StationOverview(q)
<1>1. C \subseteq v1 /\ \A r \in C : r.station \in W
  BY DashboardSent
<1>2. \A T : In(T) = {r \in C : r.state \in T}
  BY DEF Dashboard!InState
<1>3. \A r \in C : r.state \in {"queued", "answered", "completed", "missed", "rejected", "cancelled"}
  BY DashboardRows, DashboardSent
<1>4. \A T : In(T) \subseteq v1
  BY <1>1, <1>2
<1>5. \A T : IsFiniteSet(In(T)) /\ Cardinality(In(T)) \in Nat
  <2> HIDE DEF In
  <2> QED
    BY <1>4, DashboardFinite
<1>6. IsFiniteSet(W) /\ Dashboard!StatsScope(q) = W
  BY DashboardScopes
<1>7. Cardinality(C) = Cardinality(In({"answered", "completed"})) + Cardinality(In({"queued"}))
        + Cardinality(In({"missed"})) + Cardinality(In({"rejected"})) + Cardinality(In({"cancelled"}))
  <2> DEFINE T1 == {"answered", "completed"}
             T2 == T1 \cup {"queued"}
             T3 == T2 \cup {"missed"}
             T4 == T3 \cup {"rejected"}
             T5 == T4 \cup {"cancelled"}
  <2>1. C = In(T5)
    <3>1. \A r \in C : r.state \in T5
      BY <1>3
    <3>2. In(T5) = {r \in C : r.state \in T5}
      BY <1>2
    <3> HIDE DEF C, In, T5
    <3> QED
      BY <3>1, <3>2
  <2>2. ASSUME NEW T, NEW x, x \notin T
        PROVE  Cardinality(In(T \cup {x})) = Cardinality(In(T)) + Cardinality(In({x}))
    <3>1. In(T) \cap In({x}) = {}
      BY <1>2, <2>2
    <3>2. In(T \cup {x}) = In(T) \cup In({x})
      BY <1>2
    <3> HIDE DEF In
    <3> QED
      BY <1>5, <3>1, <3>2, CountsAdd
  <2> HIDE DEF In
  <2>3. Cardinality(In(T2)) = Cardinality(In(T1)) + Cardinality(In({"queued"}))
    BY <2>2
  <2>4. Cardinality(In(T3)) = Cardinality(In(T2)) + Cardinality(In({"missed"}))
    BY <2>2
  <2>5. Cardinality(In(T4)) = Cardinality(In(T3)) + Cardinality(In({"rejected"}))
    BY <2>2
  <2>6. Cardinality(In(T5)) = Cardinality(In(T4)) + Cardinality(In({"cancelled"}))
    BY <2>2
  <2> QED
    BY <2>1, <2>3, <2>4, <2>5, <2>6
\* The sum over the stations of those in some states.
<1>8. ASSUME NEW S \in SUBSET C, NEW f, DOMAIN f = W, \A s \in W : f[s] = Cardinality({r \in S : r.station = s})
      PROVE  Dashboard!Total(f) = Cardinality(S)
  <2> DEFINE k == [r \in S |-> r.station]
  <2>1. \A s \in W : f[s] = Cardinality({r \in S : k[r] = s})
    <3>1. \A s : {r \in S : k[r] = s} = {r \in S : r.station = s}
      OBVIOUS
    <3> QED
      BY <1>8, <3>1
  <2>2. \A r \in S : k[r] \in W
    BY <1>1
  <2>3. IsFiniteSet(S)
    BY <1>1, DashboardFinite
  <2> HIDE DEF k
  <2> QED
    BY <1>6, <1>8, <2>1, <2>2, <2>3, DashboardSums
<1>9. Dashboard!Total([s \in W |-> o[s].calls]) = Cardinality(C)
  <2> DEFINE f == [s \in W |-> o[s].calls]
  <2>1. \A s \in W : f[s] = Cardinality(Dashboard!Calls({s}))
    BY SameOperators DEF Dashboard!StationOverview
  <2>2. \A s \in W : Dashboard!Calls({s}) = {r \in C : r.station = s}
    BY DashboardSent
  <2>3. DOMAIN f = W /\ \A s \in W : f[s] = Cardinality({r \in C : r.station = s})
    BY <2>1, <2>2
  <2> HIDE DEF f, C
  <2>4. Dashboard!Total(f) = Cardinality(C)
    BY <1>8, <2>3
  <2> QED
    BY <2>4 DEF f
<1>10. Dashboard!Total([s \in W |-> o[s].answered]) = Cardinality(In({"answered", "completed"}))
  <2> DEFINE f == [s \in W |-> o[s].answered]
             S == In({"answered", "completed"})
  <2>1. \A s \in W : f[s] = Cardinality(Dashboard!InState(Dashboard!Calls({s}), {"answered", "completed"}))
    BY SameOperators DEF Dashboard!StationOverview, Dashboard!Taken
  <2>2. \A s \in W : Dashboard!InState(Dashboard!Calls({s}), {"answered", "completed"}) = {r \in S : r.station = s}
    BY DashboardSent DEF Dashboard!InState
  <2>3. DOMAIN f = W /\ \A s \in W : f[s] = Cardinality({r \in S : r.station = s})
    BY <2>1, <2>2
  <2>4. S \subseteq C
    BY <1>2
  <2> HIDE DEF f, S, C
  <2>5. Dashboard!Total(f) = Cardinality(S)
    BY <1>8, <2>3, <2>4
  <2> QED
    BY <2>5 DEF f, S
<1>11. Dashboard!Total(Dashboard!CallActivity(q)) <= Cardinality(C)
  BY <1>1, DashboardSeries DEF Dashboard!CallActivity
<1>12. Dashboard!Core(q).calls = Cardinality(C)
  BY <1>6, SameOperators DEF Dashboard!Core
<1>13. /\ Dashboard!CallOperations(q).total = Cardinality(C)
       /\ Dashboard!CallOperations(q).answered = Cardinality(In({"answered", "completed"}))
       /\ Dashboard!CallOperations(q).queued = Cardinality(In({"queued"}))
       /\ Dashboard!CallOperations(q).missed = Cardinality(In({"missed"}))
       /\ Dashboard!CallOperations(q).rejected = Cardinality(In({"rejected"}))
  BY SameOperators DEF Dashboard!CallOperations, Dashboard!Taken
<1>14. Dashboard!Cardinality(In({"cancelled"})) = Cardinality(In({"cancelled"}))
  BY SameOperators
<1> HIDE DEF o
<1>15. Dashboard!CallsAgree(q, o)
  BY <1>7, <1>9, <1>10, <1>11, <1>12, <1>13, <1>14 DEF Dashboard!CallsAgree
<1> QED
  BY <1>15 DEF o

\* What a show on air had is part of what its station had.
LEMMA DashboardShow ==
  ASSUME Dashboard!DashboardAssumption, Dashboard!IInv, NEW q \in Board.requests,
         NEW h \in Board.shows, Board.showStation[h] \in Dashboard!Scope(q)
  PROVE  Dashboard!ShowAgrees(h, Dashboard!StationOverview(q))
<1> DEFINE o == Dashboard!StationOverview(q)
           s == Board.showStation[h]
           Now(kind, T) == {r \in v1 : r.kind = kind /\ r.state \in T /\ r.day = v2 /\ r.show = h}
           All == {"queued", "answered", "completed", "missed", "rejected", "cancelled"}
           Done == {"answered", "completed"}
           In == {"live", "replied"}
           Answered == {"replied", "repliedDeleted"}
           live == Dashboard!LiveStats(h)
           Of(kind, T) == {r \in Dashboard!OnDay(Dashboard!InState(Dashboard!RowsOf(kind), T), v2) : r.show = h}
<1>1. \A kind, T : Of(kind, T) = Now(kind, T)
  BY DEF Dashboard!OnDay, Dashboard!InState, Dashboard!RowsOf
<1>2. Dashboard!States.call = All
  BY DEF Dashboard!States
<1>3. /\ live.incomingMessages = Cardinality(Now("message", In))
      /\ live.calls = Cardinality(Now("call", All))
      /\ live.waitingCalls = Cardinality(Now("call", {"queued"}))
      /\ live.uncutCalls = Cardinality(Now("call", Done))
      /\ live.successfulInteractions = Cardinality(Now("call", Done)) + Cardinality(Now("message", Answered))
  <2>1. /\ live.incomingMessages = Dashboard!Cardinality(Of("message", In))
        /\ live.calls = Dashboard!Cardinality(Of("call", Dashboard!States.call))
        /\ live.waitingCalls = Dashboard!Cardinality(Of("call", {"queued"}))
        /\ live.uncutCalls = Dashboard!Cardinality(Of("call", Done))
        /\ live.successfulInteractions
             = Dashboard!Cardinality(Of("call", Done)) + Dashboard!Cardinality(Of("message", Answered))
    BY DEF Dashboard!LiveStats, Dashboard!Taken
  <2> HIDE DEF live, Of, Now
  <2> QED
    BY <1>1, <1>2, <2>1, SameOperators
<1>4. \A kind, T : Now(kind, T) \subseteq v1
  OBVIOUS
<1>5. \A kind, T : IsFiniteSet(Now(kind, T)) /\ Cardinality(Now(kind, T)) \in Nat
  <2> HIDE DEF Now
  <2> QED
    BY <1>4, DashboardFinite
<1>6. /\ o[s].messages = Cardinality(Dashboard!Sent({s}))
      /\ o[s].calls = Cardinality(Dashboard!Calls({s}))
      /\ o[s].answered = Cardinality(Dashboard!InState(Dashboard!Calls({s}), Done))
  BY SameOperators DEF Dashboard!StationOverview, Dashboard!Taken
<1>7. \A r \in v1 : /\ r.kind = "call" /\ r.show = h => r.station = s
                    /\ r.kind = "message" /\ r.show = h => r.station = s
  <2>1. "n" \notin Board.shows
    BY DEF Dashboard!DashboardAssumption
  <2> QED
    BY <2>1, DashboardRows
<1>8. /\ Now("call", All) \subseteq Dashboard!Calls({s})
      /\ Now("call", Done) \subseteq Dashboard!InState(Dashboard!Calls({s}), Done)
      /\ Now("message", In) \subseteq Dashboard!Sent({s})
  BY <1>7, DashboardSent DEF Dashboard!InState
<1>9. /\ Dashboard!Calls({s}) \subseteq v1 /\ Dashboard!Sent({s}) \subseteq v1
      /\ Dashboard!InState(Dashboard!Calls({s}), Done) \subseteq v1
  BY DashboardSent DEF Dashboard!InState
<1>10. /\ Now("call", {"queued"}) \cap Now("call", Done) = {}
       /\ Now("call", {"queued"}) \cup Now("call", Done) \subseteq Now("call", All)
  OBVIOUS
<1>11. Dashboard!InState(Dashboard!At(Dashboard!RowsOf("message"), {s}), {"repliedDeleted"}) = {}
          => Now("message", Answered) \subseteq Now("message", In)
  BY <1>7 DEF Dashboard!InState, Dashboard!At, Dashboard!RowsOf
<1> HIDE DEF Now, live, o
<1>12. live.waitingCalls + live.uncutCalls <= live.calls
  <2> DEFINE X == Now("call", {"queued"})
             Y == Now("call", Done)
  <2>1. Cardinality(X \cup Y) = live.waitingCalls + live.uncutCalls
    <3>1. IsFiniteSet(X) /\ IsFiniteSet(Y) /\ X \cap Y = {}
      BY <1>5, <1>10
    <3> HIDE DEF X, Y
    <3>2. Cardinality(X \cup Y) = Cardinality(X) + Cardinality(Y)
      BY <3>1, CountsAdd
    <3> QED
      BY <1>3, <3>2 DEF X, Y
  <2>2. Cardinality(Now("call", {"queued"}) \cup Now("call", Done)) <= Cardinality(Now("call", All))
    BY <1>5, <1>10, FS_Subset
  <2> QED
    BY <1>3, <2>1, <2>2
<1>13. /\ live.calls <= o[s].calls /\ live.uncutCalls <= o[s].answered
       /\ live.incomingMessages <= o[s].messages
  <2>1. \A T \in SUBSET v1 : IsFiniteSet(T)
    BY DashboardFinite
  <2> QED
    BY <1>3, <1>6, <1>8, <1>9, <2>1, FS_Subset
<1>14. ASSUME Dashboard!InState(Dashboard!At(Dashboard!RowsOf("message"), {s}), {"repliedDeleted"}) = {}
       PROVE  live.successfulInteractions <= live.calls + live.incomingMessages
  <2>1. Cardinality(Now("message", Answered)) <= Cardinality(Now("message", In))
    BY <1>5, <1>11, <1>14, FS_Subset
  <2>2. Cardinality(Now("call", Done)) <= Cardinality(Now("call", All))
    BY <1>5, <1>10, FS_Subset
  <2> QED
    BY <1>3, <1>5, <2>1, <2>2
<1>15. Dashboard!ShowAgrees(h, o)
  BY <1>12, <1>13, <1>14 DEF Dashboard!ShowAgrees, live
<1> QED
  BY <1>15 DEF o

\* Today's hours are its cash flow and its day, and countries and days sum up the revenue.
LEMMA DashboardMoney ==
  ASSUME Dashboard!DashboardAssumption, Dashboard!IInv, NEW q \in Board.requests
  PROVE  Dashboard!MoneyAgrees(q)
<1> DEFINE T == Dashboard!Transactions(q)
           On(states, d) == {r \in T : r.state \in states /\ r.day = d}
           Coll == Dashboard!Collection
           Spend == Dashboard!Deduction
<1>1. v2 \in Nat /\ T \subseteq v1 /\ \A r \in T : r.day \in Nat /\ r.day <= v2
  <2>1. v2 \in Nat
    BY DEF Dashboard!IInv
  <2>2. T \subseteq v1
    BY DEF Dashboard!Transactions, Dashboard!At, Dashboard!RowsOf
  <2>3. \A r \in v1 : r.day \in Nat /\ r.day <= v2
    BY <2>1, DashboardRows
  <2> QED
    BY <2>1, <2>2, <2>3
<1> HIDE DEF T
<1>2. ASSUME NEW d \in Nat PROVE Dashboard!SumCredits(q, d, d) = Cardinality(On(Coll, d))
  <2>1. {r \in Dashboard!InState(T, Coll) : r.day \in d .. d} = On(Coll, d)
    BY <1>1 DEF Dashboard!InState
  <2> QED
    BY <2>1, SameOperators DEF Dashboard!SumCredits, T
<1>3. \A d, S : Dashboard!OnDay(Dashboard!InState(T, S), d) = On(S, d)
  BY DEF Dashboard!OnDay, Dashboard!InState
<1>4. Dashboard!Daily(q) = [d \in 0 .. v2 |-> [collections |-> Cardinality(On(Coll, d)),
                                               disbursements |-> Cardinality(On(Spend, d))]]
  <2>1. Dashboard!Daily(q) = [d \in 0 .. v2 |->
          [collections |-> Dashboard!Cardinality(Dashboard!OnDay(Dashboard!InState(T, Coll), d)),
           disbursements |-> Dashboard!Cardinality(Dashboard!OnDay(Dashboard!InState(T, Spend), d))]]
    BY DEF Dashboard!Daily, T
  <2> HIDE DEF On
  <2> QED
    BY <1>3, <2>1, SameOperators, Zenon
<1>5. \A d \in 0 .. v2 : /\ Dashboard!Daily(q)[d].collections = Cardinality(On(Coll, d))
                         /\ Dashboard!Daily(q)[d].disbursements = Cardinality(On(Spend, d))
  <2> HIDE DEF On
  <2> QED
    BY <1>4
<1>6. Dashboard!Hourly(q).collections = Cardinality(On(Coll, v2))
  <2>1. Dashboard!InState(Dashboard!OnDay(T, v2), Coll) = On(Coll, v2)
    BY DEF Dashboard!OnDay, Dashboard!InState
  <2> QED
    BY <2>1, SameOperators DEF Dashboard!Hourly, T
<1>7. Dashboard!Hourly(q).disbursements >= Cardinality(On(Spend, v2))
  <2> DEFINE Rest == Dashboard!OnDay(T, v2) \ Dashboard!InState(Dashboard!OnDay(T, v2), Coll)
  <2>1. Dashboard!Hourly(q).disbursements = Cardinality(Rest)
    BY SameOperators DEF Dashboard!Hourly, T
  <2>2. On(Spend, v2) \subseteq Rest /\ Rest \subseteq v1
    BY <1>1 DEF Dashboard!OnDay, Dashboard!InState, Dashboard!Collection, Dashboard!Deduction
  <2> HIDE DEF Rest, On
  <2>3. Cardinality(On(Spend, v2)) <= Cardinality(Rest) /\ Cardinality(On(Spend, v2)) \in Nat /\ Cardinality(Rest) \in Nat
    <3>1. Rest \in SUBSET v1 /\ On(Spend, v2) \in SUBSET Rest
      BY <2>2
    <3> QED
      BY <3>1, DashboardFinite
  <2> QED
    BY <2>1, <2>3
<1>8. Dashboard!SumCredits(q, 0, v2) >= Dashboard!CreditStats(q).purchased
  <2> DEFINE All == {r \in Dashboard!InState(T, Coll) : r.day \in 0 .. v2}
             Bought == Dashboard!InState(T, {"purchase"})
  <2>1. Dashboard!SumCredits(q, 0, v2) = Cardinality(All) /\ Dashboard!CreditStats(q).purchased = Cardinality(Bought)
    BY SameOperators DEF Dashboard!SumCredits, Dashboard!CreditStats, T
  <2>2. Bought \subseteq All /\ All \subseteq v1
    BY <1>1 DEF Dashboard!InState, Dashboard!Collection
  <2> HIDE DEF All, Bought
  <2>3. Cardinality(Bought) <= Cardinality(All) /\ Cardinality(Bought) \in Nat /\ Cardinality(All) \in Nat
    <3>1. All \in SUBSET v1 /\ Bought \in SUBSET All
      BY <2>2
    <3> QED
      BY <3>1, DashboardFinite
  <2> QED
    BY <2>1, <2>3
<1>9. Dashboard!CashFlow(q, v2, v2).amount = Dashboard!SumCredits(q, v2, v2)
  BY DEF Dashboard!CashFlow
<1>10. v2 > 0 => Dashboard!CashFlow(q, v2, v2).previousAmount = Dashboard!SumCredits(q, v2 - 1, v2 - 1)
  <2>1. ASSUME v2 > 0 PROVE Dashboard!CashFlow(q, v2, v2).previousAmount = Dashboard!SumCredits(q, v2 - 1, v2 - 1)
    <3>1. v2 + 1 - v2 = 1 /\ ~(1 > v2) /\ v2 # 0
      BY <1>1, <2>1
    <3>2. Dashboard!CashFlow(q, v2, v2).previousAmount
            = IF v2 = 0 THEN 0
              ELSE Dashboard!SumCredits(q, IF v2 + 1 - v2 > v2 THEN 0 ELSE v2 - (v2 + 1 - v2), v2 - 1)
      BY DEF Dashboard!CashFlow
    <3> QED
      BY <3>1, <3>2
  <2> QED
    BY <2>1
<1> DEFINE S == Dashboard!At(Dashboard!RowsOf("statement"), Dashboard!Scope(q))
           paid == Dashboard!InState(S, {"paid"})
<1>11. Dashboard!Core(q).revenue = Cardinality(paid) /\ S \subseteq v1 /\ paid \subseteq S
  BY DashboardScopes, SameOperators DEF Dashboard!Core, Dashboard!InState, Dashboard!At, Dashboard!RowsOf
<1>12. IsFiniteSet(paid)
  <2>1. paid \in SUBSET v1
    BY <1>11
  <2> QED
    BY <2>1, DashboardFinite
<1> HIDE DEF S, paid
<1>13. Dashboard!Total(Dashboard!CountryRevenue(q)) = Cardinality(paid)
  <2> DEFINE k == [r \in paid |-> Board.countryOf[r.station]]
             K == {k[r] : r \in paid}
             f == Dashboard!CountryRevenue(q)
  <2>1. f = [c \in {Board.countryOf[r.station] : r \in paid} |->
               Cardinality({r \in paid : Board.countryOf[r.station] = c})]
    BY SameOperators DEF Dashboard!CountryRevenue, paid, S
  <2>2. K = {Board.countryOf[r.station] : r \in paid}
    OBVIOUS
  <2>3. \A c : {r \in paid : Board.countryOf[r.station] = c} = {r \in paid : k[r] = c}
    OBVIOUS
  <2>4. DOMAIN f = K /\ \A c \in K : f[c] = Cardinality({r \in paid : k[r] = c})
    <3>1. DOMAIN f = K
      BY <2>1, <2>2
    <3>2. ASSUME NEW c \in K PROVE f[c] = Cardinality({r \in paid : k[r] = c})
      <4>1. f[c] = Cardinality({r \in paid : Board.countryOf[r.station] = c})
        BY <2>1, <2>2
      <4> QED
        BY <2>3, <4>1
    <3> QED
      BY <3>1, <3>2
  <2>5. \A r \in paid : k[r] \in K
    OBVIOUS
  <2> HIDE DEF k
  <2>6. IsFiniteSet(K)
    BY <1>12, ImageIsSmaller
  <2> HIDE DEF K, f
  <2>7. Dashboard!Total(f) = Cardinality(paid)
    BY <1>12, <2>4, <2>5, <2>6, DashboardSums
  <2> QED
    BY <2>7 DEF f
<1>14. Dashboard!Total(Dashboard!RevenueActivity(q)) <= Cardinality(paid)
  <2> DEFINE k == [r \in paid |-> r.day]
             K == Dashboard!Oldest(Dashboard!DaysOf(S))
             f == Dashboard!RevenueActivity(q)
  <2>1. f = [d \in K |-> Cardinality(Dashboard!OnDay(paid, d))]
    BY SameOperators DEF Dashboard!RevenueActivity, paid, S
  <2>2. \A d : Dashboard!OnDay(paid, d) = {r \in paid : k[r] = d}
    BY DEF Dashboard!OnDay
  <2>3. IsFiniteSet(K)
    BY <1>11, DashboardDays
  <2> HIDE DEF k, K, f
  <2>4. DOMAIN f = K /\ \A d \in K : f[d] = Cardinality({r \in paid : k[r] = d})
    <3>1. DOMAIN f = K /\ \A d \in K : f[d] = Cardinality(Dashboard!OnDay(paid, d))
      BY <2>1
    <3> QED
      BY <2>2, <3>1
  <2>5. Dashboard!Total(f) <= Cardinality(paid)
    BY <1>12, <2>3, <2>4, DashboardSums
  <2> QED
    BY <2>5 DEF f
<1> HIDE DEF On
<1>15. Dashboard!Hourly(q).collections = Dashboard!CashFlow(q, v2, v2).amount
  BY <1>1, <1>2, <1>6, <1>9
<1>16. /\ Dashboard!Hourly(q).collections = Dashboard!Daily(q)[v2].collections
       /\ Dashboard!Hourly(q).disbursements >= Dashboard!Daily(q)[v2].disbursements
  BY <1>1, <1>5, <1>6, <1>7
<1>17. v2 > 0 => Dashboard!CashFlow(q, v2, v2).previousAmount = Dashboard!Daily(q)[v2 - 1].collections
  <2>1. v2 > 0 => v2 - 1 \in Nat /\ v2 - 1 \in 0 .. v2
    BY <1>1
  <2> QED
    BY <1>2, <1>5, <1>10, <2>1
<1> QED
  BY <1>8, <1>11, <1>13, <1>14, <1>15, <1>16, <1>17 DEF Dashboard!MoneyAgrees

\* A status is live or it has run out.
LEMMA DashboardCampaigns ==
  ASSUME Dashboard!DashboardAssumption, Dashboard!IInv, NEW q \in Board.requests
  PROVE  Dashboard!CampaignsAgree(q)
<1> DEFINE S == Dashboard!At(Dashboard!RowsOf("status"), Dashboard!Scope(q))
           Live == Dashboard!InState(S, {"live"})
           Over == Dashboard!InState(S, {"expired"})
<1>1. S \subseteq v1 /\ \A r \in S : r.state \in {"live", "expired"}
  BY DashboardRows DEF Dashboard!At, Dashboard!RowsOf
<1>2. S = Live \cup Over /\ Live \cap Over = {}
  BY <1>1 DEF Dashboard!InState
<1>3. /\ Dashboard!CampaignStats(q).active = Cardinality(Live)
      /\ Dashboard!CampaignStats(q).expired = Cardinality(Over)
      /\ Dashboard!CampaignStats(q).views = Cardinality(S)
  BY SameOperators DEF Dashboard!CampaignStats
<1>4. Dashboard!Total(Dashboard!CampaignActivity(q)) <= Cardinality(S)
  BY <1>1, DashboardSeries DEF Dashboard!CampaignActivity
<1> HIDE DEF S, Live, Over
<1>5. IsFiniteSet(Live) /\ IsFiniteSet(Over)
  <2>1. Live \in SUBSET v1 /\ Over \in SUBSET v1
    BY <1>1, <1>2
  <2> QED
    BY <2>1, DashboardFinite
<1>6. Cardinality(S) = Cardinality(Live) + Cardinality(Over)
  BY <1>2, <1>5, CountsAdd
<1> QED
  BY <1>3, <1>4, <1>6 DEF Dashboard!CampaignsAgree

\* The widgets agree.
LEMMA DashboardAgrees ==
  Dashboard!DashboardAssumption /\ Dashboard!IInv => Dashboard!FiguresAgree
<1> SUFFICES ASSUME Dashboard!DashboardAssumption, Dashboard!IInv, v3 # Dashboard!Nothing
             PROVE  LET q == v3.asked
                        overview == Dashboard!StationOverview(q)
                    IN /\ Dashboard!MessagesAgree(q, overview) /\ Dashboard!CallsAgree(q, overview)
                       /\ Dashboard!MoneyAgrees(q) /\ Dashboard!CampaignsAgree(q)
                       /\ \A h \in Board.shows : Board.showStation[h] \in Dashboard!Scope(q)
                             => Dashboard!ShowAgrees(h, overview)
  BY DEF Dashboard!FiguresAgree
<1>1. v3.asked \in Board.requests
  BY DEF Dashboard!IInv, Dashboard!IsReading
<1> QED
  BY <1>1, DashboardMessages, DashboardCalls, DashboardMoney, DashboardCampaigns, DashboardShow

\* There is nothing yet.
LEMMA DashboardAtFirst == Dashboard!Init => Dashboard!IInv
<1> SUFFICES ASSUME Dashboard!Init PROVE Dashboard!IInv
  OBVIOUS
<1>1. v1 = {} /\ v2 = 0 /\ v3 = Dashboard!Nothing /\ DOMAIN v4 = {}
  BY DEF Dashboard!Init
<1>2. Dashboard!RowsAreStored
  BY <1>1, SameOperators, FS_EmptySet DEF Dashboard!RowsAreStored
<1> QED
  BY <1>1, <1>2 DEF Dashboard!IInv, Dashboard!CacheIsOfItsKeys

\* What a row is when it is stored, and what it becomes, is one of the states of its kind.
LEMMA DashboardFresh ==
  ASSUME Dashboard!DashboardAssumption, NEW kind \in DOMAIN Dashboard!States, NEW state \in Dashboard!Fresh[kind]
  PROVE  state \in Dashboard!States[kind]
<1>1. kind \in {"message", "call", "statement", "follow", "play", "login", "status", "transaction"}
  BY DEF Dashboard!States
<1>3. CASE kind \in {"message", "call", "status"}
  <2>1. CASE kind = "message"
    BY <2>1 DEF Dashboard!Fresh, Dashboard!States
  <2>2. CASE kind = "call"
    BY <2>2 DEF Dashboard!Fresh, Dashboard!States
  <2>3. CASE kind = "status"
    BY <2>3 DEF Dashboard!Fresh, Dashboard!States
  <2> QED
    BY <1>3, <2>1, <2>2, <2>3
<1>4. CASE kind \in {"statement", "follow", "play", "login"}
  BY <1>4 DEF Dashboard!Fresh, Dashboard!States
<1>5. CASE kind = "transaction"
  BY <1>5 DEF Dashboard!Fresh, Dashboard!States
<1> QED
  BY <1>1, <1>3, <1>4, <1>5

LEMMA DashboardBecomes ==
  ASSUME Dashboard!DashboardAssumption, Dashboard!IInv, NEW r \in v1,
         NEW state \in Dashboard!Becomes(r.kind, r.state)
  PROVE  /\ r.kind \in {"message", "call", "status"}
         /\ state \in Dashboard!States[r.kind]
         /\ r.station \in Dashboard!Place(r.kind, state)
<1>1. r.kind \in {"message", "call", "statement", "follow", "play", "login", "status", "transaction"}
  BY DashboardRows
<1>2. r.state \in Dashboard!States[r.kind]
  BY DEF Dashboard!IInv, Dashboard!RowsAreStored
<1>3. r.state \in {"live", "replied", "queued", "answered"}
  BY DEF Dashboard!Becomes
<1>4. CASE r.kind \in {"statement", "follow", "play", "login"}
  BY <1>2, <1>3, <1>4 DEF Dashboard!States
<1>5. CASE r.kind = "transaction"
  <2>1. r.state \in Board.types
    BY <1>2, <1>5 DEF Dashboard!States
  <2> QED
    BY <1>3, <2>1 DEF Dashboard!DashboardAssumption, Dashboard!Collection, Dashboard!Spent,
                      Dashboard!Deduction, Dashboard!OtherSpend
<1>6. CASE r.kind = "message"
  <2>1. r.state \in {"live", "replied", "deleted", "repliedDeleted"} /\ r.station \in Board.stations
    BY <1>6, DashboardRows
  <2>2. state \in {"replied", "deleted", "repliedDeleted"}
    BY <1>6, <2>1 DEF Dashboard!Becomes
  <2> QED
    BY <1>6, <2>1, <2>2 DEF Dashboard!States, Dashboard!Place, Dashboard!Collection
<1>7. CASE r.kind = "status"
  <2>1. r.state \in {"live", "expired"} /\ r.station \in Board.stations
    BY <1>7, DashboardRows
  <2>2. state = "expired"
    BY <1>7, <2>1 DEF Dashboard!Becomes
  <2> QED
    BY <1>7, <2>1, <2>2 DEF Dashboard!States, Dashboard!Place, Dashboard!Collection
<1>8. CASE r.kind = "call"
  <2>1. /\ r.state \in {"queued", "answered", "completed", "missed", "rejected", "cancelled"}
        /\ r.station \in Board.stations
    BY <1>8, DashboardRows
  <2>2. state \in {"answered", "missed", "rejected", "cancelled", "completed"}
    BY <1>8, <2>1 DEF Dashboard!Becomes
  <2> QED
    BY <1>8, <2>1, <2>2 DEF Dashboard!States, Dashboard!Place, Dashboard!Collection
<1> QED
  BY <1>1, <1>4, <1>5, <1>6, <1>7, <1>8

\* A set does not get smaller when one of its elements gives way to another.
LEMMA OneGivesWay ==
  ASSUME NEW T1, NEW T2, IsFiniteSet(T1), IsFiniteSet(T2), NEW r, NEW n,
         T1 \ {r} \subseteq T2, r \in T1 => n \in T2 /\ n \notin T1 \ {r}
  PROVE  Cardinality(T1) <= Cardinality(T2) /\ Cardinality(T1) \in Nat /\ Cardinality(T2) \in Nat
<1>1. Cardinality(T1) \in Nat /\ Cardinality(T2) \in Nat
  BY FS_CardinalityType
<1>2. CASE r \notin T1
  <2>1. T1 \subseteq T2
    BY <1>2
  <2> QED
    BY <1>1, <2>1, FS_Subset
<1>3. CASE r \in T1
  <2>1. (T1 \ {r}) \cup {n} \subseteq T2
    BY <1>3
  <2>2. Cardinality((T1 \ {r}) \cup {n}) = Cardinality(T1)
    BY <1>3, RowIsReplaced
  <2> QED
    BY <1>1, <2>1, <2>2, FS_Subset
<1> QED
  BY <1>2, <1>3

\* The rows of a kind get no fewer anywhere, nor do the collections.
LEMMA DashboardGrows ==
  ASSUME IsFiniteSet(v1), IsFiniteSet(v1'), NEW r, NEW n,
         \/ r = n /\ n \notin v1 /\ v1' = v1 \cup {n}
         \/ /\ r \in v1 /\ v1' = (v1 \ {r}) \cup {n} /\ n \notin v1 \ {r}
            /\ n.kind = r.kind /\ n.station = r.station /\ r.kind # "transaction"
  PROVE  /\ \A kind, W : Dashboard!Cardinality(Dashboard!At(Dashboard!RowsOf(kind), W)) \in Nat
                      /\ Dashboard!Cardinality(Dashboard!At(Dashboard!RowsOf(kind), W))' \in Nat
                      /\ Dashboard!Cardinality(Dashboard!At(Dashboard!RowsOf(kind), W))
                           <= Dashboard!Cardinality(Dashboard!At(Dashboard!RowsOf(kind), W))'
         /\ \A q : LET held == Dashboard!Cardinality(Dashboard!InState(Dashboard!Transactions(q), Dashboard!Collection))
                   IN held \in Nat /\ held' \in Nat /\ held <= held'
<1>1. ASSUME NEW kind, NEW W
      PROVE  /\ Dashboard!Cardinality(Dashboard!At(Dashboard!RowsOf(kind), W)) \in Nat
             /\ Dashboard!Cardinality(Dashboard!At(Dashboard!RowsOf(kind), W))' \in Nat
             /\ Dashboard!Cardinality(Dashboard!At(Dashboard!RowsOf(kind), W))
                  <= Dashboard!Cardinality(Dashboard!At(Dashboard!RowsOf(kind), W))'
  <2> DEFINE T1 == {x \in v1 : x.kind = kind /\ x.station \in W}
             T2 == {x \in v1' : x.kind = kind /\ x.station \in W}
  <2>1. /\ Dashboard!At(Dashboard!RowsOf(kind), W) = T1
        /\ Dashboard!At(Dashboard!RowsOf(kind), W)' = T2
    BY DEF Dashboard!At, Dashboard!RowsOf
  <2>2. IsFiniteSet(T1) /\ IsFiniteSet(T2)
    BY FS_Subset
  <2>3. T1 \ {r} \subseteq T2 /\ (r \in T1 => n \in T2 /\ n \notin T1 \ {r})
    OBVIOUS
  <2> HIDE DEF T1, T2
  <2>4. Cardinality(T1) <= Cardinality(T2) /\ Cardinality(T1) \in Nat /\ Cardinality(T2) \in Nat
    BY <2>2, <2>3, OneGivesWay
  <2>5. Dashboard!Cardinality(Dashboard!At(Dashboard!RowsOf(kind), W))' = Cardinality(T2)
    BY <2>1, SameOperators
  <2> QED
    BY <2>1, <2>4, <2>5, SameOperators
<1>2. ASSUME NEW q
      PROVE  LET held == Dashboard!Cardinality(Dashboard!InState(Dashboard!Transactions(q), Dashboard!Collection))
             IN held \in Nat /\ held' \in Nat /\ held <= held'
  <2> DEFINE countries == {Board.countryOf[s] : s \in Dashboard!PartnersOwn(q)}
             Of(x) == IF q.station # "n" THEN x.station = q.station
                      ELSE q.partner # "n" /\ countries # {} => Board.homeOf[x.user] \in countries
             T1 == {x \in v1 : x.kind = "transaction" /\ Of(x) /\ x.state \in Dashboard!Collection}
             T2 == {x \in v1' : x.kind = "transaction" /\ Of(x) /\ x.state \in Dashboard!Collection}
  <2>1. /\ Dashboard!InState(Dashboard!Transactions(q), Dashboard!Collection) = T1
        /\ Dashboard!InState(Dashboard!Transactions(q), Dashboard!Collection)' = T2
    BY DEF Dashboard!InState, Dashboard!Transactions, Dashboard!At, Dashboard!RowsOf, Dashboard!PartnersOwn,
           Dashboard!Collection
  <2>2. IsFiniteSet(T1) /\ IsFiniteSet(T2)
    BY FS_Subset
  <2>3. T1 \ {r} \subseteq T2 /\ (r \in T1 => n \in T2 /\ n \notin T1 \ {r})
    OBVIOUS
  <2> HIDE DEF T1, T2
  <2>4. Cardinality(T1) <= Cardinality(T2) /\ Cardinality(T1) \in Nat /\ Cardinality(T2) \in Nat
    BY <2>2, <2>3, OneGivesWay
  <2>5. Dashboard!Cardinality(Dashboard!InState(Dashboard!Transactions(q), Dashboard!Collection))' = Cardinality(T2)
    BY <2>1, SameOperators
  <2> QED
    BY <2>1, <2>4, <2>5, SameOperators
<1> QED
  BY <1>1, <1>2

\* A row that is stored has the next number.
LEMMA DashboardStore ==
  ASSUME Dashboard!DashboardAssumption, Dashboard!IInv, NEW kind \in DOMAIN Dashboard!States, Dashboard!Store(kind)
  PROVE  /\ Dashboard!RowsAreStored'
         /\ \E n : n \notin v1 /\ v1' = v1 \cup {n}
<1> DEFINE N == Cardinality(v1)
           M == Cardinality(v1')
           AnyState == UNION {Dashboard!States[k] : k \in DOMAIN Dashboard!States}
<1>1. /\ v2' = v2 /\ v2 \in Nat
      /\ IsFiniteSet(v1)
      /\ v1 \subseteq [kind : DOMAIN Dashboard!States, station : Board.stations \cup {"n"},
                       show : Board.shows \cup {"n"}, user : Board.listeners, day : 0 .. v2,
                       state : AnyState, id : 0 .. N - 1]
      /\ \A r \in v1 : /\ r.state \in Dashboard!States[r.kind] /\ r.station \in Dashboard!Place(r.kind, r.state)
                       /\ r.show \in Dashboard!Show(r.kind, r.station)
      /\ \A r, t \in v1 : r.id = t.id => r = t
  BY SameOperators DEF Dashboard!IInv, Dashboard!RowsAreStored, Dashboard!Store
<1>2. PICK state \in Dashboard!Fresh[kind], u \in Board.listeners :
        \E where \in Dashboard!Place(kind, state) : \E show \in Dashboard!Show(kind, where) :
          v1' = v1 \cup {[kind |-> kind, station |-> where, show |-> show, user |-> u,
                          day |-> v2, state |-> state, id |-> N]}
  BY SameOperators DEF Dashboard!Store
<1>3. PICK where \in Dashboard!Place(kind, state) : \E show \in Dashboard!Show(kind, where) :
          v1' = v1 \cup {[kind |-> kind, station |-> where, show |-> show, user |-> u,
                          day |-> v2, state |-> state, id |-> N]}
  BY <1>2
<1>4. PICK show \in Dashboard!Show(kind, where) :
          v1' = v1 \cup {[kind |-> kind, station |-> where, show |-> show, user |-> u,
                          day |-> v2, state |-> state, id |-> N]}
  BY <1>3
<1>5. PICK n : n = [kind |-> kind, station |-> where, show |-> show, user |-> u,
                    day |-> v2, state |-> state, id |-> N]
  OBVIOUS
<1>6. /\ n.kind = kind /\ n.station = where /\ n.show = show /\ n.state = state /\ n.id = N
      /\ v1' = v1 \cup {n}
  BY <1>4, <1>5
<1>7. state \in Dashboard!States[kind]
  BY DashboardFresh
<1> HIDE DEF N, M
<1>8. n \notin v1 /\ IsFiniteSet(v1') /\ N \in Nat /\ M = N + 1
  <2>1. \A r \in v1 : r.id \in 0 .. N - 1
    BY <1>1
  <2> QED
    BY <1>1, <1>6, <2>1, RowIsAdded DEF N, M
<1>9. n \in [kind : DOMAIN Dashboard!States, station : Board.stations \cup {"n"},
             show : Board.shows \cup {"n"}, user : Board.listeners, day : 0 .. v2,
             state : AnyState, id : 0 .. M - 1]
  <2>1. where \in Board.stations \cup {"n"}
    BY DEF Dashboard!Place
  <2>2. show \in Board.shows \cup {"n"}
    BY DEF Dashboard!Show
  <2>3. state \in AnyState
    BY <1>7
  <2>4. v2 \in 0 .. v2 /\ N \in 0 .. M - 1
    BY <1>1, <1>8
  <2> HIDE DEF AnyState
  <2> QED
    BY <1>5, <2>1, <2>2, <2>3, <2>4
<1>10. v1 \subseteq [kind : DOMAIN Dashboard!States, station : Board.stations \cup {"n"},
                     show : Board.shows \cup {"n"}, user : Board.listeners, day : 0 .. v2,
                     state : AnyState, id : 0 .. M - 1]
  <2>1. 0 .. N - 1 \subseteq 0 .. M - 1
    BY <1>8
  <2> HIDE DEF AnyState
  <2> QED
    BY <1>1, <2>1
<1>11. v1' \subseteq [kind : DOMAIN Dashboard!States, station : Board.stations \cup {"n"},
                      show : Board.shows \cup {"n"}, user : Board.listeners, day : 0 .. v2',
                      state : AnyState, id : 0 .. M - 1]
  <2> HIDE DEF AnyState
  <2> QED
    BY <1>1, <1>6, <1>9, <1>10
<1>12. \A r \in v1' : /\ r.state \in Dashboard!States[r.kind] /\ r.station \in Dashboard!Place(r.kind, r.state)
                      /\ r.show \in Dashboard!Show(r.kind, r.station)
  BY <1>1, <1>6, <1>7
<1>13. \A r, t \in v1' : r.id = t.id => r = t
  <2>1. \A r \in v1 : r.id # N
    <3>1. \A r \in v1 : r.id \in 0 .. N - 1
      BY <1>1
    <3> QED
      BY <1>8, <3>1
  <2> QED
    BY <1>1, <1>6, <2>1
<1>14. Dashboard!RowsAreStored'
  BY <1>8, <1>11, <1>12, <1>13, SameOperators DEF Dashboard!RowsAreStored, M
<1> QED
  BY <1>6, <1>8, <1>14

\* A row that changes keeps its number.
LEMMA DashboardChange ==
  ASSUME Dashboard!DashboardAssumption, Dashboard!IInv, Dashboard!Changes
  PROVE  /\ Dashboard!RowsAreStored'
         /\ \E r \in v1 : \E n :
               /\ v1' = (v1 \ {r}) \cup {n} /\ n \notin v1 \ {r}
               /\ n.kind = r.kind /\ n.station = r.station /\ r.kind # "transaction"
<1> DEFINE N == Cardinality(v1)
           AnyState == UNION {Dashboard!States[k] : k \in DOMAIN Dashboard!States}
           RowSet == [kind : DOMAIN Dashboard!States, station : Board.stations \cup {"n"},
                      show : Board.shows \cup {"n"}, user : Board.listeners, day : 0 .. v2,
                      state : AnyState, id : 0 .. N - 1]
<1>1. /\ v2' = v2 /\ v2 \in Nat
      /\ IsFiniteSet(v1)
      /\ v1 \subseteq RowSet
      /\ \A r \in v1 : /\ r.state \in Dashboard!States[r.kind] /\ r.station \in Dashboard!Place(r.kind, r.state)
                       /\ r.show \in Dashboard!Show(r.kind, r.station)
      /\ \A r, t \in v1 : r.id = t.id => r = t
  BY SameOperators DEF Dashboard!IInv, Dashboard!RowsAreStored, Dashboard!Changes
<1>2. PICK r \in v1 : \E state \in Dashboard!Becomes(r.kind, r.state) :
                        v1' = (v1 \ {r}) \cup {[r EXCEPT !.state = state]}
  BY DEF Dashboard!Changes
<1>3. PICK state \in Dashboard!Becomes(r.kind, r.state) : v1' = (v1 \ {r}) \cup {[r EXCEPT !.state = state]}
  BY <1>2
<1>4. PICK n : n = [r EXCEPT !.state = state]
  OBVIOUS
<1>5. /\ r.kind \in {"message", "call", "status"}
      /\ state \in Dashboard!States[r.kind] /\ r.station \in Dashboard!Place(r.kind, state)
  BY DashboardBecomes
<1>6. state \in AnyState
  BY <1>1, <1>5
<1> HIDE DEF N, AnyState
<1>7. /\ n \in RowSet
      /\ n.kind = r.kind /\ n.station = r.station /\ n.show = r.show /\ n.state = state /\ n.id = r.id
  <2>1. r \in RowSet
    BY <1>1
  <2> QED
    BY <1>4, <1>6, <2>1
<1> HIDE DEF RowSet
<1>8. v1' = (v1 \ {r}) \cup {n}
  BY <1>3, <1>4
<1>9. n \notin v1 \ {r}
  BY <1>1, <1>7
<1>10. IsFiniteSet(v1') /\ Cardinality(v1') = N
  BY <1>1, <1>8, <1>9, RowIsReplaced DEF N
<1>11. v1' \subseteq RowSet
  BY <1>1, <1>7, <1>8
<1>12. \A t \in v1' : /\ t.state \in Dashboard!States[t.kind] /\ t.station \in Dashboard!Place(t.kind, t.state)
                      /\ t.show \in Dashboard!Show(t.kind, t.station)
  BY <1>1, <1>5, <1>7, <1>8
<1>13. \A s, t \in v1' : s.id = t.id => s = t
  BY <1>1, <1>7, <1>8
<1>14. Dashboard!RowsAreStored'
  BY <1>1, <1>10, <1>11, <1>12, <1>13, SameOperators DEF Dashboard!RowsAreStored, RowSet, AnyState
<1> QED
  BY <1>5, <1>7, <1>8, <1>9, <1>14

\* What is read of the rows is no more than there is.
LEMMA DashboardCore ==
  ASSUME Dashboard!DashboardAssumption, Dashboard!IInv, NEW q \in Board.requests
  PROVE  /\ Dashboard!Core(q) \in Dashboard!Figures /\ Dashboard!CoreWithin(q, Dashboard!Core(q))
         /\ Dashboard!Hourly(q) \in [collections : Nat, disbursements : Nat]
         /\ Dashboard!Hourly(q).collections
              <= Dashboard!Cardinality(Dashboard!InState(Dashboard!Transactions(q), Dashboard!Collection))
<1> DEFINE W == Dashboard!StatsScope(q)
           Sent == Dashboard!Sent(W)
           Messages1 == Dashboard!At(Dashboard!RowsOf("message"), W)
           Booked == Dashboard!At(Dashboard!RowsOf("statement"), W)
           Paid == Dashboard!InState(Booked, {"paid"})
           Known == Dashboard!ListenersOf(q)
           Active == Dashboard!ActiveOf(q)
           Now == Dashboard!OnDay(Dashboard!Transactions(q), v2)
           In == Dashboard!InState(Now, Dashboard!Collection)
           Held == Dashboard!InState(Dashboard!Transactions(q), Dashboard!Collection)
<1>1. /\ Sent \subseteq Messages1 /\ Messages1 \subseteq v1
      /\ Paid \subseteq Booked /\ Booked \subseteq v1 /\ Dashboard!Calls(W) \subseteq v1
  BY DEF Dashboard!Sent, Dashboard!Calls, Dashboard!InState, Dashboard!At, Dashboard!RowsOf
<1>2. /\ In \subseteq Held /\ Held \subseteq v1 /\ Now \subseteq v1
  BY DEF Dashboard!InState, Dashboard!OnDay, Dashboard!Transactions, Dashboard!At, Dashboard!RowsOf
<1>3. Active \subseteq Known /\ Known \subseteq Board.listeners
  <2>1. \A S \in SUBSET v1 : Dashboard!UsersOf(S) \subseteq Board.listeners
    BY DashboardRows DEF Dashboard!UsersOf
  <2>2. \A V : Dashboard!HeardAt(V) \subseteq Board.listeners
    <3>1. \A V : Dashboard!Sent(V) \cup Dashboard!Calls(V)
                  \cup Dashboard!InState(Dashboard!At(Dashboard!RowsOf("transaction"), V), Dashboard!Spent) \subseteq v1
      BY DashboardSent DEF Dashboard!InState, Dashboard!At, Dashboard!RowsOf
    <3> QED
      BY <2>1, <3>1 DEF Dashboard!HeardAt
  <2>3. \A V : Dashboard!FollowersAt(V) \subseteq Board.listeners
    <3>1. \A V : Dashboard!At(Dashboard!RowsOf("follow"), V) \subseteq v1
      BY DEF Dashboard!At, Dashboard!RowsOf
    <3> QED
      BY <2>1, <3>1 DEF Dashboard!FollowersAt
  <2>4. Known \subseteq Board.listeners
    BY <2>2, <2>3 DEF Dashboard!ListenersOf
  <2> QED
    BY <2>4, DashboardActive
<1>4. IsFiniteSet(Board.listeners)
  BY SameOperators DEF Dashboard!DashboardAssumption
<1>5. /\ Dashboard!Core(q) = [messages |-> Cardinality(Sent), calls |-> Cardinality(Dashboard!Calls(W)),
                              revenue |-> Cardinality(Paid), listeners |-> Cardinality(Known),
                              active |-> Cardinality(Active)]
      /\ Dashboard!Hourly(q) = [collections |-> Cardinality(In), disbursements |-> Cardinality(Now \ In)]
  <2>1. Dashboard!Core(q) = [messages |-> Dashboard!Cardinality(Sent), calls |-> Dashboard!Cardinality(Dashboard!Calls(W)),
                              revenue |-> Dashboard!Cardinality(Paid), listeners |-> Dashboard!Cardinality(Known),
                              active |-> Dashboard!Cardinality(Active)]
    BY DEF Dashboard!Core
  <2>2. Dashboard!Hourly(q) = [collections |-> Dashboard!Cardinality(In),
                               disbursements |-> Dashboard!Cardinality(Now \ In)]
    BY DEF Dashboard!Hourly
  <2> HIDE DEF Sent, W, Paid, Known, Active, In, Now
  <2> QED
    BY <2>1, <2>2, SameOperators
<1>6. Dashboard!Cardinality(Held) = Cardinality(Held)
  BY SameOperators
<1>7. Dashboard!CoreWithin(q, Dashboard!Core(q)) <=>
        /\ Dashboard!Core(q).messages <= Cardinality(Messages1)
        /\ Dashboard!Core(q).calls <= Cardinality(Dashboard!Calls(W))
        /\ Dashboard!Core(q).revenue <= Cardinality(Booked)
        /\ Dashboard!Core(q).listeners <= Cardinality(Board.listeners)
  BY SameOperators DEF Dashboard!CoreWithin
<1> HIDE DEF Sent, W, Messages1, Booked, Paid, Known, Active, Now, In, Held
<1>8. /\ Cardinality(Sent) \in Nat /\ Cardinality(Messages1) \in Nat /\ Cardinality(Sent) <= Cardinality(Messages1)
      /\ Cardinality(Paid) \in Nat /\ Cardinality(Booked) \in Nat /\ Cardinality(Paid) <= Cardinality(Booked)
      /\ Cardinality(In) \in Nat /\ Cardinality(Held) \in Nat /\ Cardinality(In) <= Cardinality(Held)
      /\ Cardinality(Dashboard!Calls(W)) \in Nat
      /\ Cardinality(Now \ In) \in Nat
  <2>1. Now \ In \subseteq v1
    BY <1>2
  <2> QED
    BY <1>1, <1>2, <2>1, DashboardFinite
<1>9. /\ Cardinality(Known) \in Nat /\ Cardinality(Board.listeners) \in Nat /\ Cardinality(Active) \in Nat
      /\ Cardinality(Known) <= Cardinality(Board.listeners)
  <2>1. IsFiniteSet(Known) /\ IsFiniteSet(Active)
    BY <1>3, <1>4, FS_Subset
  <2> QED
    BY <1>3, <1>4, <2>1, FS_Subset, FS_CardinalityType
<1>10. Dashboard!Core(q) \in Dashboard!Figures
  BY <1>5, <1>8, <1>9 DEF Dashboard!Figures
<1>11. Dashboard!CoreWithin(q, Dashboard!Core(q))
  BY <1>5, <1>7, <1>8, <1>9
<1>12. Dashboard!Hourly(q) \in [collections : Nat, disbursements : Nat] /\ Dashboard!Hourly(q).collections = Cardinality(In)
  BY <1>5, <1>8
<1> QED
  BY <1>6, <1>8, <1>10, <1>11, <1>12 DEF Held

\* What was within its scope stays so while the rows there get no fewer.
LEMMA DashboardStaysWithin ==
  ASSUME \A kind, W : /\ Dashboard!Cardinality(Dashboard!At(Dashboard!RowsOf(kind), W)) \in Nat
                      /\ Dashboard!Cardinality(Dashboard!At(Dashboard!RowsOf(kind), W))' \in Nat
                      /\ Dashboard!Cardinality(Dashboard!At(Dashboard!RowsOf(kind), W))
                           <= Dashboard!Cardinality(Dashboard!At(Dashboard!RowsOf(kind), W))',
         \A q : LET held == Dashboard!Cardinality(Dashboard!InState(Dashboard!Transactions(q), Dashboard!Collection))
                IN held \in Nat /\ held' \in Nat /\ held <= held',
         NEW q
  PROVE  /\ \A core \in Dashboard!Figures : Dashboard!CoreWithin(q, core) => Dashboard!CoreWithin(q, core)'
         /\ \A stats \in [asked : Board.requests, core : Dashboard!Figures,
                          hourly : [collections : Nat, disbursements : Nat]] :
               Dashboard!Within(q, stats) => Dashboard!Within(q, stats)'
<1>1. ASSUME NEW c \in Dashboard!Figures, Dashboard!CoreWithin(q, c) PROVE Dashboard!CoreWithin(q, c)'
  <2>1. c.messages \in Nat /\ c.calls \in Nat /\ c.revenue \in Nat /\ c.listeners \in Nat
    BY DEF Dashboard!Figures
  <2>2. /\ c.messages <= Dashboard!Cardinality(Dashboard!At(Dashboard!RowsOf("message"), Dashboard!StatsScope(q)))'
        /\ c.calls <= Dashboard!Cardinality(Dashboard!At(Dashboard!RowsOf("call"), Dashboard!StatsScope(q)))'
        /\ c.revenue <= Dashboard!Cardinality(Dashboard!At(Dashboard!RowsOf("statement"), Dashboard!StatsScope(q)))'
        /\ c.listeners <= Dashboard!Cardinality(Board.listeners)
    BY <1>1, <2>1 DEF Dashboard!CoreWithin, Dashboard!Calls
  <2> QED
    BY <2>2 DEF Dashboard!CoreWithin, Dashboard!Calls
<1>2. ASSUME NEW stats \in [asked : Board.requests, core : Dashboard!Figures,
                            hourly : [collections : Nat, disbursements : Nat]],
             Dashboard!Within(q, stats)
      PROVE  Dashboard!Within(q, stats)'
  <2>1. /\ stats.core \in Dashboard!Figures /\ stats.hourly.collections \in Nat
        /\ Dashboard!CoreWithin(q, stats.core)'
    BY <1>1, <1>2 DEF Dashboard!Within
  <2>2. stats.hourly.collections
          <= Dashboard!Cardinality(Dashboard!InState(Dashboard!Transactions(q), Dashboard!Collection))'
    BY <1>2, <2>1 DEF Dashboard!Within
  <2> QED
    BY <2>1, <2>2 DEF Dashboard!Within
<1> QED
  BY <1>1, <1>2

\* What does not touch the rows leaves what was within its scope.
LEMMA DashboardUntouched ==
  ASSUME Dashboard!IInv, v1' = v1, v2' \in Nat, v2 <= v2'
  PROVE  /\ Dashboard!RowsAreStored'
         /\ \A q, core : Dashboard!CoreWithin(q, core)' <=> Dashboard!CoreWithin(q, core)
         /\ \A q, stats : Dashboard!Within(q, stats)' <=> Dashboard!Within(q, stats)
<1>1. Dashboard!RowsAreStored'
  <2> DEFINE AnyState == UNION {Dashboard!States[kind] : kind \in DOMAIN Dashboard!States}
  <2>1. 0 .. v2 \subseteq 0 .. v2'
    BY DEF Dashboard!IInv
  <2>2. v1 \subseteq [kind : DOMAIN Dashboard!States, station : Board.stations \cup {"n"},
                      show : Board.shows \cup {"n"}, user : Board.listeners, day : 0 .. v2,
                      state : AnyState, id : 0 .. Dashboard!Cardinality(v1) - 1]
    BY DEF Dashboard!IInv, Dashboard!RowsAreStored
  <2>3. v1' \subseteq [kind : DOMAIN Dashboard!States, station : Board.stations \cup {"n"},
                       show : Board.shows \cup {"n"}, user : Board.listeners, day : 0 .. v2',
                       state : AnyState, id : 0 .. Dashboard!Cardinality(v1) - 1]
    <3> HIDE DEF AnyState
    <3> QED
      BY <2>1, <2>2
  <2>4. Dashboard!Cardinality(v1)' = Dashboard!Cardinality(v1)
    OBVIOUS
  <2> QED
    BY <2>3, <2>4 DEF Dashboard!IInv, Dashboard!RowsAreStored
<1>2. \A kind : Dashboard!RowsOf(kind)' = Dashboard!RowsOf(kind)
  BY DEF Dashboard!RowsOf
<1>3. \A q : Dashboard!Transactions(q)' = Dashboard!Transactions(q)
  BY <1>2 DEF Dashboard!Transactions
<1>4. ASSUME NEW q, NEW core PROVE Dashboard!CoreWithin(q, core)' <=> Dashboard!CoreWithin(q, core)
  BY <1>2 DEF Dashboard!CoreWithin, Dashboard!Calls
<1>5. ASSUME NEW q, NEW stats PROVE Dashboard!Within(q, stats)' <=> Dashboard!Within(q, stats)
  BY <1>3, <1>4 DEF Dashboard!Within
<1> QED
  BY <1>1, <1>4, <1>5

\* Storing, changing, reading and forgetting keep what is held within its scope.
LEMMA DashboardKept ==
  ASSUME Dashboard!DashboardAssumption, Dashboard!IInv, Dashboard!Next PROVE Dashboard!IInv'
<1> DEFINE Stats == [asked : Board.requests, core : Dashboard!Figures,
                     hourly : [collections : Nat, disbursements : Nat]]
<1>1. ASSUME v3' = v3, v4' = v4, v2' = v2, Dashboard!RowsAreStored',
             NEW r, NEW n,
             \/ r = n /\ n \notin v1 /\ v1' = v1 \cup {n}
             \/ /\ r \in v1 /\ v1' = (v1 \ {r}) \cup {n} /\ n \notin v1 \ {r}
                /\ n.kind = r.kind /\ n.station = r.station /\ r.kind # "transaction"
      PROVE  Dashboard!IInv'
  <2>1. IsFiniteSet(v1) /\ IsFiniteSet(v1')
    BY <1>1, SameOperators DEF Dashboard!IInv, Dashboard!RowsAreStored
  <2>2. /\ \A kind, W : /\ Dashboard!Cardinality(Dashboard!At(Dashboard!RowsOf(kind), W)) \in Nat
                        /\ Dashboard!Cardinality(Dashboard!At(Dashboard!RowsOf(kind), W))' \in Nat
                        /\ Dashboard!Cardinality(Dashboard!At(Dashboard!RowsOf(kind), W))
                             <= Dashboard!Cardinality(Dashboard!At(Dashboard!RowsOf(kind), W))'
        /\ \A q : LET held == Dashboard!Cardinality(Dashboard!InState(Dashboard!Transactions(q), Dashboard!Collection))
                  IN held \in Nat /\ held' \in Nat /\ held <= held'
    BY <1>1, <2>1, DashboardGrows
  <2>3. \A q : /\ \A core \in Dashboard!Figures : Dashboard!CoreWithin(q, core) => Dashboard!CoreWithin(q, core)'
               /\ \A stats \in Stats : Dashboard!Within(q, stats) => Dashboard!Within(q, stats)'
    BY <2>2, DashboardStaysWithin
  <2>4. v3' = Dashboard!Nothing \/ Dashboard!IsReading'
    <3>1. CASE v3 = Dashboard!Nothing
      BY <1>1, <3>1
    <3>2. CASE Dashboard!IsReading
      <4>1. PICK q, core : q = v3.asked /\ core = v3.core
        OBVIOUS
      <4>2. /\ v3 \in [is : {"core"}, asked : Board.requests, core : Dashboard!Figures]
            /\ core \in Dashboard!Figures /\ Dashboard!CoreWithin(q, core)
        BY <3>2, <4>1 DEF Dashboard!IsReading
      <4>3. Dashboard!CoreWithin(q, core)' /\ q = v3'.asked /\ core = v3'.core
        BY <1>1, <2>3, <4>1, <4>2
      <4>4. Dashboard!CoreWithin(v3.asked, v3.core)'
        BY <4>3
      <4> QED
        BY <1>1, <4>2, <4>4 DEF Dashboard!IsReading
    <3> QED
      BY <3>1, <3>2 DEF Dashboard!IInv
  <2>5. Dashboard!CacheIsOfItsKeys'
    <3>1. ASSUME NEW k \in DOMAIN v4'
          PROVE  /\ v4'[k] \in Stats /\ Dashboard!StatsKey(v4'[k].asked) = k
                 /\ Dashboard!Within(v4[k].asked, v4[k])'
      <4>1. PICK stats, q : stats = v4[k] /\ q = stats.asked
        OBVIOUS
      <4>2. stats \in Stats /\ Dashboard!StatsKey(q) = k /\ Dashboard!Within(q, stats)
        BY <1>1, <3>1, <4>1 DEF Dashboard!IInv, Dashboard!CacheIsOfItsKeys
      <4>3. Dashboard!Within(q, stats)' /\ q = v4'[k].asked /\ stats = v4'[k]
        BY <1>1, <2>3, <4>1, <4>2
      <4>4. Dashboard!Within(v4[k].asked, v4[k])'
        BY <4>3
      <4> QED
        BY <4>2, <4>3, <4>4
    <3> QED
      BY <3>1 DEF Dashboard!CacheIsOfItsKeys
  <2> QED
    BY <1>1, <2>4, <2>5 DEF Dashboard!IInv
<1>2. ASSUME v1' = v1, v2' \in Nat, v2 <= v2'
      PROVE  /\ Dashboard!RowsAreStored'
             /\ \A q, core : Dashboard!CoreWithin(q, core)' <=> Dashboard!CoreWithin(q, core)
             /\ \A q, stats : Dashboard!Within(q, stats)' <=> Dashboard!Within(q, stats)
  BY <1>2, DashboardUntouched
<1>3. CASE \E kind \in DOMAIN Dashboard!States : Dashboard!Store(kind)
  <2>1. PICK kind \in DOMAIN Dashboard!States : Dashboard!Store(kind)
    BY <1>3
  <2>2. v2' = v2 /\ v3' = v3 /\ v4' = v4
    BY <2>1 DEF Dashboard!Store
  <2> QED
    BY <1>1, <2>1, <2>2, DashboardStore
<1>4. CASE Dashboard!Changes
  <2>1. v2' = v2 /\ v3' = v3 /\ v4' = v4
    BY <1>4 DEF Dashboard!Changes
  <2> QED
    BY <1>1, <1>4, <2>1, DashboardChange
<1>5. CASE Dashboard!NextDay
  <2>1. v1' = v1 /\ v2' \in Nat /\ v2 <= v2' /\ v3' = v3 /\ v4' = v4
    BY <1>5 DEF Dashboard!NextDay, Dashboard!IInv
  <2> QED
    BY <1>2, <2>1 DEF Dashboard!IInv, Dashboard!IsReading, Dashboard!CacheIsOfItsKeys
<1>6. CASE \E q \in Board.requests : Dashboard!GetStats(q)
  <2>1. PICK q \in Board.requests : Dashboard!GetStats(q)
    BY <1>6
  <2>2. PICK core : core = Dashboard!Core(q)
    OBVIOUS
  <2>3. /\ v3' = [is |-> "core", asked |-> q, core |-> core]
        /\ v1' = v1 /\ v2' = v2 /\ v2' \in Nat /\ v2 <= v2' /\ v4' = v4
    BY <2>1, <2>2 DEF Dashboard!GetStats, Dashboard!IInv
  <2>4. core \in Dashboard!Figures /\ Dashboard!CoreWithin(q, core)
    BY <2>2, DashboardCore
  <2>5. Dashboard!CoreWithin(q, core)' /\ v3'.asked = q /\ v3'.core = core
    BY <1>2, <2>3, <2>4
  <2>6. Dashboard!CoreWithin(v3.asked, v3.core)'
    BY <2>5
  <2>7. Dashboard!IsReading'
    BY <2>3, <2>4, <2>6 DEF Dashboard!IsReading
  <2> QED
    BY <1>2, <2>3, <2>7 DEF Dashboard!IInv, Dashboard!CacheIsOfItsKeys
<1>7. CASE Dashboard!FillStats
  <2>1. /\ v3 # Dashboard!Nothing /\ v3' = Dashboard!Nothing
        /\ v1' = v1 /\ v2' = v2 /\ v2' \in Nat /\ v2 <= v2'
    BY <1>7 DEF Dashboard!FillStats, Dashboard!IInv
  <2>2. PICK q, core, s : /\ q = v3.asked /\ core = v3.core
                          /\ s = [asked |-> q, core |-> core, hourly |-> Dashboard!Hourly(q)]
    OBVIOUS
  <2>3. q \in Board.requests /\ core \in Dashboard!Figures /\ Dashboard!CoreWithin(q, core)
    BY <2>1, <2>2 DEF Dashboard!IInv, Dashboard!IsReading
  <2>4. /\ s \in Stats /\ s.asked = q /\ s.core = core /\ s.hourly = Dashboard!Hourly(q)
        /\ s.hourly.collections
             <= Dashboard!Cardinality(Dashboard!InState(Dashboard!Transactions(q), Dashboard!Collection))
    BY <2>2, <2>3, DashboardCore
  <2>5. Dashboard!Within(q, s)
    BY <2>3, <2>4 DEF Dashboard!Within
  <2>6. PICK key : key = Dashboard!StatsKey(q)
    OBVIOUS
  <2>7. v4' = [c \in DOMAIN v4 \cup {key} |-> IF c = key THEN s ELSE v4[c]]
    BY <1>7, <2>2, <2>6 DEF Dashboard!FillStats
  <2>8. ASSUME NEW k \in DOMAIN v4'
        PROVE  /\ v4'[k] \in Stats /\ Dashboard!StatsKey(v4'[k].asked) = k
               /\ Dashboard!Within(v4[k].asked, v4[k])'
    <3>1. PICK stats, p : stats = v4'[k] /\ p = stats.asked
      OBVIOUS
    <3>2. stats \in Stats /\ Dashboard!StatsKey(p) = k /\ Dashboard!Within(p, stats)
      <4>1. CASE k = key
        <5>1. stats = s /\ p = q
          BY <2>4, <2>7, <3>1, <4>1
        <5> QED
          BY <2>4, <2>5, <2>6, <4>1, <5>1
      <4>2. CASE k # key
        <5>1. k \in DOMAIN v4 /\ stats = v4[k] /\ p = v4[k].asked
          BY <2>7, <2>8, <3>1, <4>2
        <5> QED
          BY <5>1 DEF Dashboard!IInv, Dashboard!CacheIsOfItsKeys
      <4> QED
        BY <4>1, <4>2
    <3>3. Dashboard!Within(p, stats)'
      BY <1>2, <2>1, <3>2
    <3>4. Dashboard!Within(v4[k].asked, v4[k])'
      BY <3>1, <3>3
    <3> QED
      BY <3>1, <3>2, <3>4
  <2>9. Dashboard!CacheIsOfItsKeys'
    BY <2>8 DEF Dashboard!CacheIsOfItsKeys
  <2> QED
    BY <1>2, <2>1, <2>9 DEF Dashboard!IInv
<1>8. CASE Dashboard!Expires
  <2>1. /\ v3' = v3
        /\ v1' = v1 /\ v2' = v2 /\ v2' \in Nat /\ v2 <= v2'
    BY <1>8 DEF Dashboard!Expires, Dashboard!IInv
  <2>2. PICK key \in DOMAIN v4 : v4' = [c \in DOMAIN v4 \ {key} |-> v4[c]]
    BY <1>8 DEF Dashboard!Expires
  <2>3. ASSUME NEW k \in DOMAIN v4'
        PROVE  /\ v4'[k] \in Stats /\ Dashboard!StatsKey(v4'[k].asked) = k
               /\ Dashboard!Within(v4[k].asked, v4[k])'
    <3>1. PICK stats, p : stats = v4'[k] /\ p = stats.asked
      OBVIOUS
    <3>2. k \in DOMAIN v4 /\ stats = v4[k] /\ p = v4[k].asked
      BY <2>2, <2>3, <3>1
    <3>3. stats \in Stats /\ Dashboard!StatsKey(p) = k /\ Dashboard!Within(p, stats)
      BY <3>2 DEF Dashboard!IInv, Dashboard!CacheIsOfItsKeys
    <3>4. Dashboard!Within(p, stats)'
      BY <1>2, <2>1, <3>3
    <3>5. Dashboard!Within(v4[k].asked, v4[k])'
      BY <3>1, <3>4
    <3> QED
      BY <3>1, <3>3, <3>5
  <2>4. Dashboard!CacheIsOfItsKeys'
    BY <2>3 DEF Dashboard!CacheIsOfItsKeys
  <2>5. v3' = Dashboard!Nothing \/ Dashboard!IsReading'
    BY <1>2, <2>1 DEF Dashboard!IInv, Dashboard!IsReading
  <2> QED
    BY <1>2, <2>1, <2>4, <2>5 DEF Dashboard!IInv
<1> QED
  BY <1>3, <1>4, <1>5, <1>6, <1>7, <1>8 DEF Dashboard!Next

\* Of two requests of one key, only one for another partner is of another scope.
LEMMA DashboardServes ==
  Dashboard!DashboardAssumption /\ Dashboard!IInv => Dashboard!StatsAreOfScopeUnlessPartner
<1> SUFFICES ASSUME Dashboard!DashboardAssumption, Dashboard!IInv, NEW q \in Board.requests,
                    Dashboard!StatsKey(q) \in DOMAIN v4,
                    Dashboard!PartnerMatters(q) => v4[Dashboard!StatsKey(q)].asked.partner = q.partner
             PROVE  Dashboard!Within(q, v4[Dashboard!StatsKey(q)])
  BY DEF Dashboard!StatsAreOfScopeUnlessPartner, Dashboard!Served
<1>1. PICK s, p : s = v4[Dashboard!StatsKey(q)] /\ p = s.asked
  OBVIOUS
<1>2. /\ p \in Board.requests /\ Dashboard!StatsKey(p) = Dashboard!StatsKey(q) /\ Dashboard!Within(p, s)
      /\ s \in [asked : Board.requests, core : Dashboard!Figures, hourly : [collections : Nat, disbursements : Nat]]
  BY <1>1 DEF Dashboard!IInv, Dashboard!CacheIsOfItsKeys
<1>3. /\ p.role = q.role /\ p.station = q.station /\ p.country = q.country
      /\ Dashboard!PartnerRole(q) /\ ~Dashboard!StationRole(q) => p.partner = q.partner
  BY <1>2 DEF Dashboard!StatsKey, Dashboard!PartnerRole, Dashboard!StationRole
<1>4. CASE p.partner = q.partner
  <2>1. Dashboard!StatsScope(p) = Dashboard!StatsScope(q) /\ Dashboard!Transactions(p) = Dashboard!Transactions(q)
    BY <1>3, <1>4 DEF Dashboard!StatsScope, Dashboard!Scope, Dashboard!Transactions, Dashboard!PartnersOwn,
                      Dashboard!StationRole, Dashboard!PartnerRole
  <2> QED
    BY <1>1, <1>2, <2>1 DEF Dashboard!Within, Dashboard!CoreWithin
\* A station is asked for: the partner narrows nothing.
<1>5. CASE q.station # "n" /\ ~Dashboard!PartnerRole(q)
  <2>1. Dashboard!StatsScope(p) = Dashboard!StatsScope(q) /\ Dashboard!Transactions(p) = Dashboard!Transactions(q)
    BY <1>3, <1>5 DEF Dashboard!StatsScope, Dashboard!Scope, Dashboard!Transactions,
                      Dashboard!StationRole, Dashboard!PartnerRole
  <2> QED
    BY <1>1, <1>2, <2>1 DEF Dashboard!Within, Dashboard!CoreWithin
\* Everything is asked for.
<1>6. CASE q.station = "n" /\ q.partner = "n" /\ q.country = "n" /\ ~Dashboard!PartnerRole(q)
  <2>1. ~Dashboard!StationRole(q)
    BY <1>6 DEF Dashboard!DashboardAssumption, Dashboard!LeftByBuildScope
  <2>2. Dashboard!StatsScope(q) = Board.stations /\ Dashboard!Transactions(q) = Dashboard!RowsOf("transaction")
    BY <1>6, <2>1 DEF Dashboard!StatsScope, Dashboard!Scope, Dashboard!Transactions
  <2>3. Dashboard!StatsScope(p) \subseteq Dashboard!StatsScope(q)
    <3>1. p \in Board.requests
      BY <1>2
    <3>2. Dashboard!StatsScope(p) = Dashboard!Scope(p) /\ Dashboard!Scope(p) \subseteq Board.stations
      BY <3>1, DashboardScopes
    <3> QED
      BY <2>2, <3>2
  <2>4. Dashboard!InState(Dashboard!Transactions(p), Dashboard!Collection)
          \subseteq Dashboard!InState(Dashboard!Transactions(q), Dashboard!Collection)
    BY <2>2 DEF Dashboard!InState, Dashboard!Transactions, Dashboard!At
  <2>5. \A kind : Dashboard!At(Dashboard!RowsOf(kind), Dashboard!StatsScope(p))
                    \subseteq Dashboard!At(Dashboard!RowsOf(kind), Dashboard!StatsScope(q))
    BY <2>3 DEF Dashboard!At
  <2>6. \A W, r : /\ Dashboard!At(Dashboard!RowsOf(r), W) \subseteq v1
                  /\ Dashboard!InState(Dashboard!Transactions(q), Dashboard!Collection) \subseteq v1
    BY <2>2 DEF Dashboard!At, Dashboard!RowsOf, Dashboard!InState
  <2>7. \A S, T : S \subseteq T /\ T \subseteq v1
          => /\ Dashboard!Cardinality(S) \in Nat /\ Dashboard!Cardinality(T) \in Nat
             /\ Dashboard!Cardinality(S) <= Dashboard!Cardinality(T)
    BY DashboardFinite, SameOperators
  <2>8. /\ s.core.messages \in Nat /\ s.core.calls \in Nat /\ s.core.revenue \in Nat
        /\ s.hourly.collections \in Nat /\ Dashboard!CoreWithin(p, s.core)
        /\ s.hourly.collections
             <= Dashboard!Cardinality(Dashboard!InState(Dashboard!Transactions(p), Dashboard!Collection))
    BY <1>2 DEF Dashboard!Figures, Dashboard!Within
  <2>9. \A S, T : \A n \in Nat : S \subseteq T /\ T \subseteq v1 /\ n <= Dashboard!Cardinality(S)
          => n <= Dashboard!Cardinality(T)
    BY <2>7
  <2>10. s.hourly.collections
           <= Dashboard!Cardinality(Dashboard!InState(Dashboard!Transactions(q), Dashboard!Collection))
    BY <2>4, <2>6, <2>8, <2>9
  <2>11. Dashboard!CoreWithin(q, s.core)
    BY <2>5, <2>6, <2>8, <2>9 DEF Dashboard!CoreWithin, Dashboard!Calls
  <2>12. Dashboard!Within(q, s)
    BY <2>10, <2>11 DEF Dashboard!Within
  <2> QED
    BY <1>1, <2>12
<1>7. Dashboard!PartnerRole(q) => ~Dashboard!StationRole(q)
  BY DEF Dashboard!PartnerRole, Dashboard!StationRole
<1> QED
  BY <1>1, <1>3, <1>4, <1>5, <1>6, <1>7 DEF Dashboard!PartnerMatters

-----------------------------------------------------------------------------
(* People.                                                                    *)

\* No step of the service: its invariant stays, as its variables do.
LEMMA NothingHappens ==
  ASSUME UNCHANGED vars
  PROVE  /\ StaffAccounts!IInv => StaffAccounts!IInv'
         /\ Thread!IInv => Thread!IInv'
         /\ Statuses!IInv => Statuses!IInv'
         /\ StationList!IInv => StationList!IInv'
         /\ SignIn!IInv => SignIn!IInv'
         /\ TwoFactor!IInv => TwoFactor!IInv'
         /\ Refresh!IInv => Refresh!IInv'
         /\ Sessions!IInv => Sessions!IInv'
         /\ ApiKeys!IInv => ApiKeys!IInv'
         /\ Notifications!IInv => Notifications!IInv'
         /\ Support!IInv => Support!IInv'
         /\ Statements!IInv => Statements!IInv'
         /\ WeeklyPosts!IInv => WeeklyPosts!IInv'
         /\ Presence!IInv => Presence!IInv'
         /\ Dashboard!IInv => Dashboard!IInv'
         /\ Listeners!IInv => Listeners!IInv'
<1>1. UNCHANGED <<v1, v2, v3, v4, v5, v6, v7, v8, v9, v10, v11>>
  BY DEF vars
<1>2. StaffAccounts!IInv => StaffAccounts!IInv'
  BY <1>1 DEF StaffAccounts!IInv, StaffAccounts!CreationsAreInOrder, StaffAccounts!ProfilesAreWhole,
     StaffAccounts!LateOnesAreKnown, StaffAccounts!Media, StaffAccounts!Is
<1>3. SignIn!IInv => SignIn!IInv'
  BY <1>1 DEF SignIn!IInv, SignIn!CallsAreAboutDocuments, SignIn!OneListener
<1>4. TwoFactor!IInv => TwoFactor!IInv'
  BY <1>1 DEF TwoFactor!IInv, TwoFactor!ActivationsAreProved, TwoFactor!SecretIsHeld
<1>5. Refresh!IInv => Refresh!IInv'
  BY <1>1 DEF Refresh!IInv, Refresh!CallsHaveTokens, Refresh!RepeatsFindGrace, Refresh!At
<1>6. Sessions!IInv => Sessions!IInv'
  BY <1>1 DEF Sessions!IInv, Sessions!RegisteredInOrder, Sessions!EndingsLeaveNothing,
     Sessions!MarkersAreExplained, Sessions!ClosedStayOut
<1>7. ApiKeys!IInv => ApiKeys!IInv'
  <2>1. ApiKeys!IInv => ApiKeys!HitsWereServed'
    BY <1>1, ApiKeysCountsStay
  <2> QED
    BY <1>1, <2>1 DEF ApiKeys!IInv, ApiKeys!ReplacedAreInactive, ApiKeys!Active
<1>8. Notifications!IInv => Notifications!IInv'
  BY <1>1 DEF Notifications!IInv, Notifications!UpdatesAreAlone, Notifications!Others
<1>9. Support!IInv => Support!IInv'
  BY <1>1 DEF Support!IInv, Support!RequestsAreOfTickets, Support!SendersAreAlone, Support!Counting, Support!Stored
<1>10. Statements!IInv => Statements!IInv'
  BY <1>1 DEF Statements!IInv, Statements!RepairsLookFirst, Statements!BookedAsCharged,
     Statements!RowsAreFreed, Statements!Granted, Statements!Bought
<1>11. Thread!IInv => Thread!IInv'
  <2>1. /\ Thread!RepliesAreOfMessages => Thread!RepliesAreOfMessages'
        /\ Thread!AnsweredByReply => Thread!AnsweredByReply'
    BY <1>1 DEF Thread!RepliesAreOfMessages, Thread!AnsweredByReply, Thread!Unreplied, Thread!FromUser,
       Thread!Visible, Thread!Rows
  <2>2. /\ Thread!TimesAreInOrder => Thread!TimesAreInOrder'
        /\ Thread!ReadersHaveHadReplies => Thread!ReadersHaveHadReplies'
    BY <1>1 DEF Thread!TimesAreInOrder, Thread!ReadersHaveHadReplies, Thread!Visible, Thread!Rows
  <2> QED
    BY <1>1, <2>1, <2>2 DEF Thread!IInv
<1>12. Statuses!IInv => Statuses!IInv'
  BY <1>1 DEF Statuses!IInv, Statuses!Counters, Statuses!ViewsAreCounted, Statuses!LikesAreGiven,
     Statuses!Counting, Statuses!At, Statuses!Untouched
<1>13. StationList!IInv => StationList!IInv'
  <2>1. \A s \in D : \A at : StationList!Toggling(s, at)' = StationList!Toggling(s, at)
    BY <1>1 DEF StationList!Toggling
  <2>2. \A s \in D : \A at : StationList!Under(s, at)' = StationList!Under(s, at)
    BY <1>1 DEF StationList!Under
  <2>3. \A s \in D : StationList!RowsOf(s)' = StationList!RowsOf(s)
    BY <1>1 DEF StationList!RowsOf
  <2>4. StationList!CountFollowsRows => StationList!CountFollowsRows'
    BY <1>1, <2>2, <2>3 DEF StationList!CountFollowsRows
  <2>5. StationList!ListedAreActive => StationList!ListedAreActive'
    BY <1>1 DEF StationList!ListedAreActive, StationList!Active
  <2> QED
    BY <1>1, <2>1, <2>4, <2>5 DEF StationList!IInv
<1>14. WeeklyPosts!IInv => WeeklyPosts!IInv'
  BY <1>1 DEF WeeklyPosts!IInv, WeeklyPosts!PostsAreInOrder, WeeklyPosts!OneRunInserts,
     WeeklyPosts!Inserts, WeeklyPosts!OneRanking
<1>15. Presence!IInv => Presence!IInv'
  BY <1>1 DEF Presence!IInv, Presence!LiveHaveConnected, Presence!OthersAreKnown, Presence!CountIsLive,
     Presence!RoomsAreLive, Presence!OnlineFollowsSockets, Presence!Live
<1>16. ASSUME Dashboard!IInv PROVE Dashboard!IInv'
  <2>1. v1' = v1 /\ v2' \in Nat /\ v2 <= v2' /\ v3' = v3 /\ v4' = v4
    BY <1>1, <1>16 DEF Dashboard!IInv
  <2>2. /\ Dashboard!RowsAreStored'
        /\ \A q, core : Dashboard!CoreWithin(q, core)' <=> Dashboard!CoreWithin(q, core)
        /\ \A q, stats : Dashboard!Within(q, stats)' <=> Dashboard!Within(q, stats)
    BY <1>16, <2>1, DashboardUntouched
  <2> QED
    BY <1>16, <2>1, <2>2 DEF Dashboard!IInv, Dashboard!IsReading, Dashboard!CacheIsOfItsKeys
<1>17. ASSUME Listeners!IInv PROVE Listeners!IInv'
  <2>1. Listeners!RowsAreStored' /\ Listeners!NumbersStay' /\ Listeners!PartnersStay'
    BY <1>1, <1>17, SameOperators DEF Listeners!IInv, Listeners!RowsAreStored, Listeners!NumbersStay,
       Listeners!PartnersStay
  <2>2. Listeners!ScoreGrows' /\ Listeners!FansAgree'
    BY <1>1, <1>17, SameOperators DEF Listeners!IInv, Listeners!ScoreGrows, Listeners!FansAgree,
       Listeners!Counted, Listeners!ByUser, Listeners!In, Listeners!Of
  <2> QED
    BY <1>1, <1>17, <2>1, <2>2 DEF Listeners!IInv
<1> QED
  BY <1>2, <1>3, <1>4, <1>5, <1>6, <1>7, <1>8, <1>9, <1>10, <1>11, <1>12, <1>13, <1>14, <1>15,
     <1>16, <1>17

\* What each service relies on from one step to the next, for any number of accounts, keys,
\* tokens, sessions, sockets, requests, failures and restarts: what a handler read before
\* it waited still holds when it writes, or the histories of the models tell that it does not.
THEOREM PeopleInvHolds == Spec => []PeopleInv
<1>1. Init => PeopleInv
  BY PeopleAssumption, StaffAccountsAtFirst, SignInAtFirst, TwoFactorAtFirst, RefreshAtFirst,
     SessionsAtFirst, ApiKeysAtFirst, NotificationsAtFirst, SupportAtFirst, StatementsAtFirst,
     ThreadAtFirst, StatusesAtFirst, StationListAtFirst, WeeklyPostsAtFirst,
     PresenceAtFirst, DashboardAtFirst, ListenersAtFirst
     DEF Init, PeopleInv, Is
<1>2. PeopleInv /\ [Next]_vars => PeopleInv'
  <2> SUFFICES ASSUME PeopleInv, [Next]_vars PROVE PeopleInv'
    OBVIOUS
  <2>1. CASE StaffAccountsStep
    BY <2>1, PeopleAssumption, StaffAccountsKept DEF StaffAccountsStep, PeopleInv, Is
  <2>2. CASE SignInStep
    BY <2>2, SignInKept DEF SignInStep, PeopleInv, Is
  <2>3. CASE TwoFactorStep
    BY <2>3, TwoFactorKept DEF TwoFactorStep, PeopleInv, Is
  <2>4. CASE RefreshStep
    BY <2>4, PeopleAssumption, RefreshKept DEF RefreshStep, PeopleInv, Is
  <2>5. CASE SessionsStep
    BY <2>5, SessionsKept DEF SessionsStep, PeopleInv, Is
  <2>6. CASE ApiKeysStep
    BY <2>6, PeopleAssumption, ApiKeysKept DEF ApiKeysStep, PeopleInv, Is
  <2>7. CASE NotificationsStep
    BY <2>7, PeopleAssumption, NotificationsKept DEF NotificationsStep, PeopleInv, Is
  <2>8. CASE SupportStep
    BY <2>8, SupportKept DEF SupportStep, PeopleInv, Is
  <2>9. CASE StatementsStep
    BY <2>9, StatementsKept DEF StatementsStep, PeopleInv, Is
  <2>10. CASE DashboardStep
    BY <2>10, PeopleAssumption, DashboardKept DEF DashboardStep, PeopleInv, Is
  <2>17. CASE ListenersStep
    BY <2>17, PeopleAssumption, ListenersKept DEF ListenersStep, PeopleInv, Is
  <2>11. CASE ThreadStep
    BY <2>11, ThreadKept DEF ThreadStep, PeopleInv, Is
  <2>13. CASE StatusesStep
    BY <2>13, StatusesKept DEF StatusesStep, PeopleInv, Is
  <2>14. CASE StationListStep
    BY <2>14, StationListKept DEF StationListStep, PeopleInv, Is
  <2>15. CASE WeeklyPostsStep
    BY <2>15, PeopleAssumption, WeeklyPostsKept DEF WeeklyPostsStep, PeopleInv, Is
  <2>16. CASE PresenceStep
    BY <2>16, PresenceKept DEF PresenceStep, PeopleInv, Is
  <2>12. CASE UNCHANGED vars
    <3>1. \A name : Is(name)' <=> Is(name)
      BY <2>12 DEF vars, Is
    <3>2. /\ Is("staff accounts")' => StaffAccounts!IInv'
          /\ Is("sign-in")' => SignIn!IInv'
          /\ Is("2FA")' => TwoFactor!IInv'
          /\ Is("refresh")' => Refresh!IInv'
      BY <2>12, <3>1, NothingHappens DEF PeopleInv
    <3>3. /\ Is("sessions")' => Sessions!IInv'
          /\ Is("API keys")' => ApiKeys!IInv'
          /\ Is("notifications")' => Notifications!IInv'
          /\ Is("support")' => Support!IInv'
      BY <2>12, <3>1, NothingHappens DEF PeopleInv
    <3>4. /\ Is("thread")' => Thread!IInv'
          /\ Is("status")' => Statuses!IInv'
          /\ Is("stations")' => StationList!IInv'
          /\ Is("statements")' => Statements!IInv'
      BY <2>12, <3>1, NothingHappens DEF PeopleInv
    <3>5. /\ Is("weekly posts")' => WeeklyPosts!IInv'
          /\ Is("presence")' => Presence!IInv'
          /\ Is("dashboard")' => Dashboard!IInv'
          /\ Is("listeners")' => Listeners!IInv'
      BY <2>12, <3>1, NothingHappens DEF PeopleInv
    <3> QED
      BY <3>2, <3>3, <3>4, <3>5 DEF PeopleInv
  <2> QED
    BY <2>1, <2>2, <2>3, <2>4, <2>5, <2>6, <2>7, <2>8, <2>9, <2>10, <2>11, <2>12,
       <2>13, <2>14, <2>15, <2>16, <2>17 DEF Next
<1> QED
  BY <1>1, <1>2, PTL DEF Spec

\* Whoever has a profile can sign in and owns what he administers; a station has one Media
\* Station account, or one whose creation had passed its check before (createAdmin,
\* staff.service.ts); one phone number is one listener, however its first sign-ins overlap
\* (the unique indexes behind verifyOtp); while a second factor is on, its secret is one
\* that a code was entered for.
THEOREM EveryAccountIsWhole == Spec => []AccountsAreWhole
<1>1. PeopleInv => AccountsAreWhole
  BY StaffAccountsWhole DEF PeopleInv, AccountsAreWhole, SignIn!IInv, TwoFactor!IInv
<1> QED
  BY <1>1, PeopleInvHolds, PTL

\* A client whose answer got lost, or whose two requests overlapped, still has a refresh
\* token that works: the new pair of an unfinished rotation is usable, and a repeated one is
\* answered from the grace entry (refresh, auth.service.ts:827).
THEOREM NoClientIsLockedOut == Spec => []ClientsKeepAToken
<1>1. PeopleInv => ClientsKeepAToken
  BY RefreshKeepsTokens DEF PeopleInv, ClientsKeepAToken
<1> QED
  BY <1>1, PeopleInvHolds, PTL

\* A revoked session has neither marker nor socket once nobody works on it, but for those that
\* a failed Redis command or a registration or handshake under way spared
\* (revokeAllUserSessions, device-session.service.ts:141); a replaced API key and the keys of
\* a closed station answer nobody, and a key counts no more fetches than it answered.
THEOREM WithdrawnIsOut == Spec => []RevokedIsOut
<1>1. PeopleInv => RevokedIsOut
  BY SessionsAreOut, ApiKeysAnswer DEF PeopleInv, RevokedIsOut
<1> QED
  BY <1>1, PeopleInvHolds, PTL

\* The count of an account's sockets is that of its live ones, and never above the limit,
\* although one too many evicts the oldest, several are dropped at once and clients leave
\* meanwhile; only live sockets are in rooms, whatever they were still joining; and the
\* operator's online marker follows the sockets, but for the races, failed writes to Redis
\* and restarts that the histories tell of (the connection and disconnect handlers,
\* socket/index.ts).
THEOREM SocketsAreKnown == Spec => []SocketsAreCounted
<1>1. PeopleInv => SocketsAreCounted
  BY DEF PeopleInv, SocketsAreCounted, Presence!SocketsAreCounted, Presence!IInv
<1> QED
  BY <1>1, PeopleInvHolds, PTL

\* A phone's push token is on one account only, unless two updates of it overlapped and none
\* came alone since (updateFcmToken takes it from the others, then stores it).
THEOREM TokensAreNotShared == Spec => []OneAccountPerToken
<1>1. PeopleInv => OneAccountPerToken
  <2> SUFFICES ASSUME Notifications!IInv, NEW p \in D \ v3
               PROVE  Notifications!Cardinality({a \in A : v1[a] = p}) <= 1
    BY DEF PeopleInv, OneAccountPerToken, Notifications!OneAccountPerToken
  <2>1. \A a, b \in {c \in A : v1[c] = p} : a = b
    BY DEF Notifications!IInv
  <2> QED
    BY <2>1, AtMostOne, SameOperators
<1> QED
  BY <1>1, PeopleInvHolds, PTL

\* A message counts as answered exactly when a stored reply answers it, and a reply as unread
\* exactly when the listener has not had it, whoever replies, marks and reads at once
\* (sendStationReply and markThreadRead, message.service.ts); and of a support ticket no more
\* is unread than was sent, and by one side only, unless the listener added to it meanwhile
\* or two sent at once (sendMessage, support.service.ts).
THEOREM ThreadsTellTheTruth == Spec => []ThreadsAreTrue
<1>1. PeopleInv => ThreadsAreTrue
  BY ThreadReadsTrue, SupportReadsTrue DEF PeopleInv, ThreadsAreTrue
<1> QED
  BY <1>1, PeopleInvHolds, PTL

\* The views of a status are as many as its rows, but for those that are yet to be counted or
\* whose count failed, and its likes never more (status.service.ts); a station has as many
\* followers as rows say, and a list that is served counts whom it shows as following
\* (toggleFollowStation and getStationsList).
THEOREM CountsAreRows == Spec => []CountsFollowRows
<1>1. PeopleInv => CountsFollowRows
  BY StationListAgrees DEF PeopleInv, CountsFollowRows, Statuses!CountsFollowRows, Statuses!IInv,
     Statuses!ViewsAreCounted, Statuses!LikesAreGiven
<1> QED
  BY <1>1, PeopleInvHolds, PTL

\* A statement says of its charge what the ledger says, through bookings that fail or wait
\* and repairs that are cut short: but for those the histories tell of.
THEOREM StatementsFollowTheLedger == Spec => [](Is("statements") => Statements!StatementsFollowLedger)
<1>1. PeopleInv => (Is("statements") => Statements!StatementsFollowLedger)
  BY StatementsFollow DEF PeopleInv
<1> QED
  BY <1>1, PeopleInvHolds, PTL

\* The top-fan posts of a week come from one ranking under each start of it that getWeekStart
\* gives: until somebody removes one, no fan is posted twice and no rank before another,
\* although runs overlap, are cut short, work out different starts and read rankings that the
\* week's spending has changed (the unique index on start and rank stops all runs but the one
\* that posted the first, status.service.ts).
THEOREM WeeksHaveOneRanking == Spec => [](Is("weekly posts") => WeeklyPosts!OneRanking)
<1>1. PeopleInv => (Is("weekly posts") => WeeklyPosts!OneRanking)
  BY DEF PeopleInv, WeeklyPosts!IInv
<1> QED
  BY <1>1, PeopleInvHolds, PTL

\* The figures that are derived from the same rows agree, whatever is stored, deleted, moved
\* on or changed between them.  A viewer finds the statements that are listed for him counted
\* and exported, and may open each, but for staff without a station, who are listed all and
\* may open none (listenerStatement.service.ts); a partner's list of staff is that of its
\* stations and of those it lost to another's (user.service.ts); the widgets of a dashboard sum
\* up to its statistics, and what the cache answers is of what was asked for, but for a
\* super admin who asked for another partner before (dashboard.repository.ts); the lists of
\* listeners have whoever is on a detail page, a fan's score counts no more than
\* there was when he is ranked, and whoever is not listed scores no more than who is; the
\* posts of a week under one start of it are of one ranking.
THEOREM ReportsTellTheSame == Spec => []ReportsAgree
<1>1. PeopleInv => ReportsAgree
  BY PeopleAssumption, StatementsFollow, StatementsAgree, DashboardAgrees, DashboardServes, ListenersReadTrue
     DEF PeopleInv, ReportsAgree, WeeklyPosts!IInv
<1> QED
  BY <1>1, PeopleInvHolds, PTL

\* An assigned ticket changes hands, and a closed one opens again, only by a claim that read
\* it while it was open (claimTicket writes by id alone); and what was bought with money is
\* made free only by a repair that looked before the first purchase.
THEOREM OnlyLateReaders == Spec => OnlyLateReadersOverwrite
<1> DEFINE Act == /\ Is("support") => Support!LateClaimIfTakenOver
                  /\ Is("statements") => Statements!LateSyncIfFreed
<1>1. PeopleInv /\ [Next]_vars => [Act]_vars
  <2> SUFFICES ASSUME PeopleInv, Next PROVE Act
    OBVIOUS
  <2>1. CASE Is("support")
    <3>1. Support!Next
      BY <2>1 DEF Is, Next, StaffAccountsStep, SignInStep, TwoFactorStep, RefreshStep, SessionsStep,
         ApiKeysStep, NotificationsStep, PresenceStep, ThreadStep, StatusesStep, WeeklyPostsStep,
         SupportStep, StatementsStep, DashboardStep, ListenersStep, StationListStep
    <3> QED
      BY <2>1, <3>1, SupportKept DEF PeopleInv, Is
  <2>2. CASE Is("statements")
    <3>1. Statements!Next
      BY <2>2 DEF Is, Next, StaffAccountsStep, SignInStep, TwoFactorStep, RefreshStep, SessionsStep,
         ApiKeysStep, NotificationsStep, PresenceStep, ThreadStep, StatusesStep, WeeklyPostsStep,
         SupportStep, StatementsStep, DashboardStep, ListenersStep, StationListStep
    <3> QED
      BY <2>2, <3>1, StatementsKept DEF PeopleInv, Is
  <2> QED
    BY <2>1, <2>2
<1> QED
  BY <1>1, PeopleInvHolds, PTL DEF Spec, OnlyLateReadersOverwrite
=============================================================================
