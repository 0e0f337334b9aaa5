-------------------------------- MODULE SignIn --------------------------------
(* Listeners sign in with a phone number: initiate finds or makes the sign-in *)
(* document of the number and stores a one-time code for it, verifyOtp checks *)
(* the code, marks the document verified and finds or makes the profile. Each *)
(* await is a step. One number is modelled. The unique index on phone covers  *)
(* verified documents only, so two initiates may make two of them.            *)
EXTENDS Naturals, Sequences, FiniteSets

CONSTANTS
    Requests,     \* calls of initiate and verifyOtp under way
    MaxCodes,     \* bound: codes ever stored
    MaxAttempts   \* OTP_MAX_ATTEMPTS

VARIABLES
    auths,      \* sign-in documents of the number, oldest first: is it verified?
    codes,      \* codes, oldest first
    profiles,   \* the documents profiles belong to, one entry per profile
    job         \* what each call does next

vars == <<auths, codes, profiles, job>>

Codes == [auth : 1 .. MaxCodes, used : BOOLEAN, attempts : 0 .. MaxAttempts, expired : BOOLEAN]
Jobs  == [step : {"idle", "create", "code", "use", "verify", "find", "profile"},
          auth : 0 .. MaxCodes, code : 0 .. MaxCodes]
Idle  == [step |-> "idle", auth |-> 0, code |-> 0]

TypeOK ==
    /\ auths \in Seq(BOOLEAN) /\ Len(auths) <= MaxCodes
    /\ codes \in Seq(Codes) /\ Len(codes) <= MaxCodes
    /\ profiles \in Seq(1 .. MaxCodes) /\ Len(profiles) <= MaxCodes
    /\ job \in [Requests -> Jobs]

Init ==
    /\ auths = <<>>
    /\ codes = <<>>
    /\ profiles = <<>>
    /\ job = [r \in Requests |-> Idle]

Goes(r, j) == job' = [job EXCEPT ![r] = j]
Step(r, step) == Goes(r, [job[r] EXCEPT !.step = step])
Ends(r) == Goes(r, Idle)

-----------------------------------------------------------------------------
(* initiate                                                                   *)

\* findByPhone gives no order: of two documents it may return either.
Found == DOMAIN auths

\* Calls that will store a code count against the bound.
Initiate(r) ==
    /\ job[r].step = "idle"
    /\ Len(codes) + Cardinality({o \in Requests : job[o].step \in {"create", "code"}}) < MaxCodes
    /\ IF Found = {}
       THEN Goes(r, [Idle EXCEPT !.step = "create"])
       ELSE \E a \in Found : Goes(r, [Idle EXCEPT !.step = "code", !.auth = a])
    /\ UNCHANGED <<auths, codes, profiles>>

CreateAuth(r) ==
    /\ job[r].step = "create"
    /\ auths' = Append(auths, FALSE)
    /\ Goes(r, [job[r] EXCEPT !.step = "code", !.auth = Len(auths')])
    /\ UNCHANGED <<codes, profiles>>

StoreCode(r) ==
    /\ job[r].step = "code"
    /\ codes' = Append(codes, [auth |-> job[r].auth, used |-> FALSE, attempts |-> 0, expired |-> FALSE])
    /\ Ends(r)
    /\ UNCHANGED <<auths, profiles>>

-----------------------------------------------------------------------------
(* verifyOtp                                                                  *)

\* findLatestUnused.
Latest(a) == {c \in DOMAIN codes :
                /\ codes[c].auth = a /\ ~codes[c].used
                /\ \A d \in DOMAIN codes : codes[d].auth = a /\ ~codes[d].used => d <= c}

Usable(c) == ~codes[c].expired /\ codes[c].attempts < MaxAttempts

\* The code is read; the listener typed it right, or wrong.
VerifyOtp(r) ==
    /\ job[r].step = "idle"
    /\ \E a \in Found : \E c \in Latest(a) :
          /\ Usable(c)
          /\ \/ /\ Goes(r, [step |-> "use", auth |-> a, code |-> c])
                /\ UNCHANGED codes
             \/ /\ codes' = [codes EXCEPT ![c].attempts = @ + 1]
                /\ UNCHANGED job
    /\ UNCHANGED <<auths, profiles>>

MarkUsed(r) ==
    /\ job[r].step = "use"
    /\ codes' = [codes EXCEPT ![job[r].code].used = TRUE]
    /\ Step(r, "verify")
    /\ UNCHANGED <<auths, profiles>>

\* The unique index on (phone, isPhoneVerified = true).
MayVerify(a) == \A b \in DOMAIN auths \ {a} : ~auths[b]

\* A refused update is an error to the listener; the code is used up.
VerifyPhone(r) ==
    /\ job[r].step = "verify"
    /\ IF MayVerify(job[r].auth)
       THEN /\ auths' = [auths EXCEPT ![job[r].auth] = TRUE]
            /\ Step(r, "find")
       ELSE /\ Ends(r)
            /\ UNCHANGED auths
    /\ UNCHANGED <<codes, profiles>>

HasProfile(a) == \E p \in DOMAIN profiles : profiles[p] = a

\* A profile that is there is signed in; a missing country is filled in (left out).
FindProfile(r) ==
    /\ job[r].step = "find"
    /\ IF HasProfile(job[r].auth) THEN Ends(r) ELSE Step(r, "profile")
    /\ UNCHANGED <<auths, codes, profiles>>

\* Mutant: no unique index on a profile's auth.
NeverRefused(a) == FALSE

\* The unique index on auth refuses a second profile.
Refused(a) == HasProfile(a)

CreateProfile(r) ==
    /\ job[r].step = "profile"
    /\ profiles' = IF Refused(job[r].auth) THEN profiles ELSE Append(profiles, job[r].auth)
    /\ Ends(r)
    /\ UNCHANGED <<auths, codes>>

-----------------------------------------------------------------------------
(* OTP_EXPIRY_MINUTES pass. *)
Expire ==
    /\ \E c \in DOMAIN codes : /\ ~codes[c].expired
                               /\ codes' = [codes EXCEPT ![c].expired = TRUE]
    /\ UNCHANGED <<auths, profiles, job>>

\* The process stops between two steps of a call.
Stop(r) ==
    /\ job[r].step # "idle"
    /\ Ends(r)
    /\ UNCHANGED <<auths, codes, profiles>>

Next ==
    \/ Expire
    \/ \E r \in Requests :
          \/ Initiate(r) \/ CreateAuth(r) \/ StoreCode(r) \/ VerifyOtp(r) \/ MarkUsed(r)
          \/ VerifyPhone(r) \/ FindProfile(r) \/ CreateProfile(r) \/ Stop(r)

Spec == Init /\ [][Next]_vars

-----------------------------------------------------------------------------
(* A phone number is one listener: it has at most one profile, so one balance *)
(* and one history, and that profile belongs to the verified document. Two    *)
(* first sign-ins that overlap, each finding nobody, are decided by the two   *)
(* unique indexes, taken in this order.                                       *)
OneListener ==
    /\ Len(profiles) <= 1
    /\ \A p \in DOMAIN profiles : auths[profiles[p]]
    /\ \A a, b \in DOMAIN auths : auths[a] /\ auths[b] => a = b

-----------------------------------------------------------------------------
(* Why: a call works on a document that is there, and from the update of the  *)
(* index on verified documents on, on the one that is verified.               *)
CallsAreAboutDocuments ==
    \A r \in Requests :
        /\ job[r].step \in {"code", "use", "verify", "find", "profile"} => job[r].auth \in DOMAIN auths
        /\ job[r].step \in {"find", "profile"} => auths[job[r].auth]

IInv ==
    /\ auths \in Seq(BOOLEAN)
    /\ codes \in Seq([auth : Nat, used : BOOLEAN, attempts : Nat, expired : BOOLEAN])
    /\ profiles \in Seq(Nat)
    /\ job \in [Requests -> [step : {"idle", "create", "code", "use", "verify", "find", "profile"},
                             auth : Nat, code : Nat]]
    /\ CallsAreAboutDocuments
    /\ \A p \in DOMAIN profiles : profiles[p] \in DOMAIN auths
    /\ OneListener
=============================================================================
