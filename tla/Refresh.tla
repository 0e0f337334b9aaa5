------------------------------- MODULE Refresh -------------------------------
(***************************************************************************)
(* Rotation of refresh tokens (refresh of src/src/module/auth/auth.service.ts *)
(* and logout of auth.controller.ts): every use of a token yields a new     *)
(* pair and retires the token, in Redis; for a grace period a used token is *)
(* answered with the pair it produced, so that a client whose answer was    *)
(* lost can ask again.  A token stands for the pair it came with.           *)
(***************************************************************************)
EXTENDS Naturals, FiniteSets

CONSTANTS
    Tokens,      \* refresh tokens, in the order of their issue
    NoToken,
    Requests,    \* calls of refresh
    MaxOutages   \* bound: calls of Redis that fail

TokensAssumption == Tokens \subseteq Nat /\ Tokens # {} /\ NoToken \notin Tokens

VARIABLES
    issued,      \* tokens generated so far
    given,       \* tokens some client was answered with
    request,     \* per call: the token, the next step, the token it answers with,
                 \* and (history) whether it repeats a finished call in its grace period
    grace,       \* Redis refresh_grace:{token}
    revoked,     \* Redis revoked_token:{token}
    session,     \* Redis session:active:{sid}
    usable,      \* the account is active, its profile neither blocked nor deleted
    used,        \* history: tokens given to refresh or to logout
    outages

vars == <<issued, given, request, grace, revoked, session, usable, used, outages>>

Steps   == {"none", "session", "grace", "revoked", "account", "keep", "retire", "answer",
            "answered", "refused", "refusedAsUsed"}
Unasked == [token |-> NoToken, next |-> "none", pair |-> NoToken, repeat |-> FALSE]

TypeOK ==
    /\ issued  \subseteq Tokens
    /\ given   \subseteq issued
    /\ request \in [Requests -> [token : issued \cup {NoToken}, next : Steps,
                                 pair : issued \cup {NoToken}, repeat : BOOLEAN]]
    /\ grace   \in [Tokens -> issued \cup {NoToken}]
    /\ revoked \subseteq issued
    /\ session \in BOOLEAN /\ usable \in BOOLEAN
    /\ used    \subseteq given
    /\ outages \in 0 .. MaxOutages

First(S) == {t \in S : \A u \in S : t <= u}

\* A login has just answered with the first pair.
Init ==
    /\ issued  = First(Tokens)
    /\ given   = issued
    /\ request = [r \in Requests |-> Unasked]
    /\ grace   = [t \in Tokens |-> NoToken]
    /\ revoked = {}
    /\ session = TRUE /\ usable = TRUE
    /\ used    = {}
    /\ outages = 0

-----------------------------------------------------------------------------

At(r, step) == request[r].next = step
Goes(r, step) == request' = [request EXCEPT ![r].next = step]

\* A call of Redis answers, or fails and is skipped.
Answers == UNCHANGED outages
Fails   == outages < MaxOutages /\ outages' = outages + 1

Finished(s, t) == request[s].token = t /\ At(s, "answered")

Ask(r, t) ==
    /\ At(r, "none") /\ t \in given
    /\ request' = [request EXCEPT ![r] =
                     [token |-> t, next |-> "session", pair |-> NoToken,
                      repeat |-> \E s \in Requests : Finished(s, t) /\ grace[t] # NoToken]]
    /\ used' = used \cup {t}
    /\ UNCHANGED <<issued, given, grace, revoked, session, usable, outages>>

CheckSession(r) ==
    /\ At(r, "session")
    /\ \/ Answers /\ Goes(r, IF session THEN "grace" ELSE "refused")
       \/ Fails /\ Goes(r, "grace")
    /\ UNCHANGED <<issued, given, grace, revoked, session, usable, used>>

\* Where a look at refresh_grace leads.
AfterGrace(r) == IF grace[request[r].token] = NoToken THEN "revoked" ELSE "answer"

LookForGrace(r) ==
    /\ At(r, "grace")
    /\ \/ /\ Answers
          /\ request' = [request EXCEPT ![r].next = AfterGrace(r),
                                        ![r].pair = grace[request[r].token]]
       \/ Fails /\ Goes(r, "account")
    /\ UNCHANGED <<issued, given, grace, revoked, session, usable, used>>

LookForRevoked(r) ==
    /\ At(r, "revoked")
    /\ \/ Answers /\ Goes(r, IF request[r].token \in revoked THEN "refusedAsUsed" ELSE "account")
       \/ Fails /\ Goes(r, "account")
    /\ UNCHANGED <<issued, given, grace, revoked, session, usable, used>>

\* Mutant: without a jti two tokens of one second are the same.
SameSecond(r) == {request[r].token}

\* generateTokens: the jti makes the token a new one.
FreshTokens(r) == First(Tokens \ issued)

\* The reads of the account and the profile, and the new pair.
Generate(r) ==
    /\ At(r, "account")
    /\ IF ~usable THEN Goes(r, "refused") /\ UNCHANGED <<issued, used>>
       ELSE \E n \in FreshTokens(r) :
               /\ issued' = issued \cup {n} /\ used' = used \ {n}
               /\ request' = [request EXCEPT ![r].next = "keep", ![r].pair = n]
    /\ UNCHANGED <<given, grace, revoked, session, usable, outages>>

KeepPair(r) ==
    /\ At(r, "keep")
    /\ Goes(r, "retire")
    /\ \/ Answers /\ grace' = [grace EXCEPT ![request[r].token] = request[r].pair]
       \/ Fails /\ UNCHANGED grace
    /\ UNCHANGED <<issued, given, revoked, session, usable, used>>

Retire(r) ==
    /\ At(r, "retire")
    /\ Goes(r, "answer")
    /\ \/ Answers /\ revoked' = revoked \cup {request[r].token}
       \/ Fails /\ UNCHANGED revoked
    /\ UNCHANGED <<issued, given, grace, session, usable, used>>

\* The client receives the pair, or the answer is lost.
Answer(r) ==
    /\ At(r, "answer")
    /\ Goes(r, "answered")
    /\ given' \in {given, given \cup {request[r].pair}}
    /\ UNCHANGED <<issued, grace, revoked, session, usable, used, outages>>

\* REFRESH_GRACE_SECONDS have passed.
GraceEnds(t) ==
    /\ grace[t] # NoToken
    /\ grace' = [grace EXCEPT ![t] = NoToken]
    /\ request' = [r \in Requests |-> IF request[r].token = t
                                      THEN [request[r] EXCEPT !.repeat = FALSE] ELSE request[r]]
    /\ UNCHANGED <<issued, given, revoked, session, usable, used, outages>>

\* logout ends the session, then retires the refresh token it was given.
Logout(t) ==
    /\ t \in given
    /\ session' = FALSE
    /\ revoked' = revoked \cup {t}
    /\ used' = used \cup {t}
    /\ UNCHANGED <<issued, given, request, grace, usable, outages>>

\* An administrator deactivates the account or activates it again.
SwitchAccount ==
    /\ usable' = ~usable
    /\ UNCHANGED <<issued, given, request, grace, revoked, session, used, outages>>

Next ==
    \/ \E r \in Requests :
          \/ \E t \in Tokens : Ask(r, t)
          \/ CheckSession(r) \/ LookForGrace(r) \/ LookForRevoked(r) \/ Generate(r)
          \/ KeepPair(r) \/ Retire(r) \/ Answer(r)
    \/ \E t \in Tokens : GraceEnds(t) \/ Logout(t)
    \/ SwitchAccount

Spec == Init /\ [][Next]_vars

-----------------------------------------------------------------------------

\* Retiring a token leaves the tokens alone that nobody has used since they were
\* generated, whatever two calls with one token do to each other.
NewTokensWork == (issued \ used) \cap revoked = {}

\* A call that follows a finished one with the same token, its answer lost, is
\* not refused as long as the grace period lasts.
RepeatsAreAnswered == \A r \in Requests : At(r, "refusedAsUsed") => ~request[r].repeat

\* Whatever calls and outages overlap, a client is not left without a token that
\* works: its new ones work, and its old one does until the grace is over.
ClientsKeepAToken == NewTokensWork /\ RepeatsAreAnswered

-----------------------------------------------------------------------------
(* Why: only what was used is retired, a call that answers has a pair to      *)
(* answer with, and one that repeats a finished call finds that call's pair.  *)
CallsHaveTokens ==
    \A r \in Requests :
        /\ request[r].token = NoToken <=> At(r, "none")
        /\ ~At(r, "none") => request[r].token \in used
        /\ request[r].next \in {"keep", "retire", "answer"} => request[r].pair # NoToken

RepeatsFindGrace ==
    \A r \in Requests : request[r].repeat =>
        grace[request[r].token] # NoToken /\ ~At(r, "none") /\ ~At(r, "revoked") /\ ~At(r, "refusedAsUsed")

IInv ==
    /\ issued \subseteq Tokens /\ given \subseteq issued /\ used \subseteq given
    /\ request \in [Requests -> [token : issued \cup {NoToken}, next : Steps,
                                 pair : issued \cup {NoToken}, repeat : BOOLEAN]]
    /\ grace \in [Tokens -> issued \cup {NoToken}]
    /\ revoked \subseteq used
    /\ CallsHaveTokens /\ RepeatsFindGrace
=============================================================================
