---------------------------- MODULE Notifications ----------------------------
(* Push tokens and what is sent to them. A phone's token is stored on the     *)
(* account that uses it, after it was taken from every other account. A       *)
(* notification is stored, shown to whoever is online, and pushed to the      *)
(* token its receiver had; a bulk one does the same for all its receivers at  *)
(* once and writes one delivery status for all of them.                       *)
EXTENDS Naturals, FiniteSets

CONSTANTS
    Accounts,
    Phones,    \* a phone and its token
    None,
    Updates,   \* calls of updateFcmToken under way
    Sends      \* notifications under way, each sent once

NotificationsAssumption == None \notin Accounts \union Phones

VARIABLES
    token,     \* fcmToken of each account
    update,    \* what each update does next
    mixed,     \* phones of which two updates overlapped, and none alone since
    send,      \* what each notification has reached
    status,    \* deliveryStatus of each notification's row for an account
    shown      \* accounts whose notification a phone has shown while another held its token

vars == <<token, update, mixed, send, status, shown>>

Idle == [step |-> "idle", account |-> None, phone |-> None]
Update == [step : {"idle", "take", "give"}, account : Accounts \union {None}, phone : Phones \union {None}]
New == [step |-> "new", to |-> {}, tokens |-> {}]
Send == [step : {"new", "stored", "pushed", "done"}, to : SUBSET Accounts, tokens : SUBSET (Accounts \X Phones)]

TypeOK ==
    /\ token \in [Accounts -> Phones \union {None}]
    /\ update \in [Updates -> Update]
    /\ mixed \subseteq Phones
    /\ send \in [Sends -> Send]
    /\ status \in [Sends -> [Accounts -> {"none", "pending", "sent", "failed"}]]
    /\ shown \subseteq Accounts

Init ==
    /\ token = [a \in Accounts |-> None]
    /\ update = [u \in Updates |-> Idle]
    /\ mixed = {}
    /\ send = [n \in Sends |-> New]
    /\ status = [n \in Sends |-> [a \in Accounts |-> "none"]]
    /\ shown = {}

-----------------------------------------------------------------------------
(* updateFcmToken                                                             *)

Others(u, p) == {o \in Updates \ {u} : update[o].step # "idle" /\ update[o].phone = p}

\* The app of an account that has signed in on a phone sends the phone's token.
StartUpdate(u) ==
    /\ update[u].step = "idle"
    /\ \E a \in Accounts, p \in Phones :
          /\ update' = [update EXCEPT ![u] = [step |-> "take", account |-> a, phone |-> p]]
          /\ mixed' = IF Others(u, p) # {} THEN mixed \union {p} ELSE mixed
    /\ UNCHANGED <<token, send, status, shown>>

\* Mutant: the token is taken from nobody.
TakenFromNobody(a, p) == token

\* $unset on every other account that has it.
Taken(a, p) == [b \in Accounts |-> IF b # a /\ token[b] = p THEN None ELSE token[b]]

TakeToken(u) ==
    LET j == update[u] IN
    /\ j.step = "take"
    /\ token' = Taken(j.account, j.phone)
    /\ update' = [update EXCEPT ![u].step = "give"]
    /\ mixed' = IF Others(u, j.phone) = {} THEN mixed \ {j.phone} ELSE mixed
    /\ UNCHANGED <<send, status, shown>>

GiveToken(u) ==
    /\ update[u].step = "give"
    /\ token' = [token EXCEPT ![update[u].account] = update[u].phone]
    /\ update' = [update EXCEPT ![u] = Idle]
    /\ UNCHANGED <<mixed, send, status, shown>>

\* The app sends null, or the process stops between the two writes of an update.
ClearToken(a) ==
    /\ token[a] # None
    /\ token' = [token EXCEPT ![a] = None]
    /\ UNCHANGED <<update, mixed, send, status, shown>>

StopUpdate(u) ==
    /\ update[u].step = "give"
    /\ update' = [update EXCEPT ![u] = Idle]
    /\ UNCHANGED <<token, mixed, send, status, shown>>

-----------------------------------------------------------------------------
(* createNotification, for one account; sendBulkNotifications, for several    *)

Store(n) ==
    /\ send[n].step = "new"
    /\ \E to \in SUBSET Accounts \ {{}} :
          /\ send' = [send EXCEPT ![n] = [New EXCEPT !.step = "stored", !.to = to]]
          /\ status' = [status EXCEPT ![n] = [a \in Accounts |-> IF a \in to THEN "pending" ELSE "none"]]
    /\ UNCHANGED <<token, update, mixed, shown>>

\* Those with a token; the preference that is asked for too, notificationsEnabled,
\* is no field of the schema and so never stored.
Receivers(n) == {a \in send[n].to : token[a] # None}

ReadTokens(n) ==
    /\ send[n].step = "stored"
    /\ send' = [send EXCEPT ![n].step = IF Receivers(n) = {} THEN "done" ELSE "pushed",
                            ![n].tokens = {<<a, token[a]>> : a \in Receivers(n)}]
    /\ UNCHANGED <<token, update, mixed, status, shown>>

\* The push reaches the phones, and the status is written; either may fail.
Push(n) ==
    /\ send[n].step = "pushed"
    /\ \E result \in {"sent", "failed", "pending"} :
          /\ status' = [status EXCEPT ![n] = [a \in Accounts |->
                           IF \E t \in send[n].tokens : t[1] = a THEN result ELSE @[a]]]
          /\ shown' = IF result = "failed" THEN shown
                      ELSE shown \union {t[1] : t \in {s \in send[n].tokens :
                               \E b \in Accounts \ {s[1]} : token[b] = s[2]}}
    /\ send' = [send EXCEPT ![n].step = "done"]
    /\ UNCHANGED <<token, update, mixed>>

Next ==
    \/ \E u \in Updates : StartUpdate(u) \/ TakeToken(u) \/ GiveToken(u) \/ StopUpdate(u)
    \/ \E a \in Accounts : ClearToken(a)
    \/ \E n \in Sends : Store(n) \/ ReadTokens(n) \/ Push(n)

Spec == Init /\ [][Next]_vars

-----------------------------------------------------------------------------
(* A push token belongs to one account, unless two updates of it overlapped   *)
(* and none has come alone since: taking it from the others and storing it    *)
(* are two writes.                                                            *)
OneAccountPerToken ==
    \A p \in Phones \ mixed : Cardinality({a \in Accounts : token[a] = p}) <= 1

(* "remove the token from every other account first so their notifications    *)
(* can never show up on this phone": a push shows on the phone of another     *)
(* account when the token changed hands after the sender had read it.         *)
NeverOnAnotherPhone == shown = {}

-----------------------------------------------------------------------------
(* Why: on a phone whose updates did not overlap there is one at a time, and  *)
(* between its two writes nobody but its account has the token.               *)
UpdatesAreAlone ==
    \A u \in Updates : update[u].step # "idle" /\ update[u].phone \notin mixed =>
        /\ Others(u, update[u].phone) = {}
        /\ update[u].step = "give" =>
              \A a \in Accounts : token[a] = update[u].phone => a = update[u].account

IInv ==
    /\ token \in [Accounts -> Phones \union {None}]
    /\ update \in [Updates -> Update]
    /\ \A u \in Updates : update[u].step # "idle" =>
          update[u].account \in Accounts /\ update[u].phone \in Phones
    /\ UpdatesAreAlone
    /\ \A p \in Phones \ mixed : \A a, b \in Accounts : token[a] = p /\ token[b] = p => a = b
=============================================================================
