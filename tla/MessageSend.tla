------------------------------ MODULE MessageSend ------------------------------
(***************************************************************************)
(* One listener's messages to a station (src/src/module/message): the app      *)
(* sends a message again, under the same clientMessageId, when it had no       *)
(* answer.  The message and its credit commit in one transaction, tried again  *)
(* on a write conflict; a look-up before and after it, and a unique index in   *)
(* between, are to make the second send harmless.                              *)
(***************************************************************************)
EXTENDS Totals

CONSTANTS
    Keys,         \* the clientMessageIds of the listener's messages
    NoKey,        \* what an app that sends none is modelled to send
    Requests,     \* sends in flight at once
    Credits,      \* the listener's balance at first; it bounds the messages
    MaxAttempts,  \* of a transaction
    MaxFailures,  \* bound: sends that are cut off or whose commit is not confirmed
    MaxSwitches   \* bound: changes of the station's being open to messages

KeysAssumption   == NoKey \notin Keys /\ IsFiniteSet(Keys)
BoundsAssumption == /\ Credits \in Nat /\ MaxAttempts \in Nat \ {0}
                    /\ MaxFailures \in Nat /\ MaxSwitches \in Nat

VARIABLES
    rows,         \* committed messages of each key
    balance,      \* the CreditBalance document
    open,         \* the station is active and, unless a channel, has a show on air
    job,          \* what each send does next
    answered,     \* keys the app was told are sent
    failures, switches

vars == <<rows, balance, open, job, answered, failures, switches>>

AllKeys == Keys \cup {NoKey}

\* attempt: of the transaction.  stale: another transaction committed since this
\* one took its snapshot.
Job  == [step : {"idle", "guard", "insert", "charge", "commit", "lookup"},
         key : AllKeys, attempt : 1..MaxAttempts, stale : BOOLEAN]
Idle == [step |-> "idle", key |-> NoKey, attempt |-> 1, stale |-> FALSE]

TypeOK ==
    /\ rows     \in [AllKeys -> 0..Credits]
    /\ balance  \in Int
    /\ open     \in BOOLEAN
    /\ job      \in [Requests -> Job]
    /\ answered \subseteq AllKeys
    /\ failures \in 0..MaxFailures
    /\ switches \in 0..MaxSwitches

Init ==
    /\ rows     = [k \in AllKeys |-> 0]
    /\ balance  = Credits
    /\ open     = TRUE
    /\ job      = [r \in Requests |-> Idle]
    /\ answered = {}
    /\ failures = 0
    /\ switches = 0

Goes(r, j) == job' = [job EXCEPT ![r] = j]

-----------------------------------------------------------------------------
(* Before the transaction                                                   *)

\* The listener's committed message of this key.
AlreadySent(k) == k # NoKey /\ rows[k] > 0

\* A send, or a send again: a message that is already there is the answer.
SendUserMessage(r) ==
    /\ job[r].step = "idle"
    /\ \E k \in AllKeys :
          IF AlreadySent(k)
          THEN /\ answered' = answered \cup {k}
               /\ UNCHANGED job
          ELSE /\ Goes(r, [Idle EXCEPT !.step = "guard", !.key = k])
               /\ UNCHANGED answered
    /\ UNCHANGED <<rows, balance, open, failures, switches>>

\* The station, its show and the listener's phone are read before the transaction.
CheckStation(r) ==
    /\ job[r].step = "guard"
    /\ Goes(r, IF open THEN [job[r] EXCEPT !.step = "insert"] ELSE Idle)
    /\ UNCHANGED <<rows, balance, open, answered, failures, switches>>

SwitchStation ==
    /\ switches < MaxSwitches
    /\ open' = ~open
    /\ switches' = switches + 1
    /\ UNCHANGED <<rows, balance, job, answered, failures>>

-----------------------------------------------------------------------------
(* The transaction                                                          *)

\* Aborted for a conflict: tried again, at last given up.
Retry(r) ==
    Goes(r, IF job[r].attempt < MaxAttempts
            THEN [job[r] EXCEPT !.step = "insert", !.attempt = @ + 1, !.stale = FALSE]
            ELSE [job[r] EXCEPT !.step = "lookup", !.stale = FALSE])

\* Mutants: no index; an index that ignores what is not committed.
NoIndex(k)      == FALSE
Unlocked(r, k)  == FALSE

\* The unique index of (user, clientMessageId).
Duplicate(k) == k # NoKey /\ rows[k] > 0

\* Another transaction holds the index entry, or the balance.
KeyLocked(r, k)  == k # NoKey /\ \E q \in Requests \ {r} : job[q].key = k /\ job[q].step \in {"charge", "commit"}
BalanceLocked(r) == \E q \in Requests \ {r} : job[q].step = "commit"

\* The message row first.  A committed one of the same key is error 11000.
CreateMessage(r) ==
    LET k == job[r].key IN
    /\ job[r].step = "insert"
    /\ IF Duplicate(k) THEN Goes(r, [job[r] EXCEPT !.step = "lookup"])
       ELSE IF KeyLocked(r, k) THEN Retry(r)
       ELSE Goes(r, [job[r] EXCEPT !.step = "charge"])
    /\ UNCHANGED <<rows, balance, open, answered, failures, switches>>

\* Mutant: a balance changed since the snapshot does not stop the charge.
NoConflict(r) == FALSE

\* The balance was written since the snapshot, or is being written.
Conflict(r) == job[r].stale \/ BalanceLocked(r)

\* deductCredits; without credits the error is thrown on at once.
ChargeMessage(r) ==
    /\ job[r].step = "charge"
    /\ IF Conflict(r) THEN Retry(r)
       ELSE IF balance < 1 THEN Goes(r, Idle)
       ELSE Goes(r, [job[r] EXCEPT !.step = "commit"])
    /\ UNCHANGED <<rows, balance, open, answered, failures, switches>>

\* The effect of a commit on everyone's data, and on the snapshots of others.
Committed(r, next) ==
    /\ rows'    = [rows EXCEPT ![job[r].key] = @ + 1]
    /\ balance' = balance - 1
    /\ job'     = [q \in Requests |->
                      IF q = r THEN next
                      ELSE [job[q] EXCEPT !.stale = job[q].step = "charge"]]

Commit(r) ==
    /\ job[r].step = "commit"
    /\ Committed(r, Idle)
    /\ answered' = answered \cup {job[r].key}
    /\ UNCHANGED <<open, failures, switches>>

\* The commit took effect, the driver never learned so: the app gets an error.
CommitUnconfirmed(r) ==
    /\ job[r].step = "commit"
    /\ failures < MaxFailures
    /\ Committed(r, Idle)
    /\ failures' = failures + 1
    /\ UNCHANGED <<open, answered, switches>>

-----------------------------------------------------------------------------
(* After it                                                                 *)

\* After a duplicate key or a conflict to the end: perhaps the other send is there.
LookUp(r) ==
    LET k == job[r].key IN
    /\ job[r].step = "lookup"
    /\ answered' = IF AlreadySent(k) THEN answered \cup {k} ELSE answered
    /\ Goes(r, Idle)
    /\ UNCHANGED <<rows, balance, open, failures, switches>>

\* An error of the database or the end of the process: what is open is aborted.
Fail(r) ==
    /\ job[r].step # "idle"
    /\ failures < MaxFailures
    /\ failures' = failures + 1
    /\ Goes(r, Idle)
    /\ UNCHANGED <<rows, balance, open, answered, switches>>

-----------------------------------------------------------------------------
Next ==
    \/ SwitchStation
    \/ \E r \in Requests :
          \/ SendUserMessage(r) \/ CheckStation(r)
          \/ CreateMessage(r) \/ ChargeMessage(r)
          \/ Commit(r) \/ CommitUnconfirmed(r)
          \/ LookUp(r) \/ Fail(r)

Spec == Init /\ [][Next]_vars

-----------------------------------------------------------------------------
\* However often and however closely together a message is sent under one
\* clientMessageId, there is one of it and one credit was taken for it; what the
\* app was told is sent is there; and the balance never pays for more than it
\* holds (check, unique index and look-up of sendUserMessage).
SentOnce ==
    /\ \A k \in Keys : rows[k] <= 1
    /\ \A k \in answered : rows[k] >= 1
    /\ balance >= 0
    /\ balance + Total(rows, AllKeys) = Credits
=============================================================================
