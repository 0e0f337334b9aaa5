------------------------------ MODULE Challenge ------------------------------
(***************************************************************************)
(* One challenge that costs a credit and pays bonus credits (src/src/module/ *)
(* challenge, and the internal prizes of module/disbursement).  Listeners    *)
(* submit, the scheduler activates and completes, administrators cancel,     *)
(* edit and retry.  The scheduler's interval has no guard: a run may start   *)
(* while an earlier one is still under way.                                  *)
(***************************************************************************)
EXTENDS Integers, FiniteSets

CONSTANTS
    Users,            \* listeners, the better score first
    Scans,            \* runs of the scheduler that may be under way at once
    Requests,         \* requests of listeners and administrators, likewise
    NumberOfWinners,
    MaxEdits,         \* bound: PATCHes of the challenge
    MaxFaults         \* bound: restarts, and commits whose answer is lost

UsersAssumption   == Users \subseteq Nat
WorkersAssumption == Scans \cap Requests = {}
BoundsAssumption  == /\ NumberOfWinners \in Nat \ {0}
                     /\ MaxEdits \in Nat
                     /\ MaxFaults \in Nat

VARIABLES
    status,     \* Challenge.status
    phase,      \* where the clock stands: before startsAt, open, past endsAt
    players,    \* users with a ChallengeParticipation
    charged,    \* challenge_deduction rows of each user
    refunded,   \* credits given back to each user for this challenge
    row,        \* Disbursement.status of each winner
    granted,    \* challenge_reward rows of each user
    job,        \* what each run or request does next, and for whom
    reopened,   \* history: an ended challenge was made active again
    edits, faults

vars == <<status, phase, players, charged, refunded, row, granted, job, reopened, edits, faults>>

Workers == Scans \cup Requests
Steps   == {"idle", "activate", "complete", "list", "begin", "insert", "grant", "fail",
            "play", "players", "refund"}
Idle    == [step |-> "idle", todo |-> {}]
Ended   == {"completed", "cancelled"}
Statuses == {"draft", "scheduled", "active"} \cup Ended
Phases   == {"before", "open", "over"}

TypeOK ==
    /\ status   \in Statuses
    /\ phase    \in Phases
    /\ players  \subseteq Users
    /\ charged  \in [Users -> Nat]
    /\ refunded \in [Users -> Nat]
    /\ row      \in [Users -> {"none", "pending", "successful", "failed"}]
    /\ granted  \in [Users -> Nat]
    /\ job      \in [Workers -> [step : Steps, todo : SUBSET Users]]
    /\ reopened \in BOOLEAN
    /\ edits    \in 0..MaxEdits
    /\ faults   \in 0..MaxFaults

\* createChallenge takes the status of the request, or derives it from the window.
Init ==
    /\ phase    \in Phases
    /\ status   \in Statuses
    /\ players  = {}
    /\ charged  = [u \in Users |-> 0]
    /\ refunded = [u \in Users |-> 0]
    /\ row      = [u \in Users |-> "none"]
    /\ granted  = [u \in Users |-> 0]
    /\ job      = [w \in Workers |-> Idle]
    /\ reopened = FALSE
    /\ edits    = 0
    /\ faults   = 0

First(S)        == CHOOSE u \in S : \A v \in S : u <= v
Does(w, step)   == job[w].step = step
Now(w)          == First(job[w].todo)
Go(w, step, S)  == job' = [job EXCEPT ![w] = [step |-> step, todo |-> S]]
Stop(w)         == job' = [job EXCEPT ![w] = Idle]

\* On to the next user of a loop.
Advance(w, step) ==
    IF job[w].todo = {Now(w)} THEN Stop(w) ELSE Go(w, step, job[w].todo \ {Now(w)})

SetStatus(s) == status' = s /\ reopened' = (reopened \/ (status \in Ended /\ s \notin Ended))

-----------------------------------------------------------------------------
(* participateInChallenge: the checks read outside the session, charge and  *)
(* participation commit together.                                           *)

CheckPlay(q, u) ==
    /\ Does(q, "idle")
    /\ status = "active" /\ phase = "open"
    /\ u \notin players
    /\ Go(q, "play", {u})
    /\ UNCHANGED <<status, phase, players, charged, refunded, row, granted, reopened, edits, faults>>

\* Mutant: the charge is not part of the transaction that the unique index aborts.
CommitPlayChargedFirst(q) ==
    /\ Does(q, "play")
    /\ players' = players \cup {Now(q)}
    /\ charged' = [charged EXCEPT ![Now(q)] = @ + 1]
    /\ Stop(q)
    /\ UNCHANGED <<status, phase, refunded, row, granted, reopened, edits, faults>>

\* The unique {challenge, user} index answers a second submission with 409.
CommitPlay(q) ==
    /\ Does(q, "play")
    /\ Now(q) \notin players
    /\ players' = players \cup {Now(q)}
    /\ charged' = [charged EXCEPT ![Now(q)] = @ + 1]
    /\ Stop(q)
    /\ UNCHANGED <<status, phase, refunded, row, granted, reopened, edits, faults>>

\* 409, too few credits, or an error: the transaction leaves nothing behind.
RejectPlay(q) ==
    /\ Does(q, "play")
    /\ Stop(q)
    /\ UNCHANGED <<status, phase, players, charged, refunded, row, granted, reopened, edits, faults>>

-----------------------------------------------------------------------------
(* The scheduler: a scan decides from what it read, and acts later.         *)

DueStep ==
    CASE status = "scheduled" /\ phase = "open" -> "activate"
      [] status = "active" /\ phase = "over"    -> "complete"
      [] OTHER                                  -> "idle"

StartScan(s) ==
    /\ Does(s, "idle")
    /\ DueStep # "idle"
    /\ Go(s, DueStep, {})
    /\ UNCHANGED <<status, phase, players, charged, refunded, row, granted, reopened, edits, faults>>

\* findByIdAndUpdate: not conditional on the status.
Activate(s) ==
    /\ Does(s, "activate")
    /\ SetStatus("active")
    /\ Stop(s)
    /\ UNCHANGED <<phase, players, charged, refunded, row, granted, edits, faults>>

\* Mutant: the update is not conditional on "active".
CompletableAlways == TRUE

Completable == status = "active"

Complete(s) ==
    /\ Does(s, "complete")
    /\ IF Completable THEN SetStatus("completed") /\ Go(s, "list", {})
                      ELSE UNCHANGED <<status, reopened>> /\ Stop(s)
    /\ UNCHANGED <<phase, players, charged, refunded, row, granted, edits, faults>>

Top(S) == {u \in S : Cardinality({v \in S : v < u}) < NumberOfWinners}

ListWinners(s) ==
    /\ Does(s, "list")
    /\ IF players = {} THEN Stop(s) ELSE Go(s, "begin", Top(players))
    /\ UNCHANGED <<status, phase, players, charged, refunded, row, granted, reopened, edits, faults>>

Winners == {u \in Users : row[u] # "none"}

\* The snapshot of phase 1 is taken by its first read, the count of rows.
BeginRows(s) ==
    /\ Does(s, "begin")
    /\ IF Winners # {} THEN Stop(s) ELSE Go(s, "insert", job[s].todo)
    /\ UNCHANGED <<status, phase, players, charged, refunded, row, granted, reopened, edits, faults>>

Insertable(s) == Does(s, "insert") /\ job[s].todo \cap Winners = {}

Inserted(s) == [u \in Users |-> IF u \in job[s].todo THEN "pending" ELSE row[u]]

\* The unique {challenge, winnerUser} index lets one of two inserts through.
InsertRows(s) ==
    /\ Insertable(s)
    /\ row' = Inserted(s)
    /\ Go(s, "grant", job[s].todo)
    /\ UNCHANGED <<status, phase, players, charged, refunded, granted, reopened, edits, faults>>

\* Any error is logged and ends the run, also when only the commit's answer is lost.
InsertThrows(s) ==
    /\ Does(s, "insert")
    /\ \/ UNCHANGED <<row, faults>>
       \/ /\ Insertable(s) /\ faults < MaxFaults
          /\ row' = Inserted(s)
          /\ faults' = faults + 1
    /\ Stop(s)
    /\ UNCHANGED <<status, phase, players, charged, refunded, granted, reopened, edits>>

-----------------------------------------------------------------------------
(* dispatchBonusCredits, by the run that created the row or by a retry.     *)

\* Claim and grant in one transaction.
Pay(u) ==
    /\ row[u] = "pending"
    /\ row'     = [row EXCEPT ![u] = "successful"]
    /\ granted' = [granted EXCEPT ![u] = @ + 1]

GrantCredits(w) ==
    /\ Does(w, "grant")
    /\ Pay(Now(w)) \/ (row[Now(w)] # "pending" /\ UNCHANGED <<row, granted>>)
    /\ Advance(w, "grant")
    /\ UNCHANGED <<status, phase, players, charged, refunded, reopened, edits, faults>>

GrantThrows(w) ==
    /\ Does(w, "grant")
    /\ \/ UNCHANGED <<row, granted, faults>>
       \/ Pay(Now(w)) /\ faults < MaxFaults /\ faults' = faults + 1
    /\ Go(w, "fail", job[w].todo)
    /\ UNCHANGED <<status, phase, players, charged, refunded, reopened, edits>>

\* Mutants: the error path marks the row whatever its status is, or not at all.
FailableAlways(u) == TRUE
FailableNever(u)  == FALSE

Failable(u) == row[u] = "pending"

RecordGrantFailure(w) ==
    /\ Does(w, "fail")
    /\ row' = IF Failable(Now(w)) THEN [row EXCEPT ![Now(w)] = "failed"] ELSE row
    /\ Advance(w, "grant")
    /\ UNCHANGED <<status, phase, players, charged, refunded, granted, reopened, edits, faults>>

RetryDisbursement(q, u) ==
    /\ Does(q, "idle")
    /\ row[u] = "failed"
    /\ row' = [row EXCEPT ![u] = "pending"]
    /\ Go(q, "grant", {u})
    /\ UNCHANGED <<status, phase, players, charged, refunded, granted, reopened, edits, faults>>

-----------------------------------------------------------------------------
(* cancelChallenge, updateChallenge.                                        *)

\* Mutant: find, then update by id.
CancellableAlways == TRUE

Cancellable == status \notin Ended

CancelChallenge(q) ==
    /\ Does(q, "idle")
    /\ Cancellable
    /\ SetStatus("cancelled")
    /\ Go(q, "players", {})
    /\ UNCHANGED <<phase, players, charged, refunded, row, granted, edits, faults>>

ListPlayers(q) ==
    /\ Does(q, "players")
    /\ IF players = {} THEN Stop(q) ELSE Go(q, "refund", players)
    /\ UNCHANGED <<status, phase, players, charged, refunded, row, granted, reopened, edits, faults>>

RefundPlayer(q) ==
    /\ Does(q, "refund")
    /\ refunded' = [refunded EXCEPT ![Now(q)] = @ + 1]
    /\ Advance(q, "refund")
    /\ UNCHANGED <<status, phase, players, charged, row, granted, reopened, edits, faults>>

\* The first error ends the loop, with the balance already restored or not.
RefundThrows(q) ==
    /\ Does(q, "refund")
    /\ \/ UNCHANGED refunded
       \/ refunded' = [refunded EXCEPT ![Now(q)] = @ + 1]
    /\ Stop(q)
    /\ UNCHANGED <<status, phase, players, charged, row, granted, reopened, edits, faults>>

\* A PATCH may set the status, in any status, and move the window.
UpdateChallenge(s, ph) ==
    /\ edits < MaxEdits
    /\ edits' = edits + 1
    /\ SetStatus(s)
    /\ phase' = ph
    /\ UNCHANGED <<players, charged, refunded, row, granted, job, faults>>

TimePasses ==
    /\ phase # "over"
    /\ phase' = IF phase = "before" THEN "open" ELSE "over"
    /\ UNCHANGED <<status, players, charged, refunded, row, granted, job, reopened, edits, faults>>

\* Runs and requests die with the process; nothing takes them up again.
Crash ==
    /\ faults < MaxFaults
    /\ faults' = faults + 1
    /\ job' = [w \in Workers |-> Idle]
    /\ UNCHANGED <<status, phase, players, charged, refunded, row, granted, reopened, edits>>

Dispatch(w) == GrantCredits(w) \/ GrantThrows(w) \/ RecordGrantFailure(w)
Scan(s) ==
    \/ StartScan(s) \/ Activate(s) \/ Complete(s) \/ ListWinners(s)
    \/ BeginRows(s) \/ InsertRows(s) \/ InsertThrows(s) \/ Dispatch(s)
Request(q) ==
    \/ \E u \in Users : CheckPlay(q, u) \/ RetryDisbursement(q, u)
    \/ CommitPlay(q) \/ RejectPlay(q) \/ Dispatch(q)
    \/ CancelChallenge(q) \/ ListPlayers(q) \/ RefundPlayer(q) \/ RefundThrows(q)

Next ==
    \/ \E s \in Scans : Scan(s)
    \/ \E q \in Requests : Request(q)
    \/ \E s \in (Statuses \ {"cancelled"}) \cup {status}, ph \in Phases : UpdateChallenge(s, ph)
    \/ TimePasses \/ Crash

Spec == Init /\ [][Next]_vars

-----------------------------------------------------------------------------
(* Properties                                                               *)

\* "Charge and participation commit together" (challenge.service.ts:282-283):
\* of any number of submissions of one user, racing each other and a cancel, one
\* is charged, and it is the one that plays.
ChargedIffPlaying == \A u \in Users : charged[u] = IF u \in players THEN 1 ELSE 0

\* "A retry can never grant twice" (disbursement.service.ts:79-80): a winner has
\* the bonus exactly when the row says so, through lost commits, errors, retries
\* by several administrators, a second completion and restarts.
GrantedIffSuccessful == \A u \in Users : granted[u] = IF row[u] = "successful" THEN 1 ELSE 0

\* Without a restart or a lost commit no prize is left behind: a pending row is
\* always in the hands of a run or a retry that will settle it.  (After one it
\* stays pending: no job takes bonus rows, and a retry takes failed ones only.)
PendingPrizeIsInHand ==
    faults = 0 => \A u \in Users : row[u] = "pending" =>
        \E w \in Workers : job[w].step \in {"grant", "fail"} /\ u \in job[w].todo

\* However many runs complete it, a challenge that was not reopened has no more
\* winners than it has prizes (createDisbursementsForChallenge, phase 1).
PrizesWithinLimit == ~reopened => Cardinality(Winners) <= NumberOfWinners

\* The three above: what winners hold is what the rows say and no more.
PrizesFollowRows ==
    GrantedIffSuccessful /\ PendingPrizeIsInHand /\ PrizesWithinLimit

\* "Prevent double-refund race condition" (challenge.service.ts:752): unless an
\* ended challenge is made active again, racing cancels and completions give
\* nobody back more than one credit, and nobody both a refund and a prize.
RefundedOnceUnlessReopened ==
    ~reopened => \A u \in Users : refunded[u] <= 1 /\ (refunded[u] = 1 => row[u] = "none")

\* A completed or cancelled challenge changes only by a PATCH, or by a run that
\* read it while it was scheduled and activates it unconditionally.
OnlyStaleScanIfChanged ==
    (status \in Ended /\ status' # status) =>
        (edits' # edits \/ \E s \in Scans : Does(s, "activate") /\ status' = "active")

EndedChangesOnlyByStaleScan == [][OnlyStaleScanIfChanged]_vars

\* What the comment claims (challenge.service.ts:752) and a stale scan breaks.
RefundedAtMostOnce == edits = 0 => \A u \in Users : refunded[u] <= 1
=============================================================================
