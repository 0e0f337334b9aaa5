----------------------------- MODULE CreditLedger -----------------------------
(***************************************************************************)
(* One listener's credits (src/src/module/credit): the CreditBalance document *)
(* with its split into free and paid credits, and the CreditTransaction rows  *)
(* (the ledger), under concurrent charges, grants, refunds, purchases and the *)
(* repair that runs after a start.  A charge runs in a MongoDB transaction,   *)
(* but reads the split it takes the credits from outside that transaction.    *)
(***************************************************************************)
EXTENDS Totals

CONSTANTS
    Tasks,         \* requests of the listener and of administrators in flight at once
    Sync,          \* the repair at startup
    Amounts,       \* amounts of grants, refunds and purchases, and costs
    MaxGiven,      \* bound: credits ever given to the listener
    MaxRestarts    \* bound: restarts of the process

ASSUME TasksAssumption  == Sync \notin Tasks /\ IsFiniteSet(Tasks)
ASSUME AmountAssumption == Amounts \subseteq Nat \ {0}
ASSUME BoundsAssumption == MaxGiven \in Nat /\ MaxRestarts \in Nat

VARIABLES
    doc,          \* the CreditBalance document
    ledger,       \* the sum of the amounts of the CreditTransaction rows
    unrecorded,   \* history: increments whose ledger row was never written
    sources,      \* which of "admin_grant" and "purchase" rows exist
    job,          \* what each task does next
    skewed,       \* history: the split was changed by a stale reading of it
    given, restarts

vars == <<doc, ledger, unrecorded, sources, job, skewed, given, restarts>>

Workers == Tasks \cup {Sync}

(* pinned: a write of the transaction's own (the message, the call) came     *)
(* first, so its snapshot is older than its reading of the split; stale: the *)
(* document has changed since the snapshot.  amount: the cost of a charge,   *)
(* the amount to record, or the balance the repair read.                     *)
Job  == [step : {"idle", "read", "charge", "record", "check", "repair", "reset"},
         pinned : BOOLEAN, stale : BOOLEAN, amount : Nat, free : Nat, paid : Nat]
Idle == [step |-> "idle", pinned |-> FALSE, stale |-> FALSE, amount |-> 0, free |-> 0, paid |-> 0]

TypeOK ==
    /\ doc        \in [balance : Int, free : Int, paid : Int]
    /\ ledger     \in Int
    /\ unrecorded \in 0..MaxGiven
    /\ sources    \subseteq {"admin_grant", "purchase"}
    /\ job        \in [Workers -> Job]
    /\ skewed     \in BOOLEAN
    /\ given      \in 0..MaxGiven
    /\ restarts   \in 0..MaxRestarts

Init ==
    /\ doc        = [balance |-> 0, free |-> 0, paid |-> 0]
    /\ ledger     = 0
    /\ unrecorded = 0
    /\ sources    = {}
    /\ job        = [w \in Workers |-> Idle]
    /\ skewed     = FALSE
    /\ given      = 0
    /\ restarts   = 0

NotNegative(n) == IF n > 0 THEN n ELSE 0
Least(m, n)    == IF m < n THEN m ELSE n

Changed(balance, free, paid) ==
    doc' = [balance |-> doc.balance + balance, free |-> doc.free + free, paid |-> doc.paid + paid]

\* Whoever has a snapshot will find the document changed.
Outdated(w)       == [job[w] EXCEPT !.stale = job[w].pinned]
AfterChange(w, j) == job' = [v \in Workers |-> IF v = w THEN j ELSE Outdated(v)]

Goes(w, j) == job' = [job EXCEPT ![w] = j]

-----------------------------------------------------------------------------
(* Charges: deductCredits in runTransaction, or for an administrator.       *)

\* A message or a call is created first; a challenge, a channel poll and an
\* administrator's deduction start with the charge.
StartCharge(t) ==
    /\ job[t].step = "idle"
    /\ \E pinned \in BOOLEAN, cost \in Amounts :
          Goes(t, [Idle EXCEPT !.step = "read", !.pinned = pinned, !.amount = cost])
    /\ UNCHANGED <<doc, ledger, unrecorded, sources, skewed, given, restarts>>

\* j with the split read now.
Fresh(j) == [j EXCEPT !.free = NotNegative(doc.free), !.paid = NotNegative(doc.paid)]

ReadSplit(t) ==
    /\ job[t].step = "read"
    /\ Goes(t, [Fresh(job[t]) EXCEPT !.step = "charge"])
    /\ UNCHANGED <<doc, ledger, unrecorded, sources, skewed, given, restarts>>

\* What a charge takes of the split it read: free credits first.
FreeShare(j) == Least(j.free, j.amount)
PaidShare(j) == Least(j.paid, j.amount - FreeShare(j))

\* A split read earlier is charged otherwise than the split there is now.
Skews(j) == FreeShare(j) # FreeShare(Fresh(j)) \/ PaidShare(j) # PaidShare(Fresh(j))

\* Mutants: the update has no {balance: {$gte: amount}}; a write to a document
\* changed since the snapshot goes through.
AffordableAlways(j) == TRUE
ConflictsNever(j)   == FALSE

Affordable(j) == doc.balance >= j.amount
Conflicts(j)  == j.pinned /\ j.stale

\* The update, the ledger row and the commit, which no other write can come between.
Charge(t) ==
    LET j == job[t] IN
    /\ j.step = "charge"
    /\ ~Conflicts(j) /\ Affordable(j)
    /\ Changed(-j.amount, -FreeShare(j), -PaidShare(j))
    /\ ledger' = ledger - j.amount
    /\ skewed' = (skewed \/ Skews(j))
    /\ AfterChange(t, Idle)
    /\ UNCHANGED <<unrecorded, sources, given, restarts>>

\* A write conflict: the transaction runs again, with a new snapshot.
RetryCharge(t) ==
    /\ job[t].step = "charge"
    /\ Conflicts(job[t])
    /\ Goes(t, [Idle EXCEPT !.step = "read", !.pinned = TRUE, !.amount = job[t].amount])
    /\ UNCHANGED <<doc, ledger, unrecorded, sources, skewed, given, restarts>>

\* "Insufficient credits", or any error: the transaction leaves nothing behind.
AbortCharge(t) ==
    /\ job[t].step = "charge"
    /\ Goes(t, Idle)
    /\ UNCHANGED <<doc, ledger, unrecorded, sources, skewed, given, restarts>>

-----------------------------------------------------------------------------
(* Credits coming in.                                                       *)

\* addCredits and refundCredits without a session: the balance, then the row.
Increment(t, n, isFree) ==
    /\ job[t].step = "idle"
    /\ given + n <= MaxGiven
    /\ given' = given + n
    /\ Changed(n, IF isFree THEN n ELSE 0, IF isFree THEN 0 ELSE n)
    /\ AfterChange(t, [Idle EXCEPT !.step = "record", !.amount = n])
    /\ UNCHANGED <<ledger, unrecorded, sources, skewed, restarts>>

\* The row is that of a grant or of a refund.
Record(t) ==
    /\ job[t].step = "record"
    /\ ledger' = ledger + job[t].amount
    /\ sources' \in {sources, sources \cup {"admin_grant"}}
    /\ Goes(t, Idle)
    /\ UNCHANGED <<doc, unrecorded, skewed, given, restarts>>

RecordThrows(t) ==
    /\ job[t].step = "record"
    /\ unrecorded' = unrecorded + job[t].amount
    /\ Goes(t, Idle)
    /\ UNCHANGED <<doc, ledger, sources, skewed, given, restarts>>

\* Mutant: the ledger row of a purchase is written without the session, and the
\* transaction may abort after it.
PurchaseRowFirst(n) ==
    /\ given + n <= MaxGiven
    /\ given'   = given + n
    /\ ledger'  = ledger + n
    /\ sources' = sources \cup {"purchase"}
    /\ UNCHANGED <<doc, unrecorded, job, skewed, restarts>>

\* completePaymentOnce; rewardChallengeWinner likewise, as free credits without a source.
Purchase(n) ==
    /\ given + n <= MaxGiven
    /\ given' = given + n
    /\ \/ Changed(n, 0, n) /\ sources' = sources \cup {"purchase"}
       \/ Changed(n, n, 0) /\ UNCHANGED sources
    /\ ledger' = ledger + n
    /\ job' = [w \in Workers |-> Outdated(w)]
    /\ UNCHANGED <<unrecorded, skewed, restarts>>

-----------------------------------------------------------------------------
(* syncFreeListenerStatements, once after each start, among the requests.   *)

CheckSources ==
    /\ job[Sync].step = "check"
    /\ Goes(Sync, IF sources = {"admin_grant"} THEN [Idle EXCEPT !.step = "repair"] ELSE Idle)
    /\ UNCHANGED <<doc, ledger, unrecorded, sources, skewed, given, restarts>>

ReadBalance ==
    /\ job[Sync].step = "repair"
    /\ Goes(Sync, [Idle EXCEPT !.step = "reset", !.amount = doc.balance])
    /\ UNCHANGED <<doc, ledger, unrecorded, sources, skewed, given, restarts>>

\* Every credit becomes a free one.
ResetSplit ==
    /\ job[Sync].step = "reset"
    /\ doc' = [doc EXCEPT !.free = job[Sync].amount, !.paid = 0]
    /\ skewed' = (skewed \/ job[Sync].amount # doc.balance)
    /\ AfterChange(Sync, Idle)
    /\ UNCHANGED <<ledger, unrecorded, sources, given, restarts>>

-----------------------------------------------------------------------------

\* Increments whose ledger row is still to be written.
OwedBy(t) == IF job[t].step = "record" THEN job[t].amount ELSE 0
Owed      == Total([t \in Tasks |-> OwedBy(t)], Tasks)

\* A restart ends every request; open transactions abort, ledger rows stay unwritten.
Restart ==
    /\ restarts < MaxRestarts
    /\ restarts' = restarts + 1
    /\ unrecorded' = unrecorded + Owed
    /\ job' = [w \in Workers |-> IF w = Sync THEN [Idle EXCEPT !.step = "check"] ELSE Idle]
    /\ UNCHANGED <<doc, ledger, sources, skewed, given>>

Next ==
    \/ \E t \in Tasks :
          \/ StartCharge(t) \/ ReadSplit(t) \/ Charge(t) \/ RetryCharge(t) \/ AbortCharge(t)
          \/ Record(t) \/ RecordThrows(t)
          \/ \E n \in Amounts, isFree \in BOOLEAN : Increment(t, n, isFree)
    \/ \E n \in Amounts : Purchase(n)
    \/ CheckSources \/ ReadBalance \/ ResetSplit \/ Restart

Spec == Init /\ [][Next]_vars
-----------------------------------------------------------------------------
(* Properties                                                               *)

\* "Never below zero" (shared/__tests__/concurrency.test.ts:114): whatever
\* charges, deductions and retries overlap, the balance pays for all that commit.
BalanceNeverNegative == doc.balance >= 0

\* The ledger explains the balance but for the increments whose row is still to be
\* written or was lost: no charge, purchase or repair moves one without the other.
LedgerExplainsBalance == doc.balance = ledger + Owed + unrecorded

\* Until a charge or the repair acts on an outdated reading, free and paid credits
\* are what the balance consists of, and neither is overdrawn.
SplitIsBalance ==
    ~skewed => doc.free + doc.paid = doc.balance /\ doc.free >= 0 /\ doc.paid >= 0

\* The three above: what the balance document says is explained and covered.
BalanceIsExplained == BalanceNeverNegative /\ LedgerExplainsBalance /\ SplitIsBalance

\* Messages and calls never act on an outdated reading: their transaction has its
\* snapshot before the reading, and conflicts.  The others do.
OnlyLateReadersSkew ==
    [][(~skewed /\ skewed') =>
          \/ \E t \in Tasks : job[t].step = "charge" /\ ~job[t].pinned /\ job'[t].step = "idle"
          \/ job[Sync].step = "reset"]_vars

\* What the schema says (creditBalance.model.ts:9, "min: 0") and $inc does not heed.
FreeNeverNegative == doc.free >= 0
=============================================================================
