----------------------------- MODULE CallRefund -----------------------------
(***************************************************************************)
(* The one credit a call reserves (src/src/module/call/call.service.ts,     *)
(* refundCredits of src/src/module/credit/credit.service.ts).  The credit   *)
(* is taken with the call; a call that ends unserved gives it back in three *)
(* separate writes - creditsUsed to zero, the balance up, a ledger row -    *)
(* and a sweep repeats what failed.  Any of the writes can fail, or can     *)
(* take effect while its answer is lost, and the process can crash between  *)
(* any two.                                                                 *)
(***************************************************************************)
EXTENDS Integers

CONSTANTS
    Calls,
    MaxErrors     \* bound: failed writes, lost answers and crashes together

ASSUME MaxErrorsAssumption == MaxErrors \in Nat

VARIABLES
    status,       \* Call.status; "missed" stands for missed, cancelled, rejected
    creditsUsed,  \* Call.creditsUsed
    returned,     \* what the listener's balance got back for the call
    ledger,       \* call_refund rows of the call
    due,          \* calls that ended more than two minutes ago
    jobs,         \* refunds in progress
    stranded,     \* history: credits zeroed on the call and never returned
    repeated,     \* history: credits put back on the call though returned
    errors

vars == <<status, creditsUsed, returned, ledger, due, jobs, stranded, repeated, errors>>

\* A refund of refundIfQueued, begun by whoever ended the call or by the sweep.
\* (paid is history: the job itself does not know whether a failed write took.)
Job == [call : Calls, by : {"ender", "sweep"}, paid : BOOLEAN,
        next : {"check", "reconcile", "zero", "increment", "record", "restore"}]

TypeOK ==
    /\ status      \in [Calls -> {"queued", "answered", "missed", "completed"}]
    /\ creditsUsed \in [Calls -> {0, 1}]
    /\ returned    \in [Calls -> Nat]
    /\ ledger      \in [Calls -> Nat]
    /\ due         \subseteq Calls
    /\ jobs        \subseteq Job
    /\ stranded    \in [Calls -> Nat]
    /\ repeated    \in [Calls -> Nat]
    /\ errors      \in 0..MaxErrors

\* requestCall created the call and took its credit in one transaction.
Init ==
    /\ status      = [c \in Calls |-> "queued"]
    /\ creditsUsed = [c \in Calls |-> 1]
    /\ returned    = [c \in Calls |-> 0]
    /\ ledger      = [c \in Calls |-> 0]
    /\ due         = {}
    /\ jobs        = {}
    /\ stranded    = [c \in Calls |-> 0]
    /\ repeated    = [c \in Calls |-> 0]
    /\ errors      = 0

-----------------------------------------------------------------------------
(* The call                                                                 *)

Answer(c) ==
    /\ status[c] = "queued"
    /\ status' = [status EXCEPT ![c] = "answered"]
    /\ UNCHANGED <<creditsUsed, returned, ledger, due, jobs, stranded, repeated, errors>>

Complete(c) ==
    /\ status[c] = "answered"
    /\ status' = [status EXCEPT ![c] = "completed"]
    /\ UNCHANGED <<creditsUsed, returned, ledger, due, jobs, stranded, repeated, errors>>

\* Any ending without service: hung up, cancelled, rejected or timed out in the
\* queue, or answered and never joined.  Whoever ends it goes on to refund it.
EndUnserved(c) ==
    /\ status[c] \in {"queued", "answered"}
    /\ status' = [status EXCEPT ![c] = "missed"]
    /\ jobs'   = jobs \cup {[call |-> c, by |-> "ender", paid |-> FALSE, next |-> "zero"]}
    /\ UNCHANGED <<creditsUsed, returned, ledger, due, stranded, repeated, errors>>

-----------------------------------------------------------------------------
(* The writes of a refund                                                   *)

\* How a write can end: it takes effect; it fails; it takes effect and the
\* caller sees a failure.
Outcomes == {"done", "failed", "unanswered"}

Counted(o) ==
    /\ o # "done" => errors < MaxErrors
    /\ errors' = IF o = "done" THEN errors ELSE errors + 1

TakesEffect(o) == o # "failed"

Proceed(j, k) == jobs' = (jobs \ {j}) \cup {k}
Give(j)       == jobs' = jobs \ {j}

\* Mutants of Refundable and ZeroCredits: the claim on the credit is dropped, or
\* the credit is decremented instead.
RefundableByStatus(c) == status[c] \in {"queued", "missed"}
ZeroCreditsDecrement(j, o) ==
    /\ j.next = "zero"
    /\ Counted(o)
    /\ creditsUsed' = [creditsUsed EXCEPT ![j.call] = @ - 1]
    /\ Proceed(j, [j EXCEPT !.next = "increment"])
    /\ UNCHANGED <<status, returned, ledger, due, stranded, repeated>>

Refundable(c) == status[c] \in {"queued", "missed"} /\ creditsUsed[c] > 0

\* The atomic claim.  When its answer is lost nobody knows that it was zeroed.
ZeroCredits(j, o) ==
    /\ j.next = "zero"
    /\ Counted(o)
    /\ creditsUsed' = IF TakesEffect(o) /\ Refundable(j.call)
                      THEN [creditsUsed EXCEPT ![j.call] = 0] ELSE creditsUsed
    /\ IF o = "done" /\ Refundable(j.call)
       THEN Proceed(j, [j EXCEPT !.next = "increment"])
       ELSE Give(j)
    /\ stranded' = IF o = "unanswered" /\ Refundable(j.call)
                   THEN [stranded EXCEPT ![j.call] = @ + 1] ELSE stranded
    /\ UNCHANGED <<status, returned, ledger, due, repeated>>

IncrementBalance(j, o) ==
    /\ j.next = "increment"
    /\ Counted(o)
    /\ returned' = IF TakesEffect(o) THEN [returned EXCEPT ![j.call] = @ + 1] ELSE returned
    /\ Proceed(j, [j EXCEPT !.next = IF o = "done" THEN "record" ELSE "restore",
                            !.paid = TakesEffect(o)])
    /\ UNCHANGED <<status, creditsUsed, ledger, due, stranded, repeated>>

RecordRefund(j, o) ==
    /\ j.next = "record"
    /\ Counted(o)
    /\ ledger' = IF TakesEffect(o) THEN [ledger EXCEPT ![j.call] = @ + 1] ELSE ledger
    /\ IF o = "done" THEN Give(j) ELSE Proceed(j, [j EXCEPT !.next = "restore"])
    /\ UNCHANGED <<status, creditsUsed, returned, due, stranded, repeated>>

\* Mutant: a failed refund is only logged.
RestoreCreditsForgotten(j, o) ==
    /\ j.next = "restore"
    /\ Counted(o)
    /\ Give(j)
    /\ UNCHANGED <<status, creditsUsed, returned, ledger, due, stranded, repeated>>

\* The catch of refundIfQueued, whatever it was that failed.  Its own failure is
\* swallowed.
RestoreCredits(j, o) ==
    LET restored == TakesEffect(o) /\ creditsUsed[j.call] = 0
    IN  /\ j.next = "restore"
        /\ Counted(o)
        /\ creditsUsed' = IF restored THEN [creditsUsed EXCEPT ![j.call] = 1] ELSE creditsUsed
        /\ Give(j)
        /\ stranded' = IF ~restored /\ ~j.paid
                       THEN [stranded EXCEPT ![j.call] = @ + 1] ELSE stranded
        /\ repeated' = IF restored /\ j.paid
                       THEN [repeated EXCEPT ![j.call] = @ + 1] ELSE repeated
        /\ UNCHANGED <<status, returned, ledger, due>>

-----------------------------------------------------------------------------
(* Refund recovery of cleanupStaleCalls, one call after the other.  (Its 24  *)
(* hours hold 48 sweeps, more than MaxErrors, and its page of 100 calls more *)
(* than Calls, so neither limit shows.)                                      *)

SweepRefund(c) ==
    /\ \A j \in jobs : j.by # "sweep"
    /\ status[c] = "missed" /\ creditsUsed[c] > 0 /\ c \in due
    /\ jobs' = jobs \cup {[call |-> c, by |-> "sweep", paid |-> FALSE, next |-> "check"]}
    /\ UNCHANGED <<status, creditsUsed, returned, ledger, due, stranded, repeated, errors>>

\* The existence test for a call_refund row; a failed read skips the call.
CheckLedger(j, o) ==
    /\ j.next = "check"
    /\ Counted(o)
    /\ IF o # "done" THEN Give(j)
       ELSE Proceed(j, [j EXCEPT !.next = IF ledger[j.call] > 0 THEN "reconcile" ELSE "zero"])
    /\ UNCHANGED <<status, creditsUsed, returned, ledger, due, stranded, repeated>>

\* Already refunded: only the call is put right, which settles a repetition.
Reconcile(j, o) ==
    /\ j.next = "reconcile"
    /\ Counted(o)
    /\ Give(j)
    /\ creditsUsed' = IF TakesEffect(o) THEN [creditsUsed EXCEPT ![j.call] = 0] ELSE creditsUsed
    /\ repeated' = IF TakesEffect(o) /\ creditsUsed[j.call] = 1
                   THEN [repeated EXCEPT ![j.call] = @ - 1] ELSE repeated
    /\ UNCHANGED <<status, returned, ledger, due, stranded>>

TwoMinutesPass(c) ==
    /\ status[c] = "missed" /\ c \notin due
    /\ due' = due \cup {c}
    /\ UNCHANGED <<status, creditsUsed, returned, ledger, jobs, stranded, repeated, errors>>

\* The credit of c that a job has taken off the call and not yet returned.
InFlight(c) ==
    IF \E j \in jobs : j.call = c /\ ~j.paid /\ j.next \in {"increment", "restore"} THEN 1 ELSE 0

Crash ==
    /\ errors < MaxErrors
    /\ errors'   = errors + 1
    /\ jobs'     = {}
    /\ stranded' = [c \in Calls |-> stranded[c] + InFlight(c)]
    /\ UNCHANGED <<status, creditsUsed, returned, ledger, due, repeated>>

Write(j, o) ==
    \/ ZeroCredits(j, o) \/ IncrementBalance(j, o) \/ RecordRefund(j, o)
    \/ RestoreCredits(j, o) \/ CheckLedger(j, o) \/ Reconcile(j, o)

Next ==
    \/ \E c \in Calls : Answer(c) \/ Complete(c) \/ EndUnserved(c)
    \/ \E c \in Calls : SweepRefund(c) \/ TwoMinutesPass(c)
    \/ \E j \in jobs, o \in Outcomes : Write(j, o)
    \/ Crash

Spec == Init /\ [][Next]_vars

\* Requests and sweeps go on to their end, clocks advance, the sweep comes back.
Fairness ==
    \A c \in Calls :
        /\ WF_vars(\E j \in jobs, o \in Outcomes : j.call = c /\ Write(j, o))
        /\ WF_vars(TwoMinutesPass(c))
        /\ WF_vars(SweepRefund(c))
FairSpec == Spec /\ Fairness

-----------------------------------------------------------------------------
(* Properties                                                               *)

\* The atomic zeroing admits one refund of a call at a time, the ender's or the
\* sweep's, however they overlap (call.service.ts:41-49).
OneRefundInFlight ==
    \A j, k \in jobs :
        (j.call = k.call /\ j # k) =>
            ~({j.next, k.next} \subseteq {"increment", "record", "restore"})

\* A call's credit is in exactly one place: reserved on the call, being moved,
\* or back with the listener - up to the two accidents the histories count.
CreditIsConserved ==
    \A c \in Calls :
        creditsUsed[c] + InFlight(c) + returned[c] + stranded[c] = 1 + repeated[c]

\* The credit of a call that ended unserved comes back, through failed writes
\* and crashes, unless it was stranded (call.service.ts:61-62, 1238-1239).
RefundArrives ==
    \A c \in Calls :
        status[c] = "missed" ~> returned[c] > 0 \/ stranded[c] > 0

\* What comments claim and the code breaks.
\* "only if no refund transaction exists yet - never double refund"
\* (call.service.ts:1239).
NeverDoubleRefund == \A c \in Calls : returned[c] <= 1

\* "All calls that reach the station cost 1 credit, regardless of outcome"
\* (call.model.ts:11).
EveryCallCostsItsCredit ==
    \A c \in Calls : status[c] \notin {"queued", "answered"} => returned[c] = 0
=============================================================================
