------------------------------- MODULE Payment -------------------------------
(***************************************************************************)
(* Mobile money top-ups (src/src/module/payment).  A user buys credits; the *)
(* server stores a PaymentTransaction, pushes a collection request to the   *)
(* gateway (Airtel or PayLeo), and learns of the outcome from callbacks,    *)
(* from status enquiries and from a periodic reconciler.  Callbacks may be  *)
(* delayed, duplicated, reordered or lost; the push may time out although   *)
(* the gateway acts on it; the process may crash between any two awaits.    *)
(***************************************************************************)
EXTENDS Integers, FiniteSets, TLC

CONSTANTS
    Payments,      \* ids of payment attempts; their order is that of createdAt
    Routings,      \* the ways attempts may be routed: each the set sent to Airtel
    Requests,      \* webhook and status requests that may be in flight at once
    Reconciler,    \* the reconciler's own thread of control
    EnforceAuth,   \* AIRTEL_CALLBACK_AUTH is "enforce": callbacks are trusted
    BatchLimit,    \* .limit(50) of the reconciler's query
    MaxCrashes,    \* bound: restarts of the process
    MaxUnproven    \* bound: callbacks that did not come from the gateway

ASSUME PaymentsAssumption == Payments \subseteq Nat /\ Routings \subseteq SUBSET Payments
ASSUME WorkersAssumption  == Reconciler \notin Requests
ASSUME BoundsAssumption   == /\ EnforceAuth \in BOOLEAN
                             /\ BatchLimit \in Nat \ {0}
                             /\ MaxCrashes \in Nat
                             /\ MaxUnproven \in Nat

VARIABLES
    airtel,      \* attempts whose row has provider "airtel", by the carrier of the number
    status,      \* PaymentTransaction.status of each attempt
    credited,    \* how many "purchase" rows (and increments) an attempt caused
    age,         \* how old the row is, against the code's thresholds
    push,        \* where initiatePayment stands
    wallet,      \* the gateway's own record of the attempt (external)
    callbacks,   \* callbacks that were sent; any may arrive, any number of times
    jobs,        \* requests and the reconciler, suspended before their next effect
    sweep,       \* the reconciler's run: rows still to ask about, rows past expiry
    crashes

vars == <<airtel, status, credited, age, push, wallet, callbacks, jobs, sweep, crashes>>

Workers == Requests \cup {Reconciler}

(* Ages of a row: below 20 s, old enough for the app's poll (20 s), due for *)
(* the reconciler (3 min), past the provider's deadline (24 h for Airtel,   *)
(* PAYLEO_PENDING_TIMEOUT_MINUTES for PayLeo).                              *)
Fresh    == 0
Pollable == 1
Due      == 2
Expired  == 3

Status   == {"none", "pending", "processing", "completed", "failed"}
Verdicts == {"paid", "wrongAmount", "failed"}
Callback == [pay : Payments, verdict : Verdicts, from : {"gateway", "unknown"}]
Job      == [by : Workers, next : {"enquire", "complete", "fail"}, pay : Payments]
Sweep    == [active : BOOLEAN, batch : SUBSET Payments, overdue : SUBSET Payments]
NoSweep  == [active |-> FALSE, batch |-> {}, overdue |-> {}]

TypeOK ==
    /\ airtel    \subseteq Payments
    /\ status    \in [Payments -> Status]
    /\ credited  \in [Payments -> Nat]
    /\ age       \in [Payments -> Fresh..Expired]
    /\ push      \in [Payments -> {"idle", "calling", "failing", "accepted", "failed", "orphaned"}]
    /\ wallet    \in [Payments -> {"unasked", "asked", "collected", "declined"}]
    /\ callbacks \subseteq Callback
    /\ jobs      \subseteq Job
    /\ sweep     \in Sweep
    /\ crashes   \in 0..MaxCrashes

Init ==
    /\ airtel    \in Routings
    /\ status    = [p \in Payments |-> "none"]
    /\ credited  = [p \in Payments |-> 0]
    /\ age       = [p \in Payments |-> Fresh]
    /\ push      = [p \in Payments |-> "idle"]
    /\ wallet    = [p \in Payments |-> "unasked"]
    /\ callbacks = {}
    /\ jobs      = {}
    /\ sweep     = NoSweep
    /\ crashes   = 0

Idle(w) == \A j \in jobs : j.by # w

-----------------------------------------------------------------------------
(* initiatePayment: the row is created before the push, and the answer to   *)
(* the push is applied in a later step.                                     *)

InitiatePayment(p) ==
    /\ status[p] = "none"
    /\ \A q \in Payments : q < p => status[q] # "none"
    /\ status' = [status EXCEPT ![p] = "pending"]
    /\ push'   = [push EXCEPT ![p] = "calling"]
    /\ UNCHANGED <<airtel, credited, age, wallet, callbacks, jobs, sweep, crashes>>

\* The gateway took the request and says so.
PushAccepted(p) ==
    /\ push[p] = "calling"
    /\ wallet[p] # "unasked"
    /\ push' = [push EXCEPT ![p] = "accepted"]
    /\ UNCHANGED <<airtel, status, credited, age, wallet, callbacks, jobs, sweep, crashes>>

\* success: false, either because the gateway refused, and will never prompt
\* the subscriber, or because the call timed out (30 s), whatever the gateway did.
PushUnsuccessful(p) ==
    /\ push[p] = "calling"
    /\ push' = [push EXCEPT ![p] = "failing"]
    /\ \/ /\ wallet[p] = "unasked"
          /\ wallet' = [wallet EXCEPT ![p] = "declined"]
       \/ UNCHANGED wallet
    /\ UNCHANGED <<airtel, status, credited, age, callbacks, jobs, sweep, crashes>>

\* findByIdAndUpdate(payment._id, {status: "failed"}): not conditional on status.
RecordPushFailure(p) ==
    /\ push[p] = "failing"
    /\ status' = [status EXCEPT ![p] = "failed"]
    /\ push'   = [push EXCEPT ![p] = "failed"]
    /\ UNCHANGED <<airtel, credited, age, wallet, callbacks, jobs, sweep, crashes>>

-----------------------------------------------------------------------------
(* The gateway and its callbacks (external).                                *)

GatewayPrompts(p) ==
    /\ push[p] # "idle"
    /\ wallet[p] = "unasked"
    /\ wallet' = [wallet EXCEPT ![p] = "asked"]
    /\ UNCHANGED <<airtel, status, credited, age, push, callbacks, jobs, sweep, crashes>>

\* The subscriber enters the PIN.  PayLeo may report another amount.
GatewayCollects(p) ==
    /\ wallet[p] = "asked"
    /\ wallet' = [wallet EXCEPT ![p] = "collected"]
    /\ \E v \in {"paid"} \cup (IF p \in airtel THEN {} ELSE {"wrongAmount"}) :
          callbacks' = callbacks \cup {[pay |-> p, verdict |-> v, from |-> "gateway"]}
    /\ UNCHANGED <<airtel, status, credited, age, push, jobs, sweep, crashes>>

GatewayDeclines(p) ==
    /\ wallet[p] = "asked"
    /\ wallet' = [wallet EXCEPT ![p] = "declined"]
    /\ callbacks' = callbacks \cup {[pay |-> p, verdict |-> "failed", from |-> "gateway"]}
    /\ UNCHANGED <<airtel, status, credited, age, push, jobs, sweep, crashes>>

\* The webhooks answer whoever calls them: the IP allowlists are empty unless they
\* are configured, PayLeo's raw XML carries no signature, and Airtel's hash only
\* counts in "enforce" mode.  A callback with either verdict may then name any row,
\* whatever the gateway did.
UnprovenCallback(p) ==
    /\ status[p] # "none"
    /\ p \in airtel => ~EnforceAuth
    /\ Cardinality({c \in callbacks : c.from = "unknown"}) < MaxUnproven
    /\ \E v \in {"paid", "failed"} :
          callbacks' = callbacks \cup {[pay |-> p, verdict |-> v, from |-> "unknown"]}
    /\ UNCHANGED <<airtel, status, credited, age, push, wallet, jobs, sweep, crashes>>

-----------------------------------------------------------------------------
(* Requests.  Each reads the row, and the effect it decided on happens in a *)
(* later step, when the row may have changed.                               *)

Suspend(w, next, p) == jobs' = jobs \cup {[by |-> w, next |-> next, pay |-> p]}

\* A callback with an unknown method or status code changes nothing.
AfterPayLeoCallback(verdict) == IF verdict = "paid" THEN "complete" ELSE "fail"

\* Mutant: the confirming enquiry is forgotten.
AfterAirtelCallbackTrusting(verdict) == IF verdict = "paid" THEN "complete" ELSE "fail"

\* A trusted "TS" is applied; any other is confirmed with an enquiry first.
AfterAirtelCallback(verdict) ==
    IF verdict = "failed" THEN "fail" ELSE IF EnforceAuth THEN "complete" ELSE "enquire"

HandlePayLeoCallback(r, c) ==
    /\ Idle(r)
    /\ c.pay \notin airtel
    /\ status[c.pay] # "completed"
    /\ Suspend(r, AfterPayLeoCallback(c.verdict), c.pay)
    /\ UNCHANGED <<airtel, status, credited, age, push, wallet, callbacks, sweep, crashes>>

HandleAirtelWebhook(r, c) ==
    /\ Idle(r)
    /\ c.pay \in airtel
    /\ status[c.pay] # "completed"
    /\ Suspend(r, AfterAirtelCallback(c.verdict), c.pay)
    /\ UNCHANGED <<airtel, status, credited, age, push, wallet, callbacks, sweep, crashes>>

\* The app's poll.  Its 10 s throttle per payment only makes it rarer.
GetPaymentStatus(r, p) ==
    /\ Idle(r)
    /\ p \in airtel
    /\ status[p] = "pending"
    /\ age[p] >= Pollable
    /\ Suspend(r, "enquire", p)
    /\ UNCHANGED <<airtel, status, credited, age, push, wallet, callbacks, sweep, crashes>>

\* What Airtel's enquiry can say of an attempt: a final state once there is
\* one, and "not known yet" at any time (in progress, HTTP error, no token).
EnquiryAnswers(p) ==
    {"PENDING"} \cup (IF wallet[p] = "collected" THEN {"SUCCESS"} ELSE {})
                \cup (IF wallet[p] = "declined"  THEN {"FAILED"}  ELSE {})

\* Mutant: "not known yet" is taken for a failure.
AfterEnquiryHasty(j, answer) == IF answer = "SUCCESS" THEN "complete" ELSE "fail"

\* The reconciler expires a row whose enquiry stayed inconclusive past 24 h.
AfterEnquiry(j, answer) ==
    IF answer = "SUCCESS" THEN "complete"
    ELSE IF answer = "FAILED" \/ (j.by = Reconciler /\ j.pay \in sweep.overdue) THEN "fail"
    ELSE "ignore"

Enquire(j, answer) ==
    /\ j.next = "enquire"
    /\ jobs' = (jobs \ {j}) \cup
               (IF AfterEnquiry(j, answer) = "ignore" THEN {}
                ELSE {[j EXCEPT !.next = AfterEnquiry(j, answer)]})
    /\ UNCHANGED <<airtel, status, credited, age, push, wallet, callbacks, sweep, crashes>>

\* Mutants: a conditional update that also matches completed rows.
CreditableOrCompleted == {"pending", "processing", "failed", "completed"}
OpenOrCompleted       == {"pending", "processing", "completed"}

\* The statuses from which completePaymentOnce and failPayment move a row.
Creditable == {"pending", "processing", "failed"}
Open       == {"pending", "processing"}

\* One MongoDB transaction: the conditional status update, the balance
\* increment and the "purchase" row.  A row that does not match is a duplicate.
CompletePayment(j) ==
    /\ j.next = "complete"
    /\ IF status[j.pay] \in Creditable
       THEN /\ status'   = [status EXCEPT ![j.pay] = "completed"]
            /\ credited' = [credited EXCEPT ![j.pay] = @ + 1]
       ELSE UNCHANGED <<status, credited>>
    /\ jobs' = jobs \ {j}
    /\ UNCHANGED <<airtel, age, push, wallet, callbacks, sweep, crashes>>

FailPayment(j) ==
    /\ j.next = "fail"
    /\ status' = IF status[j.pay] \in Open THEN [status EXCEPT ![j.pay] = "failed"] ELSE status
    /\ jobs' = jobs \ {j}
    /\ UNCHANGED <<airtel, credited, age, push, wallet, callbacks, sweep, crashes>>

\* A database error: the transaction aborts, the gateway gets a 500 and may
\* send the callback again (it is still in callbacks), the reconciler logs it.
JobThrows(j) ==
    /\ j.next \in {"complete", "fail"}
    /\ jobs' = jobs \ {j}
    /\ UNCHANGED <<airtel, status, credited, age, push, wallet, callbacks, sweep, crashes>>

-----------------------------------------------------------------------------
(* The reconciler: one run at a time, oldest rows first.                    *)

\* Mutant: the query also has an upper age bound, so a row missed for 24 h stays.
DueWithinDeadline == {p \in airtel : status[p] = "pending" /\ age[p] = Due}

DueForReconciler == {p \in airtel : status[p] = "pending" /\ age[p] >= Due}
Oldest(S)        == {p \in S : Cardinality({q \in S : q < p}) < BatchLimit}

StartSweep ==
    /\ ~sweep.active
    /\ sweep' = [active  |-> TRUE,
                 batch   |-> Oldest(DueForReconciler),
                 overdue |-> {p \in Payments : status[p] = "pending" /\ age[p] = Expired}]
    /\ UNCHANGED <<airtel, status, credited, age, push, wallet, callbacks, jobs, crashes>>

SweepAirtel(p) ==
    /\ Idle(Reconciler)
    /\ p \in sweep.batch
    /\ \A q \in sweep.batch : p <= q
    /\ sweep' = [active |-> TRUE, batch |-> sweep.batch \ {p}, overdue |-> sweep.overdue]
    /\ Suspend(Reconciler, "enquire", p)
    /\ UNCHANGED <<airtel, status, credited, age, push, wallet, callbacks, crashes>>

\* Mutant: PayLeo rows wait for their callback only.
TimedOutPayLeoNever == {}

TimedOutPayLeo == {p \in sweep.overdue \ airtel : status[p] = "pending"}

\* The updateMany that closes a run; `running` is reset.
FinishSweep ==
    /\ sweep.active
    /\ sweep.batch = {}
    /\ Idle(Reconciler)
    /\ status' = [p \in Payments |-> IF p \in TimedOutPayLeo THEN "failed" ELSE status[p]]
    /\ sweep'  = NoSweep
    /\ UNCHANGED <<airtel, credited, age, push, wallet, callbacks, jobs, crashes>>

-----------------------------------------------------------------------------

GrowOlder(p) ==
    /\ status[p] # "none"
    /\ age[p] < Expired
    /\ age' = [age EXCEPT ![p] = @ + 1]
    /\ UNCHANGED <<airtel, status, credited, push, wallet, callbacks, jobs, sweep, crashes>>

\* Requests, the reconciler's run and an unanswered push die with the process.
Crash ==
    /\ crashes < MaxCrashes
    /\ crashes' = crashes + 1
    /\ jobs'    = {}
    /\ sweep'   = NoSweep
    /\ push'    = [p \in Payments |->
                     IF push[p] \in {"calling", "failing"} THEN "orphaned" ELSE push[p]]
    /\ UNCHANGED <<airtel, status, credited, age, wallet, callbacks>>

Server(p) == InitiatePayment(p) \/ PushAccepted(p) \/ PushUnsuccessful(p) \/ RecordPushFailure(p)
Gateway(p) == GatewayPrompts(p) \/ GatewayCollects(p) \/ GatewayDeclines(p) \/ UnprovenCallback(p)
RunJob(j) ==
    \/ \E answer \in EnquiryAnswers(j.pay) : Enquire(j, answer)
    \/ CompletePayment(j) \/ FailPayment(j) \/ JobThrows(j)

Next ==
    \/ \E p \in Payments : Server(p) \/ Gateway(p) \/ SweepAirtel(p) \/ GrowOlder(p)
    \/ \E r \in Requests, c \in callbacks : HandlePayLeoCallback(r, c) \/ HandleAirtelWebhook(r, c)
    \/ \E r \in Requests, p \in Payments : GetPaymentStatus(r, p)
    \/ \E j \in jobs : RunJob(j)
    \/ StartSweep \/ FinishSweep \/ Crash

Spec == Init /\ [][Next]_vars

\* The interval timer fires for ever, a suspended enquiry is answered within its
\* 30 s timeout, rows age, and the database does not fail for ever.
Fairness ==
    /\ \A p \in Payments : WF_vars(GrowOlder(p)) /\ WF_vars(SweepAirtel(p))
    /\ WF_vars(StartSweep)
    /\ WF_vars(FinishSweep)
    /\ WF_vars(\E j \in jobs : j.by = Reconciler /\ RunJob(j))
    /\ SF_vars(\E j \in jobs : j.by = Reconciler /\ (CompletePayment(j) \/ FailPayment(j)))

FairSpec == Spec /\ Fairness

-----------------------------------------------------------------------------
(* Properties                                                               *)

\* A callback that did not come from the gateway says so of the attempt.
Unproven(p, verdict) ==
    \E c \in callbacks : c.pay = p /\ c.verdict = verdict /\ c.from = "unknown"

\* Airtel credits are granted only for money the gateway really collected: whatever
\* callbacks say, in any order and whoever sent them, an unconfirmed "TS" grants
\* nothing (handleAirtelWebhook, payment.service.ts:458-462).  PayLeo's credit, which
\* no enquiry confirms, is as good as the callback: without collected money there was
\* a success callback the gateway did not send (payment.service.ts:403-417).
CreditsArePaidFor ==
    \A p \in Payments : credited[p] > 0 =>
        wallet[p] = "collected" \/ (p \notin airtel /\ Unproven(p, "paid"))

\* Unless its push was recorded as failed, an attempt is completed exactly when
\* it was credited, and then once: however many callbacks, polls and sweeps race
\* through completePayment, and whichever of them die half way.
CompletedIffCredited ==
    \A p \in Payments : push[p] # "failed" =>
        credited[p] = IF status[p] = "completed" THEN 1 ELSE 0

\* Collected money of an accepted Airtel push is given up by the 24 h expiry, or
\* by a failure callback the gateway did not send, which no enquiry confirms
\* (payment.service.ts:497-498): no inconclusive enquiry, stale job or crash fails the
\* row earlier.  With the hash enforced no such callback gets in, and expiry is all.
OnlyExpiryLosesMoney ==
    \A p \in airtel :
        (push[p] = "accepted" /\ wallet[p] = "collected" /\ status[p] = "failed")
            => age[p] = Expired \/ (~EnforceAuth /\ Unproven(p, "failed"))

\* However push failures and callbacks interleave, an attempt is credited at most
\* twice: overwriting "completed" re-opens it once, because the push answers once.
AtMostOneDuplicate ==
    \A p \in Payments : credited[p] <= 2

\* "Completed payments are never downgraded" (payment.service.ts:355) by any
\* callback, poll or sweep; the only step that can is the answer to the push.
OnlyPushFailureDowngrades ==
    [][\A p \in Payments :
         (status[p] = "completed" /\ status'[p] # "completed") => push[p] = "failing"]_vars

\* "Resolves stuck pending payments" (payment.service.ts:559): no row stays
\* pending for ever, with every callback lost and the process restarting.
PendingResolves ==
    \A p \in Payments : status[p] = "pending" ~> status[p] # "pending"

\* What the comments claim and the code breaks: concurrent or duplicate
\* callbacks credit at most once (payment.service.ts:232-233), and a completed
\* payment is never downgraded (payment.service.ts:355).
CreditedAtMostOnce == \A p \in Payments : credited[p] <= 1
NeverDowngraded ==
    [][\A p \in Payments : status[p] = "completed" => status'[p] = "completed"]_vars

-----------------------------------------------------------------------------
\* For TLC: webhook and status requests are interchangeable.
RequestSymmetry == Permutations(Requests)
=============================================================================
