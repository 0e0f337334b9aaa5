-------------------------- MODULE MobileMoneyPayout --------------------------
(***************************************************************************)
(* Mobile money prizes (src/src/module/disbursement/disbursement.service.ts *)
(* with the Airtel disbursement calls of                                    *)
(* src/src/module/payment/airtel.service.ts).  A winner's row is paid by    *)
(* whoever claims it: the run that created it, the payout job or an         *)
(* administrator's retry.  The outcome of a payout nobody heard back from   *)
(* is asked for by its transaction id; a failed row can be retried under a  *)
(* new id or recorded as paid by hand.                                      *)
(***************************************************************************)
EXTENDS Naturals, FiniteSets

CONSTANTS
    Rows,        \* the rows, numbered as they were created
    Batch,       \* how many rows of a kind one run of the job takes on (20)
    MaxRef,      \* bound: transaction ids per row, one more for each retry
    MaxCrashes   \* bound: restarts of the process

RowsAssumption       == Rows \subseteq Nat /\ IsFiniteSet(Rows)
BatchAssumption      == Batch \in Nat \ {0}
MaxRefAssumption     == MaxRef \in Nat \ {0}
MaxCrashesAssumption == MaxCrashes \in Nat

VARIABLES
    status,      \* Disbursement.status
    txRef,       \* Disbursement.txRef: the ids of a row are numbered
    requestId,   \* Disbursement.providerRequestId, 0 when unset
    provider,    \* Disbursement.provider
    toPay,       \* rows that the run which created them has yet to pay
    payouts,     \* dispatchMobileMoney calls in progress
    job,         \* the payout job: its phase and what it still has to visit
    airtel,      \* what the operator did under each id of a row
    byHand,      \* rows recorded as paid outside the system
    mixed,       \* history: rows claimed by a caller that had read an older id
    misjudged,   \* history: rows finished by the answer to an older id
    crashes

vars == <<status, txRef, requestId, provider, toPay, payouts, job, airtel, byHand, mixed, misjudged, crashes>>

Refs   == 1..MaxRef
NoRef  == 0
Answer == {"SUCCESS", "FAILED", "UNKNOWN"}

\* A call of dispatchMobileMoney: the id in the row it was given, the id in the
\* row it claimed, where it is and what the operator answered.
Payout == [row : Rows, seen : Refs, ref : Refs, by : {"creator", "job", "retry"},
           next : {"claim", "limit", "send", "settle"}, answer : Answer]
Visit  == [row : Rows, ref : Refs]
Settle == [row : Rows, ref : Refs, answer : Answer]
Job    == [phase : {"idle", "paying", "enquiring"}, pending : SUBSET Visit,
           inFlight : SUBSET Visit, settle : SUBSET Settle]
IdleJob == [phase |-> "idle", pending |-> {}, inFlight |-> {}, settle |-> {}]

TypeOK ==
    /\ status    \in [Rows -> {"pending", "processing", "successful", "failed"}]
    /\ txRef     \in [Rows -> Refs]
    /\ requestId \in [Rows -> Refs \cup {NoRef}]
    /\ provider  \in [Rows -> {"mobile_money", "airtel_money", "manual"}]
    /\ toPay     \subseteq Rows
    /\ payouts   \subseteq Payout
    /\ job       \in Job
    /\ airtel    \in [Rows -> [Refs -> {"unknown", "pending", "paid", "refused"}]]
    /\ byHand    \subseteq Rows
    /\ mixed     \subseteq Rows
    /\ misjudged \subseteq Rows
    /\ crashes   \in 0..MaxCrashes

\* Phase 1 of createDisbursementsForChallenge has committed the rows.
Init ==
    /\ status    = [r \in Rows |-> "pending"]
    /\ txRef     = [r \in Rows |-> 1]
    /\ requestId = [r \in Rows |-> NoRef]
    /\ provider  = [r \in Rows |-> "mobile_money"]
    /\ toPay     = Rows
    /\ payouts   = {}
    /\ job       = IdleJob
    /\ airtel    = [r \in Rows |-> [k \in Refs |-> "unknown"]]
    /\ byHand    = {}
    /\ mixed     = {}
    /\ misjudged = {}
    /\ crashes   = 0

-----------------------------------------------------------------------------
(* The operator                                                             *)

\* The operator makes up its mind about a payout it has taken on.
Decide(r, k) ==
    /\ airtel[r][k] = "pending"
    /\ \E outcome \in {"paid", "refused"} :
          airtel' = [airtel EXCEPT ![r][k] = outcome]
    /\ UNCHANGED <<status, txRef, requestId, provider, toPay, payouts, job, byHand, mixed, misjudged, crashes>>

\* Mutant: a payout the operator has taken on counts as done.
SendOutcomesHasty(r, k) ==
    IF airtel[r][k] # "unknown"
    THEN {[airtel |-> airtel[r][k], answer |-> "UNKNOWN"]}
    ELSE {[airtel |-> a, answer |-> "SUCCESS"] : a \in {"pending", "paid"}}
         \cup {[airtel |-> a, answer |-> "FAILED"] : a \in {"unknown", "refused"}}

\* The classified outcome of a payout request: refused before any payout,
\* refused, paid, taken on, or not heard of (lost before or after it arrived).
\* An id the operator knows already is answered as unsure.
SendOutcomes(r, k) ==
    IF airtel[r][k] # "unknown"
    THEN {[airtel |-> airtel[r][k], answer |-> "UNKNOWN"]}
    ELSE {[airtel |-> a, answer |-> "UNKNOWN"] : a \in {"unknown", "pending", "paid", "refused"}}
         \cup {[airtel |-> "paid", answer |-> "SUCCESS"]}
         \cup {[airtel |-> a, answer |-> "FAILED"] : a \in {"unknown", "refused"}}

\* Only an explicit status is final; a missing id or a lost answer never is.
EnquiryAnswers(r, k) ==
    CASE airtel[r][k] = "paid"                   -> {"SUCCESS", "UNKNOWN"}
      [] airtel[r][k] = "refused"                -> {"FAILED", "UNKNOWN"}
      [] airtel[r][k] \in {"unknown", "pending"} -> {"UNKNOWN"}

-----------------------------------------------------------------------------
(* dispatchMobileMoney                                                      *)

NewPayout(r, seen, by) ==
    [row |-> r, seen |-> seen, ref |-> seen, by |-> by, next |-> "claim", answer |-> "UNKNOWN"]

\* No phone, no amount, above the cap or no rail for the number.
RejectPayout(p) ==
    /\ p.next = "claim"
    /\ payouts' = payouts \ {p}
    /\ status' = IF status[p.row] = "pending" THEN [status EXCEPT ![p.row] = "failed"] ELSE status
    /\ UNCHANGED <<txRef, requestId, provider, toPay, job, airtel, byHand, mixed, misjudged, crashes>>

\* The rail is not activated: the row keeps waiting.
PutOffPayout(p) ==
    /\ p.next = "claim"
    /\ payouts' = payouts \ {p}
    /\ UNCHANGED <<status, txRef, requestId, provider, toPay, job, airtel, byHand, mixed, misjudged, crashes>>

\* Mutant: the claim does not ask for a pending row.
ClaimableUnlessPaid(r) == status[r] # "successful"
Claimable(r)           == status[r] = "pending"

\* The claim records the id of the row as read, and goes on with the id of the
\* row as claimed.
ClaimPayout(p) ==
    /\ p.next = "claim"
    /\ IF Claimable(p.row)
       THEN /\ status'    = [status EXCEPT ![p.row] = "processing"]
            /\ provider'  = [provider EXCEPT ![p.row] = "airtel_money"]
            /\ requestId' = [requestId EXCEPT ![p.row] = p.seen]
            /\ payouts'   = (payouts \ {p}) \cup {[p EXCEPT !.next = "limit", !.ref = txRef[p.row]]}
            /\ mixed'     = IF p.seen # txRef[p.row] THEN mixed \cup {p.row} ELSE mixed
       ELSE /\ payouts' = payouts \ {p}
            /\ UNCHANGED <<status, provider, requestId, mixed>>
    /\ UNCHANGED <<txRef, toPay, job, airtel, byHand, misjudged, crashes>>

WithinLimit(p) ==
    /\ p.next = "limit"
    /\ payouts' = (payouts \ {p}) \cup {[p EXCEPT !.next = "send"]}
    /\ UNCHANGED <<status, txRef, requestId, provider, toPay, job, airtel, byHand, mixed, misjudged, crashes>>

\* Nothing was sent yet: the row goes back to the queue.
OverLimit(p) ==
    /\ p.next = "limit"
    /\ payouts' = payouts \ {p}
    /\ IF status[p.row] = "processing"
       THEN /\ status'    = [status EXCEPT ![p.row] = "pending"]
            /\ provider'  = [provider EXCEPT ![p.row] = "mobile_money"]
            /\ requestId' = [requestId EXCEPT ![p.row] = NoRef]
       ELSE UNCHANGED <<status, provider, requestId>>
    /\ UNCHANGED <<txRef, toPay, job, airtel, byHand, mixed, misjudged, crashes>>

SendPayout(p) ==
    /\ p.next = "send"
    /\ \E o \in SendOutcomes(p.row, p.ref) :
          /\ airtel'  = [airtel EXCEPT ![p.row][p.ref] = o.airtel]
          /\ payouts' = (payouts \ {p}) \cup {[p EXCEPT !.next = "settle", !.answer = o.answer]}
    /\ UNCHANGED <<status, txRef, requestId, provider, toPay, job, byHand, mixed, misjudged, crashes>>

\* The status a final answer gives a row.
StatusAfter(answer) == IF answer = "SUCCESS" THEN "successful" ELSE "failed"

\* The update by row and by status "processing", of the call and of the job:
\* which id the answer is about is not asked.
RecordAnswer(r, ref, answer) ==
    IF status[r] = "processing" /\ answer # "UNKNOWN"
    THEN /\ status'    = [status EXCEPT ![r] = StatusAfter(answer)]
         /\ misjudged' = IF ref # requestId[r] THEN misjudged \cup {r} ELSE misjudged
    ELSE UNCHANGED <<status, misjudged>>

SettlePayout(p) ==
    /\ p.next = "settle"
    /\ payouts' = payouts \ {p}
    /\ RecordAnswer(p.row, p.ref, p.answer)
    /\ UNCHANGED <<txRef, requestId, provider, toPay, job, airtel, byHand, mixed, crashes>>

-----------------------------------------------------------------------------
(* Who dispatches                                                           *)

\* Phase 2 of createDisbursementsForChallenge, with the rows it inserted (rows of
\* several challenges are paid side by side).
PayCreated(r) ==
    /\ r \in toPay
    /\ toPay'   = toPay \ {r}
    /\ payouts' = payouts \cup {NewPayout(r, 1, "creator")}
    /\ UNCHANGED <<status, txRef, requestId, provider, job, airtel, byHand, mixed, misjudged, crashes>>

\* The rows a query with a sort and a limit returns.
FirstBatch(rows) == {r \in rows : Cardinality({q \in rows : q < r}) < Batch}

\* processPendingPayouts: one run at a time, first the oldest pending rows of
\* those that were not touched for two minutes ...
StartRun ==
    /\ job.phase = "idle"
    /\ \E rested \in SUBSET {r \in Rows : status[r] = "pending"} :
          job' = [IdleJob EXCEPT !.phase = "paying",
                    !.pending = {[row |-> r, ref |-> txRef[r]] : r \in FirstBatch(rested)}]
    /\ UNCHANGED <<status, txRef, requestId, provider, toPay, payouts, airtel, byHand, mixed, misjudged, crashes>>

PayPending(v) ==
    /\ job.phase = "paying" /\ \A p \in payouts : p.by # "job"
    /\ job'     = [job EXCEPT !.pending = job.pending \ {v}]
    /\ payouts' = payouts \cup {NewPayout(v.row, v.ref, "job")}
    /\ UNCHANGED <<status, txRef, requestId, provider, toPay, airtel, byHand, mixed, misjudged, crashes>>

\* Mutant: the rows are looked for by the provider they are created with.
InFlightAsCreated == {r \in Rows : status[r] = "processing" /\ provider[r] = "mobile_money"}

InFlight == {r \in Rows : status[r] = "processing" /\ provider[r] = "airtel_money"}

\* What a query with a limit and no sort may return.
Batches(rows) ==
    {some \in SUBSET rows : \/ Cardinality(some) = Batch
                            \/ some = rows /\ Cardinality(rows) < Batch}

\* ... then rows in flight, any of them if there are more than a batch (also one
\* in flight for less than a minute: a call of the operator can take longer than
\* that), one enquiry after the other.
StartEnquiries ==
    /\ job.phase = "paying" /\ job.pending = {} /\ \A p \in payouts : p.by # "job"
    /\ \E rows \in Batches(InFlight) :
          job' = [IdleJob EXCEPT !.phase = "enquiring",
                    !.inFlight = {[row |-> r, ref |-> requestId[r]] :
                                     r \in {q \in rows : requestId[q] # NoRef}}]
    /\ UNCHANGED <<status, txRef, requestId, provider, toPay, payouts, airtel, byHand, mixed, misjudged, crashes>>

Enquire(v, answer) ==
    /\ job.phase = "enquiring" /\ job.settle = {}
    /\ job' = [job EXCEPT !.inFlight = job.inFlight \ {v},
                          !.settle = {[row |-> v.row, ref |-> v.ref, answer |-> answer]}]
    /\ UNCHANGED <<status, txRef, requestId, provider, toPay, payouts, airtel, byHand, mixed, misjudged, crashes>>

SettleEnquiry(s) ==
    /\ job' = [job EXCEPT !.settle = {}]
    /\ RecordAnswer(s.row, s.ref, s.answer)
    /\ UNCHANGED <<txRef, requestId, provider, toPay, payouts, airtel, byHand, mixed, crashes>>

FinishRun ==
    /\ job.phase = "enquiring" /\ job.inFlight = {} /\ job.settle = {}
    /\ job' = IdleJob
    /\ UNCHANGED <<status, txRef, requestId, provider, toPay, payouts, airtel, byHand, mixed, misjudged, crashes>>

-----------------------------------------------------------------------------
(* Administrators and the process                                           *)

RetryDisbursement(r) ==
    /\ status[r] = "failed" /\ txRef[r] < MaxRef
    /\ status'    = [status EXCEPT ![r] = "pending"]
    /\ txRef'     = [txRef EXCEPT ![r] = @ + 1]
    /\ requestId' = [requestId EXCEPT ![r] = NoRef]
    /\ payouts'   = payouts \cup {NewPayout(r, txRef[r] + 1, "retry")}
    /\ UNCHANGED <<provider, toPay, job, airtel, byHand, mixed, misjudged, crashes>>

MarkPaidManually(r) ==
    /\ status[r] \in {"pending", "failed"}
    /\ status'   = [status EXCEPT ![r] = "successful"]
    /\ provider' = [provider EXCEPT ![r] = "manual"]
    /\ byHand'   = byHand \cup {r}
    /\ UNCHANGED <<txRef, requestId, toPay, payouts, job, airtel, mixed, misjudged, crashes>>

Crash ==
    /\ crashes < MaxCrashes
    /\ crashes' = crashes + 1
    /\ toPay'   = {}
    /\ payouts' = {}
    /\ job'     = IdleJob
    /\ UNCHANGED <<status, txRef, requestId, provider, airtel, byHand, mixed, misjudged>>

Dispatch(p) ==
    \/ RejectPayout(p) \/ PutOffPayout(p) \/ ClaimPayout(p)
    \/ WithinLimit(p) \/ OverLimit(p) \/ SendPayout(p) \/ SettlePayout(p)

JobStep ==
    \/ StartRun \/ StartEnquiries \/ FinishRun
    \/ \E v \in job.pending : PayPending(v)
    \/ \E v \in job.inFlight : \E answer \in EnquiryAnswers(v.row, v.ref) : Enquire(v, answer)
    \/ \E s \in job.settle : SettleEnquiry(s)

Next ==
    \/ \E r \in Rows, k \in Refs : Decide(r, k)
    \/ \E p \in payouts : Dispatch(p)
    \/ \E r \in Rows : PayCreated(r) \/ RetryDisbursement(r) \/ MarkPaidManually(r)
    \/ JobStep
    \/ Crash

Spec == Init /\ [][Next]_vars

\* The job asks for a row in flight and learns the outcome.
Answered(r) ==
    \E v \in job.inFlight : \E answer \in {"SUCCESS", "FAILED"} :
        /\ v.row = r /\ answer \in EnquiryAnswers(v.row, v.ref) /\ Enquire(v, answer)

\* Calls in progress go on, the job runs again and again, the operator decides,
\* and an enquiry that is repeated is at some time answered.
Fairness ==
    /\ WF_vars(\E p \in payouts : Dispatch(p))
    /\ WF_vars(JobStep)
    /\ \A r \in Rows, k \in Refs : WF_vars(Decide(r, k))
    /\ \A r \in Rows : SF_vars(Answered(r))
FairSpec == Spec /\ Fairness

-----------------------------------------------------------------------------
(* Properties                                                               *)

Paid(r)     == {k \in Refs : airtel[r][k] = "paid"}
Payments(r) == Cardinality(Paid(r)) + (IF r \in byHand THEN 1 ELSE 0)

\* Rows whose claim and whose answers all concerned the id they carried.
Orderly == Rows \ (mixed \cup misjudged)

\* A failed row has no payout that went through or still may, so that an
\* administrator can retry it or pay it by hand (disbursement.service.ts:411,
\* airtel.service.ts:303, 345-346) - unless two of its ids were taken for one.
FailedIsUnpaid ==
    \A r \in Orderly : status[r] = "failed" =>
        \A k \in Refs : airtel[r][k] \in {"unknown", "refused"}

\* No winner is paid twice, by creator, job, retry and hand in any interleaving
\* with crashes and lost answers - unless two ids were taken for one.
PaidOnceIfOrderly == \A r \in Orderly : Payments(r) <= 1

\* A row says "successful" only if somebody paid.
SuccessfulIsPaid == \A r \in Rows : status[r] = "successful" => Payments(r) > 0

\* A payout the operator knows of is settled in the end, by the call or by the
\* job ("in-flight mobile money payouts resolved via operator enquiry", :600),
\* unless again and again more rows are in flight than the job asks for.
InProgress(r) == status[r] = "processing"
Decided(r) ==
    InProgress(r) /\ \E k \in Refs : requestId[r] = k /\ airtel[r][k] # "unknown"
Crowded == Cardinality(InFlight) > Batch

SettledUnlessCrowded == \A r \in Rows : Decided(r) ~> (~InProgress(r) \/ Crowded)

\* What comments claim and the code breaks.
\* "so the automatic payout job and a manual payment can never both pay the same
\* winner" (:367), "never by sending again" (:243-244): the claim stores the id
\* the caller read and the money is sent under the id of the claimed row.
NeverPaidTwice == \A r \in Rows : Payments(r) <= 1

\* "A new transaction id is used because the old one is final at the operator"
\* (:411): the answer to an older id is recorded on a newer one, then retried.
OldIdsAreFinal ==
    \A r \in Rows \ mixed : \A k \in Refs :
        k < txRef[r] => airtel[r][k] \in {"unknown", "refused"}

\* "in-flight mobile money payouts resolved via operator enquiry" (:600): the query
\* has a limit and no sort (:317-325), so rows whose request never arrived, which
\* stay in flight, may be the ones it returns every time.
KnownPayoutsSettle == \A r \in Rows : Decided(r) ~> ~InProgress(r)

\* "so a crash or timeout is resolved by asking the operator for that id's
\* status" (:243-244): a request that was never made or never arrived is asked
\* for again and again, and nobody can retry the row or pay it by hand.
InFlightIsResolved ==
    \A r \in Rows : status[r] = "processing" ~> status[r] # "processing"
=============================================================================
