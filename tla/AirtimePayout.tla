---------------------------- MODULE AirtimePayout ----------------------------
(***************************************************************************)
(* Airtime prizes (dispatchAirtime and handleAfricasTalkingWebhook of       *)
(* src/src/module/disbursement/disbursement.service.ts, sendAirtime of      *)
(* src/src/util/africasTalkingAirtime.ts).  A row is claimed, checked, sent *)
(* under its txRef and, when Africa's Talking takes it, given the provider's *)
(* request id; a delivery report for that id finishes it.  Reports may be    *)
(* duplicated, delayed, lost, or arrive before the id is stored.             *)
(***************************************************************************)
EXTENDS Naturals, FiniteSets

CONSTANTS
    Rows,
    MaxRef,      \* bound: txRefs per row, one more for each administrator's retry
    MaxCrashes   \* bound: restarts of the process

MaxRefAssumption     == MaxRef \in Nat \ {0}
MaxCrashesAssumption == MaxCrashes \in Nat

VARIABLES
    status,      \* Disbursement.status
    txRef,       \* Disbursement.txRef: the ids of a row are numbered
    requestId,   \* Disbursement.providerRequestId, 0 when unset (numbered like txRef)
    dispatches,  \* dispatchAirtime calls that claimed a row, before their next step
    airtime,     \* what Africa's Talking did under each id of a row
    reports,     \* delivery reports sent; any may arrive, any number of times
    unanswered,  \* history: rows one of whose sends got no answer
    early,       \* history: rows whose report came before their request id was stored
    crashes

vars == <<status, txRef, requestId, dispatches, airtime, reports, unanswered, early, crashes>>

Refs     == 1..MaxRef
NoId     == 0
Dispatch == [row : Rows, ref : Refs, next : {"check", "send", "store", "reject"}]
Report   == [row : Rows, ref : Refs, success : BOOLEAN]

TypeOK ==
    /\ status     \in [Rows -> {"pending", "processing", "successful", "failed"}]
    /\ txRef      \in [Rows -> Refs]
    /\ requestId  \in [Rows -> Refs \cup {NoId}]
    /\ dispatches \subseteq Dispatch
    /\ airtime    \in [Rows -> [Refs -> {"unsent", "refused", "queued", "delivered", "undelivered"}]]
    /\ reports    \subseteq Report
    /\ unanswered \subseteq Rows
    /\ early      \subseteq Rows
    /\ crashes    \in 0..MaxCrashes

Init ==
    /\ status     = [r \in Rows |-> "pending"]
    /\ txRef      = [r \in Rows |-> 1]
    /\ requestId  = [r \in Rows |-> NoId]
    /\ dispatches = {}
    /\ airtime    = [r \in Rows |-> [k \in Refs |-> "unsent"]]
    /\ reports    = {}
    /\ unanswered = {}
    /\ early      = {}
    /\ crashes    = 0

Proceed(d, step) == dispatches' = (dispatches \ {d}) \cup {[d EXCEPT !.next = step]}
Return(d)        == dispatches' = dispatches \ {d}

-----------------------------------------------------------------------------
(* Africa's Talking (external)                                              *)

Deliver(r, k) ==
    /\ airtime[r][k] = "queued"
    /\ \E success \in BOOLEAN :
          /\ airtime' = [airtime EXCEPT ![r][k] = IF success THEN "delivered" ELSE "undelivered"]
          /\ reports' = reports \cup {[row |-> r, ref |-> k, success |-> success]}
    /\ UNCHANGED <<status, txRef, requestId, dispatches, unanswered, early, crashes>>

\* The idempotency key makes the provider drop a second send under one id.
Taken(r, k) == IF airtime[r][k] = "unsent" THEN [airtime EXCEPT ![r][k] = "queued"] ELSE airtime
Refused(r, k) == IF airtime[r][k] = "unsent" THEN [airtime EXCEPT ![r][k] = "refused"] ELSE airtime

-----------------------------------------------------------------------------
(* dispatchAirtime, called by the run that created the rows, by the payout  *)
(* job and by an administrator's retry: any number of calls for a row may   *)
(* reach the claim, none of them brings anything stale along.               *)

\* Mutant: the claim does not ask for a pending row.
ClaimableWithoutId(r) == status[r] \in {"pending", "processing"} /\ requestId[r] = NoId
Claimable(r)          == status[r] = "pending" /\ requestId[r] = NoId

ClaimRow(r) ==
    /\ Claimable(r)
    /\ status'     = [status EXCEPT ![r] = "processing"]
    /\ dispatches' = dispatches \cup {[row |-> r, ref |-> txRef[r], next |-> "check"]}
    /\ UNCHANGED <<txRef, requestId, airtime, reports, unanswered, early, crashes>>

\* No phone, no amount, above the cap: an update by _id alone.
RejectRow(d) ==
    /\ d.next = "check"
    /\ status' = [status EXCEPT ![d.row] = "failed"]
    /\ Return(d)
    /\ UNCHANGED <<txRef, requestId, airtime, reports, unanswered, early, crashes>>

\* The daily limit is reached and nothing was sent: back to the queue.
PutBack(d) ==
    /\ d.next = "check"
    /\ status' = IF status[d.row] = "processing" THEN [status EXCEPT ![d.row] = "pending"] ELSE status
    /\ Return(d)
    /\ UNCHANGED <<txRef, requestId, airtime, reports, unanswered, early, crashes>>

WithinLimit(d) ==
    /\ d.next = "check"
    /\ Proceed(d, "send")
    /\ UNCHANGED <<status, txRef, requestId, airtime, reports, unanswered, early, crashes>>

\* sendAirtime is told "Sent" or "Queued", or an error.
SendAnswered(d) ==
    /\ d.next = "send"
    /\ \/ airtime' = Taken(d.row, d.ref)   /\ Proceed(d, "store")
       \/ airtime' = Refused(d.row, d.ref) /\ Proceed(d, "reject")
    /\ UNCHANGED <<status, txRef, requestId, reports, unanswered, early, crashes>>

\* The request or its answer is lost: sendAirtime catches the exception and
\* reports it as success: false, like a refusal.
SendUnanswered(d) ==
    /\ d.next = "send"
    /\ airtime' \in {airtime, Taken(d.row, d.ref)}
    /\ unanswered' = unanswered \cup {d.row}
    /\ Proceed(d, "reject")
    /\ UNCHANGED <<status, txRef, requestId, reports, early, crashes>>

StoreRequestId(d) ==
    /\ d.next = "store"
    /\ requestId' = [requestId EXCEPT ![d.row] = d.ref]
    /\ Return(d)
    /\ UNCHANGED <<status, txRef, airtime, reports, unanswered, early, crashes>>

\* An update by _id alone.
RecordRejection(d) ==
    /\ d.next = "reject"
    /\ status' = [status EXCEPT ![d.row] = "failed"]
    /\ Return(d)
    /\ UNCHANGED <<txRef, requestId, airtime, reports, unanswered, early, crashes>>

-----------------------------------------------------------------------------

AwaitsReport(m)        == requestId[m.row] = m.ref /\ status[m.row] = "processing"

\* handleAfricasTalkingWebhook answers 200 in any case, so a report that matches
\* no row in flight need not be sent again; any report may be.
HandleReport(m) ==
    /\ status' = IF AwaitsReport(m)
                 THEN [status EXCEPT ![m.row] = IF m.success THEN "successful" ELSE "failed"]
                 ELSE status
    /\ early' = IF txRef[m.row] = m.ref /\ requestId[m.row] = NoId THEN early \cup {m.row} ELSE early
    /\ reports' \in {reports, reports \ {m}}
    /\ UNCHANGED <<txRef, requestId, dispatches, airtime, unanswered, crashes>>

\* The row goes back to the queue under a new id; the call then dispatches it.
RetryDisbursement(r) ==
    /\ status[r] = "failed" /\ txRef[r] < MaxRef
    /\ status'    = [status EXCEPT ![r] = "pending"]
    /\ txRef'     = [txRef EXCEPT ![r] = @ + 1]
    /\ requestId' = [requestId EXCEPT ![r] = NoId]
    /\ UNCHANGED <<dispatches, airtime, reports, unanswered, early, crashes>>

Crash ==
    /\ crashes < MaxCrashes
    /\ crashes'    = crashes + 1
    /\ dispatches' = {}
    /\ UNCHANGED <<status, txRef, requestId, airtime, reports, unanswered, early>>

RunDispatch(d) ==
    \/ RejectRow(d) \/ PutBack(d) \/ WithinLimit(d) \/ SendAnswered(d) \/ SendUnanswered(d)
    \/ StoreRequestId(d) \/ RecordRejection(d)

Next ==
    \/ \E r \in Rows : ClaimRow(r) \/ RetryDisbursement(r)
    \/ \E d \in dispatches : RunDispatch(d)
    \/ \E r \in Rows, k \in Refs : Deliver(r, k)
    \/ \E m \in reports : HandleReport(m)
    \/ Crash

Spec == Init /\ [][Next]_vars

\* Calls in progress go on, the job claims what is pending (and the daily limit
\* does not last), a report is sent once at least.
Fairness ==
    /\ \A r \in Rows :
          /\ WF_vars(ClaimRow(r))
          /\ WF_vars(\E d \in dispatches : d.row = r /\ RunDispatch(d))
          /\ SF_vars(\E d \in dispatches : d.row = r /\ (WithinLimit(d) \/ RejectRow(d)))
    /\ \A r \in Rows, k \in Refs : WF_vars(Deliver(r, k))
    /\ \A m \in Report : WF_vars(m \in reports /\ HandleReport(m))
FairSpec == Spec /\ Fairness

-----------------------------------------------------------------------------
(* Properties                                                               *)

Sent(r) == {k \in Refs : airtime[r][k] \in {"queued", "delivered"}}

\* A winner's airtime is on its way or there at most once, however creator, job
\* and retries race for the row and wherever the process crashes ("so it is never
\* sent twice", disbursement.service.ts:125-126) - if every send was answered.
SentOnceIfAnswered == \A r \in Rows \ unanswered : Cardinality(Sent(r)) <= 1

\* One dispatch at most works on a row, and on the id the row still has: this is
\* what makes its updates by _id alone safe (disbursement.service.ts:140-187).
OneDispatchPerRow ==
    \A d, e \in dispatches :
        /\ d.row = e.row => d = e
        /\ d.ref = txRef[d.row] /\ status[d.row] = "processing" /\ requestId[d.row] = NoId

\* A successful row's airtime was delivered under the id the row carries, never
\* on the word of a report for an earlier id.
SuccessfulIsDelivered ==
    \A r \in Rows : status[r] = "successful" => airtime[r][txRef[r]] = "delivered"

\* Nothing of a failed row is delivered or on its way, under whatever id, so that
\* an administrator can send it anew - if every send was answered.
FailedWasNotSentIfAnswered ==
    \A r \in Rows \ unanswered : status[r] = "failed" => Sent(r) = {}

\* "a late/duplicate report never flips a final status"
\* (disbursement.service.ts:733): only a retry leaves "failed".
FinalStatusStays ==
    [][\A r \in Rows :
         /\ status[r] = "successful" => status'[r] = "successful"
         /\ (status[r] = "failed" /\ status'[r] # "failed") => txRef'[r] = txRef[r] + 1]_vars

\* A row whose delivery was decided is settled by its report, unless the report
\* came before the id was stored: such a row stays "processing" for ever, out of
\* reach of retry, job and webhook (disbursement.service.ts:182-183, 734-749).
Reported(r) == \E k \in Refs : requestId[r] = k /\ airtime[r][k] \in {"delivered", "undelivered"}
SettledUnlessEarly(r) == status[r] # "processing" \/ r \in early

ReportedRowsSettle == \A r \in Rows : Reported(r) ~> SettledUnlessEarly(r)

\* What a comment claims and the code breaks.
\* "A row stuck in "processing" without providerRequestId means the send outcome
\* is unknown (crash/timeout mid-call) and needs manual review, never an automatic
\* resend" (:127-128): a timeout ends as "failed", which a retry sends anew.
FailedWasNotSent ==
    \A r \in Rows : status[r] = "failed" => txRef[r] \notin Sent(r)
=============================================================================
