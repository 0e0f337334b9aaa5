----------------------------- MODULE PayoutProofs -----------------------------
(***************************************************************************)
(* Proofs about the refunds of calls and the payouts of prizes, for any        *)
(* calls, rows, ids and bounds.  A refund that has zeroed its call finds it    *)
(* zeroed until it restores it, so that nobody else gets past the zeroing      *)
(* meanwhile; what the writes of that one refund move is then counted write    *)
(* by write.  Mobile money and airtime have one argument: while a row carries  *)
(* an id, at most one call sends under it, before any answer; a row leaves an  *)
(* id behind only when nothing was or will be paid under it.  Mobile money     *)
(* keeps to that as long as no answer and no claim is about another id than    *)
(* the row's (Orderly), airtime as long as every send is answered.             *)
(***************************************************************************)
EXTENDS Payouts, FiniteSetTheorems, TLAPS

-----------------------------------------------------------------------------
(* Mobile money                                                             *)

\* Nothing was paid under the id, and nothing will be unless a call still sends.
Unpaid(r, k) == airtel[r][k] \in {"unknown", "refused"}

\* Final answers are true of the id they are about (a refusal, as long as the row is orderly:
\* two calls may otherwise send under one id).
AnswersAreTrue ==
    /\ \A p \in payouts : p.next = "settle" =>
          /\ p.answer = "SUCCESS" => airtel[p.row][p.ref] = "paid"
          /\ p.answer = "FAILED" /\ p.row \in MobileMoney!Orderly => Unpaid(p.row, p.ref)
    /\ \A s \in job.settle :
          /\ s.answer = "SUCCESS" => airtel[s.row][s.ref] = "paid"
          /\ s.answer = "FAILED"  => airtel[s.row][s.ref] = "refused"

\* Calls that have claimed an orderly row: each has its id to itself; one that has not sent
\* yet has the id the row carries, unknown to the operator.
ClaimsAreExclusive ==
    \A p \in payouts : p.next # "claim" /\ p.row \in MobileMoney!Orderly =>
        /\ p.ref <= txRef[p.row]
        /\ \A q \in payouts : q.next # "claim" /\ q.row = p.row /\ q.ref = p.ref => q = p
        /\ p.ref = txRef[p.row] => state[p.row] # "pending"
        /\ p.next \in {"limit", "send"} =>
              /\ p.ref = txRef[p.row] /\ state[p.row] = "processing"
              /\ airtel[p.row][p.ref] = "unknown"

\* What the status of an orderly row says of the id it carries.
StatusIsTrue ==
    \A r \in MobileMoney!Orderly :
        /\ state[r] = "pending"    => r \notin byHand /\ airtel[r][txRef[r]] = "unknown"
        /\ state[r] = "processing" => r \notin byHand /\ requestId[r] = txRef[r]
        /\ state[r] = "failed"     => r \notin byHand /\ Unpaid(r, txRef[r])
        /\ state[r] = "successful" =>
              IF r \in byHand THEN Unpaid(r, txRef[r]) ELSE airtel[r][txRef[r]] = "paid"

\* Ids an orderly row has left behind were never paid under, ids to come never used.
OtherIdsUnpaid ==
    \A r \in MobileMoney!Orderly : \A k \in MobileMoney!Refs :
        /\ k < txRef[r] => Unpaid(r, k)
        /\ k > txRef[r] => airtel[r][k] = "unknown"

\* Of a row that is said to be successful somebody paid, under whatever id.
SuccessWasPaid ==
    \A r \in Rows : state[r] = "successful" =>
        r \in byHand \/ \E k \in MobileMoney!Refs : airtel[r][k] = "paid"

MobileMoneyInv ==
    /\ MobileMoney!TypeOK /\ AnswersAreTrue /\ ClaimsAreExclusive
    /\ StatusIsTrue /\ OtherIdsUnpaid /\ SuccessWasPaid

-----------------------------------------------------------------------------
(* Airtime                                                                  *)

\* Sent under the id and not failed.
Out(r, k) == airtime[r][k] \in {"queued", "delivered"}

\* What a dispatch knows of the id it works on.
DispatchesAreTrue ==
    \A d \in dispatches :
        /\ d.next \in {"check", "send"} => airtime[d.row][d.ref] = "unsent"
        /\ d.next = "reject" => d.row \in unanswered \/ airtime[d.row][d.ref] = "refused"

\* Reports say what became of the send they are about.
ReportsAreTrue ==
    \A m \in reports :
        airtime[m.row][m.ref] = IF m.success THEN "delivered" ELSE "undelivered"

\* What a row says of the id it carries, and of the others.
RowsAreTrue ==
    \A r \in Rows :
        /\ requestId[r] \in {Airtime!NoId, txRef[r]}
        /\ state[r] = "pending"    => requestId[r] = Airtime!NoId /\ airtime[r][txRef[r]] = "unsent"
        /\ state[r] = "successful" => airtime[r][txRef[r]] = "delivered"
        /\ state[r] = "failed"     => r \in unanswered \/ ~Out(r, txRef[r])
        /\ \A k \in Airtime!Refs :
              /\ k < txRef[r] => r \in unanswered \/ ~Out(r, k)
              /\ k > txRef[r] => airtime[r][k] = "unsent"

AirtimeInv ==
    /\ Airtime!TypeOK /\ Airtime!OneDispatchPerRow
    /\ DispatchesAreTrue /\ ReportsAreTrue /\ RowsAreTrue

-----------------------------------------------------------------------------
(* Steps of an airtime prize                                                *)

\* A table of rows and ids with one entry changed.
LEMMA OneEntry ==
  ASSUME NEW R, NEW K, NEW V, NEW f \in [R -> [K -> V]], NEW r \in R, NEW k \in K, NEW x \in V
  PROVE  /\ [f EXCEPT ![r][k] = x] \in [R -> [K -> V]]
         /\ \A s \in R, l \in K :
               [f EXCEPT ![r][k] = x][s][l] = IF s = r /\ l = k THEN x ELSE f[s][l]
OBVIOUS

\* Types the steps need, spelled out.
LEMMA AirtimeTypes ==
  ASSUME AirtimeInv
  PROVE  /\ \A r \in Rows : /\ txRef[r] \in Airtime!Refs /\ txRef[r] \in Nat
                            /\ state[r] \in {"pending", "processing", "successful", "failed"}
         /\ \A d \in dispatches : d \in Airtime!Dispatch /\ d.row \in Rows /\ d.ref \in Airtime!Refs
         /\ \A m \in reports : m.row \in Rows /\ m.ref \in Airtime!Refs /\ m.success \in BOOLEAN
         /\ \A k \in Airtime!Refs : k \in Nat /\ k # Airtime!NoId
         /\ \A r \in Rows, k \in Airtime!Refs :
               airtime[r][k] \in {"unsent", "refused", "queued", "delivered", "undelivered"}
         /\ MaxRef \in Nat /\ MaxAirtimeCrashes \in Nat
<1>1. MaxRef \in Nat \ {0} /\ MaxAirtimeCrashes \in Nat
  BY PayoutsAssumption DEF Airtime!MaxRefAssumption, Airtime!MaxCrashesAssumption
<1>2. \A k \in Airtime!Refs : k \in Nat /\ k # Airtime!NoId
  BY <1>1 DEF Airtime!Refs, Airtime!NoId
<1>3. \A d \in dispatches : d \in Airtime!Dispatch /\ d.row \in Rows /\ d.ref \in Airtime!Refs
  BY DEF AirtimeInv, Airtime!TypeOK, Airtime!Dispatch
<1>4. \A m \in reports : m.row \in Rows /\ m.ref \in Airtime!Refs /\ m.success \in BOOLEAN
  BY DEF AirtimeInv, Airtime!TypeOK, Airtime!Report
<1> QED
  BY <1>1, <1>2, <1>3, <1>4 DEF AirtimeInv, Airtime!TypeOK

\* Africa's Talking decides a send; the report says what it decided.
LEMMA StepDeliver ==
  ASSUME AirtimeInv, NEW r \in Rows, NEW k \in Airtime!Refs, Airtime!Deliver(r, k)
  PROVE  AirtimeInv'
<1>1. PICK success \in BOOLEAN :
         /\ airtime' = [airtime EXCEPT ![r][k] = IF success THEN "delivered" ELSE "undelivered"]
         /\ reports' = reports \cup {[row |-> r, ref |-> k, success |-> success]}
  BY DEF Airtime!Deliver
<1>2. /\ airtime[r][k] = "queued"
      /\ UNCHANGED <<state, txRef, requestId, dispatches, unanswered, early, crashes>>
  BY DEF Airtime!Deliver
<1> DEFINE x == IF success THEN "delivered" ELSE "undelivered"
<1>3. /\ airtime' \in [Rows -> [Airtime!Refs ->
                         {"unsent", "refused", "queued", "delivered", "undelivered"}]]
      /\ \A s \in Rows, l \in Airtime!Refs :
            airtime'[s][l] = IF s = r /\ l = k THEN x ELSE airtime[s][l]
  <2>1. x \in {"unsent", "refused", "queued", "delivered", "undelivered"}
    OBVIOUS
  <2>2. airtime' = [airtime EXCEPT ![r][k] = x]
    BY <1>1
  <2> HIDE DEF x
  <2> QED
    BY <2>1, <2>2, OneEntry DEF AirtimeInv, Airtime!TypeOK
<1> DEFINE m == [row |-> r, ref |-> k, success |-> success]
<1>4. m \in Airtime!Report /\ m.row = r /\ m.ref = k /\ m.success = success
  BY DEF Airtime!Report
<1>5. reports' = reports \cup {m}
  BY <1>1
<1> HIDE DEF m
<1>6. Airtime!TypeOK'
  BY <1>2, <1>3, <1>4, <1>5 DEF AirtimeInv, Airtime!TypeOK
<1>7. Airtime!OneDispatchPerRow' /\ DispatchesAreTrue'
  BY <1>2, <1>3, AirtimeTypes DEF AirtimeInv, Airtime!OneDispatchPerRow, DispatchesAreTrue
<1>8. ReportsAreTrue'
  BY <1>2, <1>3, <1>4, <1>5, AirtimeTypes DEF AirtimeInv, ReportsAreTrue
<1>9. RowsAreTrue'
  BY <1>2, <1>3, AirtimeTypes DEF AirtimeInv, RowsAreTrue, Out
<1> QED
  BY <1>6, <1>7, <1>8, <1>9 DEF AirtimeInv

\* The claim: of a pending row nobody works on, under an id nothing was sent under.
LEMMA StepClaimRow ==
  ASSUME AirtimeInv, NEW r \in Rows, Airtime!ClaimRow(r)
  PROVE  AirtimeInv'
<1> DEFINE d == [row |-> r, ref |-> txRef[r], next |-> "check"]
<1>1. /\ state[r] = "pending" /\ requestId[r] = Airtime!NoId
      /\ state' = [state EXCEPT ![r] = "processing"] /\ dispatches' = dispatches \cup {d}
      /\ UNCHANGED <<txRef, requestId, airtime, reports, unanswered, early, crashes>>
  BY DEF Airtime!ClaimRow, Airtime!Claimable
<1>2. d \in Airtime!Dispatch /\ d.row = r /\ d.ref = txRef[r] /\ d.next = "check"
  BY AirtimeTypes DEF Airtime!Dispatch
<1> HIDE DEF d
<1>3. \A s \in Rows : state'[s] = IF s = r THEN "processing" ELSE state[s]
  BY <1>1 DEF AirtimeInv, Airtime!TypeOK
<1>4. Airtime!TypeOK'
  BY <1>1, <1>2 DEF AirtimeInv, Airtime!TypeOK
<1>5. \A e \in dispatches : e.row # r
  BY <1>1 DEF AirtimeInv, Airtime!OneDispatchPerRow
<1>6. Airtime!OneDispatchPerRow'
  BY <1>1, <1>2, <1>3, <1>5, AirtimeTypes DEF AirtimeInv, Airtime!OneDispatchPerRow
<1>7. DispatchesAreTrue'
  BY <1>1, <1>2 DEF AirtimeInv, DispatchesAreTrue, RowsAreTrue
<1>8. ReportsAreTrue'
  BY <1>1 DEF AirtimeInv, ReportsAreTrue
<1>9. RowsAreTrue'
  BY <1>1, <1>3 DEF AirtimeInv, RowsAreTrue, Out
<1> QED
  BY <1>4, <1>6, <1>7, <1>8, <1>9 DEF AirtimeInv

\* The three ways a dispatch gives its row up: rejected before the send, refused or
\* unanswered after it, put back because of the daily limit.
LEMMA StepGiveUp ==
  ASSUME AirtimeInv, NEW d \in dispatches,
         Airtime!RejectRow(d) \/ Airtime!PutBack(d) \/ Airtime!RecordRejection(d)
  PROVE  AirtimeInv'
<1> DEFINE r == d.row
<1>0. r \in Rows /\ d.ref = txRef[r] /\ state[r] = "processing" /\ requestId[r] = Airtime!NoId
  BY AirtimeTypes DEF AirtimeInv, Airtime!OneDispatchPerRow
<1>1. PICK x \in {"failed", "pending"} : state' = [state EXCEPT ![r] = x]
  BY <1>0 DEF Airtime!RejectRow, Airtime!PutBack, Airtime!RecordRejection
<1>2. /\ dispatches' = dispatches \ {d}
      /\ UNCHANGED <<txRef, requestId, airtime, reports, unanswered, early, crashes>>
  BY DEF Airtime!RejectRow, Airtime!PutBack, Airtime!RecordRejection, Airtime!Return
<1>3. /\ state' \in [Rows -> {"pending", "processing", "successful", "failed"}]
      /\ \A s \in Rows : state'[s] = IF s = r THEN x ELSE state[s]
  BY <1>0, <1>1 DEF AirtimeInv, Airtime!TypeOK
<1>4. /\ x = "pending" => airtime[r][txRef[r]] = "unsent"
      /\ x = "failed" => r \in unanswered \/ ~Out(r, txRef[r])
  <2>1. CASE d.next = "check"
    BY <1>0, <2>1 DEF AirtimeInv, DispatchesAreTrue, Out
  <2>2. CASE d.next # "check"
    <3>1. Airtime!RecordRejection(d)
      BY <2>2 DEF Airtime!RejectRow, Airtime!PutBack
    <3>2. d.next = "reject" /\ x = "failed"
      BY <1>0, <1>1, <3>1 DEF Airtime!RecordRejection, AirtimeInv, Airtime!TypeOK
    <3> QED
      BY <1>0, <3>2 DEF AirtimeInv, DispatchesAreTrue, Out
  <2> QED
    BY <2>1, <2>2
<1> HIDE DEF r
<1>5. Airtime!TypeOK'
  BY <1>2, <1>3 DEF AirtimeInv, Airtime!TypeOK
<1>6. Airtime!OneDispatchPerRow'
  BY <1>2, <1>3, AirtimeTypes DEF AirtimeInv, Airtime!OneDispatchPerRow, r
<1>7. DispatchesAreTrue' /\ ReportsAreTrue'
  BY <1>2 DEF AirtimeInv, DispatchesAreTrue, ReportsAreTrue
<1>8. RowsAreTrue'
  BY <1>0, <1>2, <1>3, <1>4 DEF AirtimeInv, RowsAreTrue, Out
<1> QED
  BY <1>5, <1>6, <1>7, <1>8 DEF AirtimeInv

\* The steps on which a dispatch goes on: below the limit, and after the send.
LEMMA StepGoOn ==
  ASSUME AirtimeInv, NEW d \in dispatches,
         Airtime!WithinLimit(d) \/ Airtime!SendAnswered(d) \/ Airtime!SendUnanswered(d)
  PROVE  AirtimeInv'
<1> DEFINE r == d.row  k == d.ref
<1>0. /\ r \in Rows /\ k \in Airtime!Refs /\ d \in Airtime!Dispatch /\ k = txRef[r]
      /\ state[r] = "processing" /\ requestId[r] = Airtime!NoId
      /\ airtime[r][k] = "unsent"
  BY AirtimeTypes DEF AirtimeInv, Airtime!OneDispatchPerRow, DispatchesAreTrue,
     Airtime!WithinLimit, Airtime!SendAnswered, Airtime!SendUnanswered
<1>1. PICK step \in {"send", "store", "reject"}, x \in {"unsent", "refused", "queued"} :
         /\ dispatches' = (dispatches \ {d}) \cup {[d EXCEPT !.next = step]}
         /\ airtime' = [airtime EXCEPT ![r][k] = x]
         /\ unanswered' \in {unanswered, unanswered \cup {r}}
         /\ step = "send" => x = "unsent"
         /\ step = "reject" => x = "refused" \/ r \in unanswered'
  <2>1. airtime = [airtime EXCEPT ![r][k] = "unsent"]
    BY <1>0 DEF AirtimeInv, Airtime!TypeOK
  <2>2. CASE Airtime!WithinLimit(d)
    BY <2>1, <2>2 DEF Airtime!WithinLimit, Airtime!Proceed
  <2>3. CASE Airtime!SendAnswered(d)
    BY <1>0, <2>3 DEF Airtime!SendAnswered, Airtime!Proceed, Airtime!Taken, Airtime!Refused
  <2>4. CASE Airtime!SendUnanswered(d)
    BY <1>0, <2>1, <2>4 DEF Airtime!SendUnanswered, Airtime!Proceed, Airtime!Taken
  <2> QED
    BY <2>2, <2>3, <2>4
<1>2. UNCHANGED <<state, txRef, requestId, reports, early, crashes>>
  BY DEF Airtime!WithinLimit, Airtime!SendAnswered, Airtime!SendUnanswered
<1>3. /\ airtime' \in [Rows -> [Airtime!Refs ->
                         {"unsent", "refused", "queued", "delivered", "undelivered"}]]
      /\ \A s \in Rows, l \in Airtime!Refs :
            airtime'[s][l] = IF s = r /\ l = k THEN x ELSE airtime[s][l]
  BY <1>0, <1>1, OneEntry DEF AirtimeInv, Airtime!TypeOK
<1> DEFINE e == [d EXCEPT !.next = step]
<1>4. e \in Airtime!Dispatch /\ e.row = r /\ e.ref = k /\ e.next = step
  BY <1>0 DEF Airtime!Dispatch
<1>5. dispatches' = (dispatches \ {d}) \cup {e}
  BY <1>1
<1>6. \A c \in dispatches : c.row = r => c = d
  BY DEF AirtimeInv, Airtime!OneDispatchPerRow
<1> HIDE DEF e, r, k
<1>7. Airtime!TypeOK'
  BY <1>0, <1>1, <1>2, <1>3, <1>4, <1>5 DEF AirtimeInv, Airtime!TypeOK
<1>8. Airtime!OneDispatchPerRow'
  BY <1>0, <1>2, <1>4, <1>5, <1>6 DEF AirtimeInv, Airtime!OneDispatchPerRow
<1>9. DispatchesAreTrue'
  BY <1>0, <1>1, <1>3, <1>4, <1>5, <1>6, AirtimeTypes DEF AirtimeInv, DispatchesAreTrue
<1>10. ReportsAreTrue'
  BY <1>0, <1>2, <1>3, AirtimeTypes DEF AirtimeInv, ReportsAreTrue
<1>11. RowsAreTrue'
  BY <1>0, <1>1, <1>2, <1>3, AirtimeTypes DEF AirtimeInv, RowsAreTrue, Out
<1> QED
  BY <1>7, <1>8, <1>9, <1>10, <1>11 DEF AirtimeInv

\* The request id is stored by the one dispatch the row has, under the id the row has.
LEMMA StepStoreRequestId ==
  ASSUME AirtimeInv, NEW d \in dispatches, Airtime!StoreRequestId(d)
  PROVE  AirtimeInv'
<1> DEFINE r == d.row
<1>0. r \in Rows /\ d.ref = txRef[r] /\ d.ref \in Airtime!Refs /\ state[r] = "processing"
  BY AirtimeTypes DEF AirtimeInv, Airtime!OneDispatchPerRow
<1>1. /\ requestId' = [requestId EXCEPT ![r] = d.ref] /\ dispatches' = dispatches \ {d}
      /\ UNCHANGED <<state, txRef, airtime, reports, unanswered, early, crashes>>
  BY DEF Airtime!StoreRequestId, Airtime!Return
<1>2. \A e \in dispatches' : e \in dispatches /\ e.row # r
  BY <1>1 DEF AirtimeInv, Airtime!OneDispatchPerRow
<1> HIDE DEF r
<1>3. /\ requestId' \in [Rows -> Airtime!Refs \cup {Airtime!NoId}]
      /\ \A s \in Rows : requestId'[s] = IF s = r THEN txRef[r] ELSE requestId[s]
  BY <1>0, <1>1 DEF AirtimeInv, Airtime!TypeOK
<1>4. Airtime!TypeOK'
  BY <1>1, <1>3 DEF AirtimeInv, Airtime!TypeOK
<1>5. Airtime!OneDispatchPerRow'
  BY <1>1, <1>2, <1>3, AirtimeTypes DEF AirtimeInv, Airtime!OneDispatchPerRow
<1>6. DispatchesAreTrue' /\ ReportsAreTrue'
  BY <1>1 DEF AirtimeInv, DispatchesAreTrue, ReportsAreTrue
<1>7. RowsAreTrue'
  BY <1>0, <1>1, <1>3 DEF AirtimeInv, RowsAreTrue, Out
<1> QED
  BY <1>4, <1>5, <1>6, <1>7 DEF AirtimeInv

\* A report finishes a row only under the id the row has: no dispatch is at work on it then.
LEMMA StepHandleReport ==
  ASSUME AirtimeInv, NEW m \in reports, Airtime!HandleReport(m)
  PROVE  AirtimeInv'
<1> DEFINE r == m.row
           x == IF m.success THEN "successful" ELSE "failed"
<1>0. /\ r \in Rows /\ m.ref \in Airtime!Refs /\ m.ref # Airtime!NoId
      /\ airtime[r][m.ref] = IF m.success THEN "delivered" ELSE "undelivered"
  BY AirtimeTypes DEF AirtimeInv, ReportsAreTrue
<1>1. /\ reports' \subseteq reports /\ early' \in {early, early \cup {r}}
      /\ UNCHANGED <<txRef, requestId, dispatches, airtime, unanswered, crashes>>
  BY DEF Airtime!HandleReport
<1>2. Airtime!TypeOK' /\ ReportsAreTrue' /\ DispatchesAreTrue'
  <2>1. state' \in [Rows -> {"pending", "processing", "successful", "failed"}]
    BY <1>0 DEF AirtimeInv, Airtime!TypeOK, Airtime!HandleReport
  <2>2. early' \subseteq Rows
    BY <1>0, <1>1 DEF AirtimeInv, Airtime!TypeOK
  <2> QED
    BY <1>1, <2>1, <2>2
       DEF AirtimeInv, Airtime!TypeOK, ReportsAreTrue, DispatchesAreTrue
<1>3. CASE ~Airtime!AwaitsReport(m)
  <2>1. UNCHANGED state
    BY <1>3 DEF Airtime!HandleReport
  <2>2. Airtime!OneDispatchPerRow' /\ RowsAreTrue'
    BY <1>1, <2>1 DEF AirtimeInv, Airtime!OneDispatchPerRow, RowsAreTrue, Out
  <2> QED
    BY <1>2, <2>2 DEF AirtimeInv
<1>4. CASE Airtime!AwaitsReport(m)
  <2>1. requestId[r] = m.ref /\ state' = [state EXCEPT ![r] = x]
    BY <1>4 DEF Airtime!AwaitsReport, Airtime!HandleReport
  <2>2. m.ref = txRef[r]
    BY <1>0, <2>1 DEF AirtimeInv, RowsAreTrue
  <2>3. \A s \in Rows : state'[s] = IF s = r THEN x ELSE state[s]
    BY <1>0, <2>1 DEF AirtimeInv, Airtime!TypeOK
  <2>4. \A d \in dispatches : d.row # r
    BY <1>0, <2>1 DEF AirtimeInv, Airtime!OneDispatchPerRow
  <2>5. Airtime!OneDispatchPerRow'
    BY <1>1, <2>3, <2>4, AirtimeTypes DEF AirtimeInv, Airtime!OneDispatchPerRow
  <2>6. RowsAreTrue'
    BY <1>0, <1>1, <2>2, <2>3 DEF AirtimeInv, RowsAreTrue, Out
  <2> QED
    BY <1>2, <2>5, <2>6 DEF AirtimeInv
<1> QED
  BY <1>3, <1>4

\* A retry leaves an id behind under which nothing is on its way, or a send went unanswered.
LEMMA StepRetryAirtime ==
  ASSUME AirtimeInv, NEW r \in Rows, Airtime!RetryDisbursement(r)
  PROVE  AirtimeInv'
<1>0. /\ state[r] = "failed" /\ txRef[r] < MaxRef
      /\ state' = [state EXCEPT ![r] = "pending"] /\ txRef' = [txRef EXCEPT ![r] = @ + 1]
      /\ requestId' = [requestId EXCEPT ![r] = Airtime!NoId]
      /\ UNCHANGED <<dispatches, airtime, reports, unanswered, early, crashes>>
  BY DEF Airtime!RetryDisbursement
<1> DEFINE n == txRef[r] + 1
<1>1. n \in Airtime!Refs /\ n \in Nat /\ txRef[r] \in Nat
  BY <1>0, AirtimeTypes DEF Airtime!Refs
<1>2. \A s \in Rows : /\ state'[s] = IF s = r THEN "pending" ELSE state[s]
                      /\ txRef'[s] = IF s = r THEN n ELSE txRef[s]
                      /\ requestId'[s] = IF s = r THEN Airtime!NoId ELSE requestId[s]
  BY <1>0 DEF AirtimeInv, Airtime!TypeOK
<1>3. Airtime!TypeOK'
  BY <1>0, <1>1 DEF AirtimeInv, Airtime!TypeOK
<1>4. \A d \in dispatches : d.row # r
  BY <1>0 DEF AirtimeInv, Airtime!OneDispatchPerRow
<1>5. Airtime!OneDispatchPerRow'
  BY <1>0, <1>2, <1>4, AirtimeTypes DEF AirtimeInv, Airtime!OneDispatchPerRow
<1>6. DispatchesAreTrue' /\ ReportsAreTrue'
  BY <1>0 DEF AirtimeInv, DispatchesAreTrue, ReportsAreTrue
<1>7. RowsAreTrue'
  <2>1. ASSUME NEW k \in Airtime!Refs
        PROVE  /\ k < n => r \in unanswered \/ ~Out(r, k)
               /\ k >= n => airtime[r][k] = "unsent"
    <3>1. k \in Nat
      BY AirtimeTypes
    <3>2. k < txRef[r] \/ k = txRef[r] \/ k > txRef[r]
      BY <1>1, <3>1
    <3> QED
      BY <1>0, <1>1, <3>1, <3>2 DEF AirtimeInv, RowsAreTrue
  <2> HIDE DEF n
  <2>2. \A k \in Airtime!Refs : k > n => k >= n
    BY <1>1, AirtimeTypes
  <2>3. airtime[r][n] = "unsent"
    BY <1>1, <2>1
  <2> QED
    BY <1>0, <1>2, <2>1, <2>2, <2>3 DEF AirtimeInv, RowsAreTrue, Out
<1> QED
  BY <1>3, <1>5, <1>6, <1>7 DEF AirtimeInv

\* Every step of the airtime payouts preserves their invariant.
LEMMA NextAirtime ==
  ASSUME AirtimeInv, Airtime!Next
  PROVE  AirtimeInv'
<1>1. CASE Airtime!Crash
  <2>1. /\ crashes' \in 0..MaxAirtimeCrashes /\ dispatches' = {}
        /\ UNCHANGED <<state, txRef, requestId, airtime, reports, unanswered, early>>
    BY <1>1, AirtimeTypes DEF AirtimeInv, Airtime!TypeOK, Airtime!Crash
  <2> QED
    BY <2>1 DEF AirtimeInv, Airtime!TypeOK, Airtime!OneDispatchPerRow, DispatchesAreTrue,
                ReportsAreTrue, RowsAreTrue, Out
<1>2. ASSUME NEW d \in dispatches, Airtime!RunDispatch(d) PROVE AirtimeInv'
  BY <1>2, StepGiveUp, StepGoOn, StepStoreRequestId DEF Airtime!RunDispatch
<1> QED
  BY <1>1, <1>2, StepClaimRow, StepRetryAirtime, StepDeliver, StepHandleReport DEF Airtime!Next

\* They start with it.
LEMMA InitAirtime == Airtime!Init => AirtimeInv
<1> SUFFICES ASSUME Airtime!Init PROVE AirtimeInv
  OBVIOUS
<1>1. MaxRef \in Nat \ {0} /\ MaxAirtimeCrashes \in Nat
  BY PayoutsAssumption DEF Airtime!MaxRefAssumption, Airtime!MaxCrashesAssumption
<1>2. 1 \in Airtime!Refs /\ \A k \in Airtime!Refs : ~(k < 1)
  BY <1>1 DEF Airtime!Refs
<1>3. Airtime!TypeOK
  <2>1. state \in [Rows -> {"pending", "processing", "successful", "failed"}]
    BY DEF Airtime!Init
  <2>2. txRef \in [Rows -> Airtime!Refs] /\ requestId \in [Rows -> Airtime!Refs \cup {Airtime!NoId}]
    BY <1>2 DEF Airtime!Init
  <2>3. airtime \in [Rows -> [Airtime!Refs ->
                       {"unsent", "refused", "queued", "delivered", "undelivered"}]]
    BY DEF Airtime!Init
  <2>4. crashes \in 0..MaxAirtimeCrashes
    BY <1>1 DEF Airtime!Init
  <2>5. dispatches \subseteq Airtime!Dispatch /\ reports \subseteq Airtime!Report
    BY DEF Airtime!Init
  <2>6. unanswered \subseteq Rows /\ early \subseteq Rows
    BY DEF Airtime!Init
  <2> QED
    BY <2>1, <2>2, <2>3, <2>4, <2>5, <2>6 DEF Airtime!TypeOK
<1>4. Airtime!OneDispatchPerRow /\ DispatchesAreTrue /\ ReportsAreTrue
  BY DEF Airtime!Init, Airtime!OneDispatchPerRow, DispatchesAreTrue, ReportsAreTrue
<1>5. RowsAreTrue
  BY <1>2 DEF Airtime!Init, RowsAreTrue
<1> QED
  BY <1>3, <1>4, <1>5 DEF AirtimeInv

-----------------------------------------------------------------------------
(* Counting what was sent and paid                                          *)

\* A set with at most one element has at most one.
LEMMA AtMostOne ==
  ASSUME NEW S, NEW x, \A y \in S : y = x
  PROVE  Cardinality(S) <= 1
<1>1. CASE S = {}
  BY <1>1, FS_EmptySet
<1>2. CASE S # {}
  <2>1. S = {x}
    BY <1>2
  <2>2. Cardinality({x}) = 1
    BY FS_Singleton
  <2> QED
    BY <2>1, <2>2
<1> QED
  BY <1>1, <1>2

\* The numbers of elements are the same for all modules.
LEMMA SameCardinalities ==
  \A S : Airtime!Cardinality(S) = Cardinality(S) /\ MobileMoney!Cardinality(S) = Cardinality(S)
BY DEF Airtime!Cardinality, MobileMoney!Cardinality, Cardinality

\* With every send answered, nothing is out but under the id the row carries.
LEMMA OnlyItsIdIsOut ==
  ASSUME AirtimeInv, NEW r \in Rows \ unanswered, NEW k \in Airtime!Sent(r)
  PROVE  k = txRef[r] /\ Out(r, k)
<1>1. k \in Airtime!Refs /\ k \in Nat /\ txRef[r] \in Nat /\ Out(r, k)
  BY AirtimeTypes DEF Airtime!Sent, Out
<1>2. ~(k < txRef[r]) /\ ~(k > txRef[r])
  BY <1>1 DEF AirtimeInv, RowsAreTrue, Out
<1> QED
  BY <1>1, <1>2

LEMMA AirtimeSentOnce == AirtimeInv => Airtime!SentOnceIfAnswered
<1> SUFFICES ASSUME AirtimeInv, NEW r \in Rows \ unanswered
             PROVE  Cardinality(Airtime!Sent(r)) <= 1
  BY SameCardinalities DEF Airtime!SentOnceIfAnswered
<1> QED
  BY OnlyItsIdIsOut, AtMostOne

-----------------------------------------------------------------------------
(* Steps of a mobile money prize                                            *)

\* Types the steps need, spelled out.
LEMMA MobileMoneyTypes ==
  ASSUME MobileMoneyInv
  PROVE  /\ \A r \in Rows : /\ txRef[r] \in MobileMoney!Refs /\ txRef[r] \in Nat
                            /\ requestId[r] \in MobileMoney!Refs \cup {MobileMoney!NoRef}
                            /\ state[r] \in {"pending", "processing", "successful", "failed"}
         /\ \A p \in payouts : /\ p \in MobileMoney!Payout /\ p.row \in Rows
                               /\ p.ref \in MobileMoney!Refs /\ p.ref \in Nat
                               /\ p.seen \in MobileMoney!Refs
         /\ \A s \in job.settle : s.row \in Rows /\ s.ref \in MobileMoney!Refs
         /\ \A r \in Rows, k \in MobileMoney!Refs :
               airtel[r][k] \in {"unknown", "pending", "paid", "refused"}
         /\ MobileMoney!Refs = 1..MaxRef /\ MobileMoney!NoRef = 0 /\ MaxRef \in Nat \ {0}
         /\ MaxPayoutCrashes \in Nat /\ MobileMoney!Orderly \subseteq Rows
<1>1. MaxRef \in Nat \ {0} /\ MaxPayoutCrashes \in Nat
  BY PayoutsAssumption DEF MobileMoney!MaxRefAssumption, MobileMoney!MaxCrashesAssumption
<1>2. MobileMoney!Refs = 1..MaxRef /\ MobileMoney!NoRef = 0
  BY DEF MobileMoney!Refs, MobileMoney!NoRef
<1>3. \A p \in payouts : /\ p \in MobileMoney!Payout /\ p.row \in Rows
                         /\ p.ref \in MobileMoney!Refs /\ p.ref \in Nat
                         /\ p.seen \in MobileMoney!Refs
  <2>1. \A k \in MobileMoney!Refs : k \in Nat
    BY <1>1, <1>2
  <2> QED
    BY <2>1 DEF MobileMoneyInv, MobileMoney!TypeOK, MobileMoney!Payout
<1>4. \A s \in job.settle : s.row \in Rows /\ s.ref \in MobileMoney!Refs
  BY DEF MobileMoneyInv, MobileMoney!TypeOK, MobileMoney!Job, MobileMoney!Settle
<1>5. \A r \in Rows : /\ txRef[r] \in MobileMoney!Refs
                      /\ requestId[r] \in MobileMoney!Refs \cup {MobileMoney!NoRef}
                      /\ state[r] \in {"pending", "processing", "successful", "failed"}
  BY DEF MobileMoneyInv, MobileMoney!TypeOK
<1>6. \A r \in Rows, k \in MobileMoney!Refs :
         airtel[r][k] \in {"unknown", "pending", "paid", "refused"}
  BY DEF MobileMoneyInv, MobileMoney!TypeOK
<1>7. MobileMoney!Orderly \subseteq Rows
  BY DEF MobileMoney!Orderly
<1>8. \A r \in Rows : txRef[r] \in Nat
  BY <1>1, <1>2, <1>5
<1> QED
  BY <1>1, <1>2, <1>3, <1>4, <1>5, <1>6, <1>7, <1>8

\* The common part of the steps after which rows and operator are as before, and which only
\* take payouts up to be claimed, drop some, or move the job on.
LEMMA OnlyPlansChange ==
  ASSUME MobileMoneyInv,
         UNCHANGED <<state, txRef, requestId, provider, airtel, byHand, mixed, misjudged>>,
         \A p \in payouts' : p \in payouts \/ (p.next = "claim" /\ p \in MobileMoney!Payout),
         job' \in MobileMoney!Job, toPay' \subseteq Rows, crashes' \in 0..MaxPayoutCrashes,
         \A s \in job'.settle : s \in job.settle \/
            /\ s.answer = "SUCCESS" => airtel[s.row][s.ref] = "paid"
            /\ s.answer = "FAILED"  => airtel[s.row][s.ref] = "refused"
  PROVE  MobileMoneyInv'
<1>1. MobileMoney!TypeOK'
  BY DEF MobileMoneyInv, MobileMoney!TypeOK
<1>2. MobileMoney!Orderly' = MobileMoney!Orderly
  BY DEF MobileMoney!Orderly
<1>3. AnswersAreTrue'
  BY <1>2 DEF MobileMoneyInv, AnswersAreTrue, Unpaid
<1>4. ClaimsAreExclusive'
  BY <1>2 DEF MobileMoneyInv, ClaimsAreExclusive
<1>5. StatusIsTrue' /\ OtherIdsUnpaid' /\ SuccessWasPaid'
  BY <1>2 DEF MobileMoneyInv, StatusIsTrue, OtherIdsUnpaid, SuccessWasPaid, Unpaid
<1> QED
  BY <1>1, <1>3, <1>4, <1>5 DEF MobileMoneyInv

\* Who takes payouts up, the job's queries and its end, and a restart.
LEMMA PlanningSteps ==
  ASSUME MobileMoneyInv,
         \/ \E p \in payouts : MobileMoney!PutOffPayout(p)
         \/ \E r \in Rows : MobileMoney!PayCreated(r)
         \/ MobileMoney!StartRun \/ MobileMoney!StartEnquiries \/ MobileMoney!FinishRun
         \/ \E v \in job.pending : MobileMoney!PayPending(v)
         \/ \E v \in job.inFlight : \E answer \in MobileMoney!EnquiryAnswers(v.row, v.ref) :
               MobileMoney!Enquire(v, answer)
         \/ MobileMoney!Crash
  PROVE  MobileMoneyInv'
<1>0. /\ job \in MobileMoney!Job /\ payouts \subseteq MobileMoney!Payout /\ toPay \subseteq Rows
      /\ crashes \in 0..MaxPayoutCrashes /\ MaxPayoutCrashes \in Nat
      /\ job.pending \subseteq MobileMoney!Visit /\ job.inFlight \subseteq MobileMoney!Visit
      /\ job.settle \subseteq MobileMoney!Settle
  BY MobileMoneyTypes DEF MobileMoneyInv, MobileMoney!TypeOK, MobileMoney!Job
<1>1. ASSUME NEW r \in Rows, NEW seen \in MobileMoney!Refs, NEW by \in {"creator", "job", "retry"}
      PROVE  /\ MobileMoney!NewPayout(r, seen, by) \in MobileMoney!Payout
             /\ MobileMoney!NewPayout(r, seen, by).next = "claim"
  BY DEF MobileMoney!NewPayout, MobileMoney!Payout, MobileMoney!Answer
<1>2. MobileMoney!IdleJob \in MobileMoney!Job /\ MobileMoney!IdleJob.settle = {}
  BY DEF MobileMoney!IdleJob, MobileMoney!Job
<1>3. ASSUME NEW p \in payouts, MobileMoney!PutOffPayout(p) PROVE MobileMoneyInv'
  BY <1>0, <1>3, OnlyPlansChange DEF MobileMoney!PutOffPayout
<1>4. ASSUME NEW r \in Rows, MobileMoney!PayCreated(r) PROVE MobileMoneyInv'
  <2>1. 1 \in MobileMoney!Refs
    BY MobileMoneyTypes
  <2> QED
    BY <1>0, <1>1, <1>4, <2>1, OnlyPlansChange DEF MobileMoney!PayCreated
<1>5. CASE MobileMoney!StartRun
  <2>1. PICK rested \in SUBSET {r \in Rows : state[r] = "pending"} :
           job' = [MobileMoney!IdleJob EXCEPT !.phase = "paying",
                     !.pending = {[row |-> r, ref |-> txRef[r]] : r \in MobileMoney!FirstBatch(rested)}]
    BY <1>5 DEF MobileMoney!StartRun
  <2> DEFINE V == {[row |-> r, ref |-> txRef[r]] : r \in MobileMoney!FirstBatch(rested)}
  <2>2. V \subseteq MobileMoney!Visit
    <3>1. MobileMoney!FirstBatch(rested) \subseteq Rows
      BY DEF MobileMoney!FirstBatch
    <3>2. \A r \in Rows : [row |-> r, ref |-> txRef[r]] \in MobileMoney!Visit
      BY MobileMoneyTypes DEF MobileMoney!Visit
    <3> QED
      BY <3>1, <3>2
  <2> HIDE DEF V
  <2>3. job' \in MobileMoney!Job /\ job'.settle = {}
    BY <1>2, <2>1, <2>2 DEF V, MobileMoney!Job, MobileMoney!IdleJob
  <2> QED
    BY <1>0, <1>5, <2>3, OnlyPlansChange DEF MobileMoney!StartRun
<1>6. CASE MobileMoney!StartEnquiries
  <2>0. PICK rows \in MobileMoney!Batches(MobileMoney!InFlight) :
           job' = [MobileMoney!IdleJob EXCEPT !.phase = "enquiring",
                     !.inFlight = {[row |-> r, ref |-> requestId[r]] :
                                      r \in {q \in rows : requestId[q] # MobileMoney!NoRef}}]
    BY <1>6 DEF MobileMoney!StartEnquiries
  <2> DEFINE V == {[row |-> r, ref |-> requestId[r]] :
                     r \in {q \in rows : requestId[q] # MobileMoney!NoRef}}
  <2>1. V \subseteq MobileMoney!Visit
    <3>1. rows \subseteq Rows
      BY DEF MobileMoney!Batches, MobileMoney!InFlight
    <3>2. \A r \in Rows : requestId[r] # MobileMoney!NoRef =>
                             [row |-> r, ref |-> requestId[r]] \in MobileMoney!Visit
      BY MobileMoneyTypes DEF MobileMoney!Visit
    <3> QED
      BY <3>1, <3>2
  <2>2. job' = [MobileMoney!IdleJob EXCEPT !.phase = "enquiring", !.inFlight = V]
    BY <2>0
  <2> HIDE DEF V
  <2>3. job' \in MobileMoney!Job /\ job'.settle = {}
    BY <1>2, <2>1, <2>2 DEF MobileMoney!Job, MobileMoney!IdleJob
  <2> QED
    BY <1>0, <1>6, <2>3, OnlyPlansChange DEF MobileMoney!StartEnquiries
<1>7. CASE MobileMoney!FinishRun
  BY <1>0, <1>2, <1>7, OnlyPlansChange DEF MobileMoney!FinishRun
<1>8. ASSUME NEW v \in job.pending, MobileMoney!PayPending(v) PROVE MobileMoneyInv'
  <2>1. v.row \in Rows /\ v.ref \in MobileMoney!Refs
    BY <1>0 DEF MobileMoney!Visit
  <2>2. job' \in MobileMoney!Job /\ job'.settle = job.settle
    BY <1>0, <1>8 DEF MobileMoney!PayPending, MobileMoney!Job
  <2>3. /\ payouts' = payouts \cup {MobileMoney!NewPayout(v.row, v.ref, "job")}
        /\ UNCHANGED <<state, txRef, requestId, provider, toPay, airtel, byHand, mixed, misjudged,
                       crashes>>
    BY <1>8 DEF MobileMoney!PayPending
  <2> QED
    BY <1>0, <1>1, <2>1, <2>2, <2>3, OnlyPlansChange
<1>9. ASSUME NEW v \in job.inFlight, NEW answer \in MobileMoney!EnquiryAnswers(v.row, v.ref),
             MobileMoney!Enquire(v, answer)
      PROVE  MobileMoneyInv'
  <2>1. v.row \in Rows /\ v.ref \in MobileMoney!Refs
    BY <1>0 DEF MobileMoney!Visit
  <2>2. airtel[v.row][v.ref] \in {"unknown", "pending", "paid", "refused"}
    BY <2>1, MobileMoneyTypes
  <2>3. /\ answer \in MobileMoney!Answer
        /\ answer = "SUCCESS" => airtel[v.row][v.ref] = "paid"
        /\ answer = "FAILED"  => airtel[v.row][v.ref] = "refused"
    BY <2>2 DEF MobileMoney!EnquiryAnswers, MobileMoney!Answer
  <2> DEFINE s == [row |-> v.row, ref |-> v.ref, answer |-> answer]
  <2>4. s \in MobileMoney!Settle /\ s.row = v.row /\ s.ref = v.ref /\ s.answer = answer
    BY <2>1, <2>3 DEF MobileMoney!Settle
  <2>5. job' = [job EXCEPT !.inFlight = job.inFlight \ {v}, !.settle = {s}]
    BY <1>9 DEF MobileMoney!Enquire
  <2> HIDE DEF s
  <2>6. job' \in MobileMoney!Job /\ job'.settle = {s}
    BY <1>0, <2>4, <2>5 DEF MobileMoney!Job
  <2>7. UNCHANGED <<state, txRef, requestId, provider, toPay, payouts, airtel, byHand, mixed,
                    misjudged, crashes>>
    BY <1>9 DEF MobileMoney!Enquire
  <2> QED
    BY <1>0, <2>3, <2>4, <2>6, <2>7, OnlyPlansChange
<1>10. CASE MobileMoney!Crash
  <2>1. crashes' \in 0..MaxPayoutCrashes
    BY <1>0, <1>10 DEF MobileMoney!Crash
  <2> QED
    BY <1>2, <1>10, <2>1, OnlyPlansChange DEF MobileMoney!Crash
<1> QED
  BY <1>3, <1>4, <1>5, <1>6, <1>7, <1>8, <1>9, <1>10

\* Answers stay true while the operator does nothing final and no new one comes in.
LEMMA AnswersStay ==
  ASSUME AnswersAreTrue, MobileMoney!Orderly' \subseteq MobileMoney!Orderly,
         \A p \in payouts' : p.next = "settle" => p \in payouts,
         job'.settle \subseteq job.settle,
         \A p \in payouts : p.row \in Rows /\ p.ref \in MobileMoney!Refs,
         \A s \in job.settle : s.row \in Rows /\ s.ref \in MobileMoney!Refs,
         \A r \in Rows, k \in MobileMoney!Refs :
            airtel[r][k] # "pending" => airtel'[r][k] = airtel[r][k]
  PROVE  AnswersAreTrue'
<1>1. ASSUME NEW p \in payouts', p.next = "settle"
      PROVE  /\ p.answer = "SUCCESS" => airtel'[p.row][p.ref] = "paid"
             /\ p.answer = "FAILED" /\ p.row \in MobileMoney!Orderly' =>
                   airtel'[p.row][p.ref] \in {"unknown", "refused"}
  BY <1>1 DEF AnswersAreTrue, Unpaid
<1>2. ASSUME NEW s \in job'.settle
      PROVE  /\ s.answer = "SUCCESS" => airtel'[s.row][s.ref] = "paid"
             /\ s.answer = "FAILED"  => airtel'[s.row][s.ref] = "refused"
  BY <1>2 DEF AnswersAreTrue
<1> QED
  BY <1>1, <1>2 DEF AnswersAreTrue, Unpaid

\* The operator decides what it has taken on, which nobody has called refused or unknown.
LEMMA StepDecide ==
  ASSUME MobileMoneyInv, NEW r \in Rows, NEW k \in MobileMoney!Refs, MobileMoney!Decide(r, k)
  PROVE  MobileMoneyInv'
<1>1. PICK x \in {"paid", "refused"} : airtel' = [airtel EXCEPT ![r][k] = x]
  BY DEF MobileMoney!Decide
<1>2. /\ airtel[r][k] = "pending"
      /\ UNCHANGED <<state, txRef, requestId, provider, toPay, payouts, job, byHand, mixed,
                     misjudged, crashes>>
  BY DEF MobileMoney!Decide
<1>3. /\ airtel' \in [Rows -> [MobileMoney!Refs -> {"unknown", "pending", "paid", "refused"}]]
      /\ \A s \in Rows, l \in MobileMoney!Refs :
            airtel'[s][l] = IF s = r /\ l = k THEN x ELSE airtel[s][l]
  BY <1>1, OneEntry DEF MobileMoneyInv, MobileMoney!TypeOK
<1>4. MobileMoney!TypeOK' /\ MobileMoney!Orderly' = MobileMoney!Orderly
  BY <1>2, <1>3 DEF MobileMoneyInv, MobileMoney!TypeOK, MobileMoney!Orderly
<1>5. AnswersAreTrue'
  <2>1. \A s \in Rows, l \in MobileMoney!Refs : airtel[s][l] # "pending" => airtel'[s][l] = airtel[s][l]
    BY <1>2, <1>3
  <2> QED
    BY <1>2, <1>4, <2>1, MobileMoneyTypes, AnswersStay DEF MobileMoneyInv
<1>6. ClaimsAreExclusive'
  BY <1>2, <1>3, <1>4, MobileMoneyTypes DEF MobileMoneyInv, ClaimsAreExclusive
<1>7. StatusIsTrue' /\ OtherIdsUnpaid'
  BY <1>2, <1>3, <1>4, MobileMoneyTypes DEF MobileMoneyInv, StatusIsTrue, OtherIdsUnpaid, Unpaid
<1>8. SuccessWasPaid'
  BY <1>2, <1>3, MobileMoneyTypes DEF MobileMoneyInv, SuccessWasPaid
<1> QED
  BY <1>4, <1>5, <1>6, <1>7, <1>8 DEF MobileMoneyInv

\* A pending row that cannot be paid fails: nobody has claimed it under its id.
LEMMA StepRejectPayout ==
  ASSUME MobileMoneyInv, NEW p \in payouts, MobileMoney!RejectPayout(p)
  PROVE  MobileMoneyInv'
<1>0. /\ p.row \in Rows /\ payouts' = payouts \ {p}
      /\ UNCHANGED <<txRef, requestId, provider, toPay, job, airtel, byHand, mixed, misjudged, crashes>>
  BY MobileMoneyTypes DEF MobileMoney!RejectPayout
<1>1. /\ state' \in [Rows -> {"pending", "processing", "successful", "failed"}]
      /\ \A s \in Rows : state'[s] = state[s] \/ (state[s] = "pending" /\ state'[s] = "failed")
  BY <1>0 DEF MobileMoneyInv, MobileMoney!TypeOK, MobileMoney!RejectPayout
<1>2. MobileMoney!TypeOK' /\ MobileMoney!Orderly' = MobileMoney!Orderly
  BY <1>0, <1>1 DEF MobileMoneyInv, MobileMoney!TypeOK, MobileMoney!Orderly
<1>3. AnswersAreTrue'
  BY <1>0, <1>2, AnswersStay, MobileMoneyTypes DEF MobileMoneyInv
<1>4. ClaimsAreExclusive'
  BY <1>0, <1>1, <1>2, MobileMoneyTypes DEF MobileMoneyInv, ClaimsAreExclusive
<1>5. StatusIsTrue' /\ OtherIdsUnpaid' /\ SuccessWasPaid'
  BY <1>0, <1>1, <1>2, MobileMoneyTypes
     DEF MobileMoneyInv, StatusIsTrue, OtherIdsUnpaid, SuccessWasPaid, Unpaid
<1> QED
  BY <1>2, <1>3, <1>4, <1>5 DEF MobileMoneyInv

\* The claim: who had read the id the row has gets that id to himself.
LEMMA StepClaimPayout ==
  ASSUME MobileMoneyInv, NEW p \in payouts, MobileMoney!ClaimPayout(p)
  PROVE  MobileMoneyInv'
<1> DEFINE r == p.row
           e == [p EXCEPT !.next = "limit", !.ref = txRef[p.row]]
<1>0. p \in MobileMoney!Payout /\ r \in Rows /\ txRef[r] \in MobileMoney!Refs
  BY MobileMoneyTypes
<1>1. CASE ~MobileMoney!Claimable(r)
  <2>1. /\ payouts' = payouts \ {p}
        /\ UNCHANGED <<state, txRef, requestId, provider, toPay, job, airtel, byHand, mixed,
                       misjudged, crashes>>
    BY <1>1 DEF MobileMoney!ClaimPayout
  <2>2. job \in MobileMoney!Job /\ toPay \subseteq Rows /\ crashes \in 0..MaxPayoutCrashes
    BY DEF MobileMoneyInv, MobileMoney!TypeOK
  <2> QED
    BY <2>1, <2>2, OnlyPlansChange
<1>2. CASE MobileMoney!Claimable(r)
  <2>1. /\ state[r] = "pending" /\ state' = [state EXCEPT ![r] = "processing"]
        /\ provider' = [provider EXCEPT ![r] = "airtel_money"]
        /\ requestId' = [requestId EXCEPT ![r] = p.seen]
        /\ payouts' = (payouts \ {p}) \cup {e}
        /\ mixed' = IF p.seen # txRef[r] THEN mixed \cup {r} ELSE mixed
        /\ UNCHANGED <<txRef, toPay, job, airtel, byHand, misjudged, crashes>>
    BY <1>2 DEF MobileMoney!ClaimPayout, MobileMoney!Claimable
  <2>2. e \in MobileMoney!Payout /\ e.row = r /\ e.next = "limit" /\ e.ref = txRef[r]
    BY <1>0 DEF MobileMoney!Payout
  <2>3. p.seen \in MobileMoney!Refs
    BY MobileMoneyTypes
  <2> HIDE DEF e, r
  <2>4. /\ \A s \in Rows : state'[s] = IF s = r THEN "processing" ELSE state[s]
        /\ \A s \in Rows : requestId'[s] = IF s = r THEN p.seen ELSE requestId[s]
    BY <2>1 DEF MobileMoneyInv, MobileMoney!TypeOK
  <2>5. MobileMoney!TypeOK'
    <3>1. mixed' \subseteq Rows
      BY <1>0, <2>1 DEF MobileMoneyInv, MobileMoney!TypeOK
    <3>2. payouts' \subseteq MobileMoney!Payout
      BY <2>1, <2>2 DEF MobileMoneyInv, MobileMoney!TypeOK
    <3> QED
      BY <1>0, <2>1, <2>3, <3>1, <3>2 DEF MobileMoneyInv, MobileMoney!TypeOK
  <2>6. /\ MobileMoney!Orderly' \subseteq MobileMoney!Orderly
        /\ r \in MobileMoney!Orderly' => p.seen = txRef[r]
    BY <2>1 DEF MobileMoney!Orderly
  <2>7. AnswersAreTrue'
    BY <2>1, <2>2, <2>6 DEF MobileMoneyInv, AnswersAreTrue, Unpaid
  <2>8. ClaimsAreExclusive'
    <3>1. \A q \in payouts : q.next # "claim" /\ q.row = r /\ r \in MobileMoney!Orderly =>
                                q.ref # txRef[r] /\ q.next \notin {"limit", "send"}
      BY <2>1 DEF MobileMoneyInv, ClaimsAreExclusive
    <3>2. r \in MobileMoney!Orderly => airtel[r][txRef[r]] = "unknown"
      BY <2>1 DEF MobileMoneyInv, StatusIsTrue
    <3>3. txRef[r] \in Nat
      BY <1>0, MobileMoneyTypes DEF r
    <3> SUFFICES ASSUME NEW c \in payouts', c.next # "claim", c.row \in MobileMoney!Orderly'
                 PROVE  /\ c.ref <= txRef[c.row]
                        /\ \A q \in payouts' : q.next # "claim" /\ q.row = c.row /\ q.ref = c.ref => q = c
                        /\ c.ref = txRef[c.row] => state'[c.row] # "pending"
                        /\ c.next \in {"limit", "send"} =>
                              /\ c.ref = txRef[c.row] /\ state'[c.row] = "processing"
                              /\ airtel[c.row][c.ref] = "unknown"
      BY <2>1 DEF ClaimsAreExclusive
    <3>4. CASE c = e
      BY <2>1, <2>2, <2>4, <2>6, <3>1, <3>2, <3>3, <3>4, <1>0 DEF r
    <3>5. CASE c # e
      <4>1. c \in payouts /\ c.row \in Rows
        BY <2>1, <3>5, MobileMoneyTypes
      <4> QED
        BY <2>1, <2>2, <2>4, <2>6, <3>1, <3>5, <4>1 DEF MobileMoneyInv, ClaimsAreExclusive
    <3> QED
      BY <3>4, <3>5
  <2>9. StatusIsTrue' /\ OtherIdsUnpaid'
    BY <2>1, <2>4, <2>6, MobileMoneyTypes
       DEF MobileMoneyInv, StatusIsTrue, OtherIdsUnpaid, Unpaid
  <2>10. SuccessWasPaid'
    BY <2>1, <2>4 DEF MobileMoneyInv, SuccessWasPaid
  <2> QED
    BY <2>5, <2>7, <2>8, <2>9, <2>10 DEF MobileMoneyInv
<1> QED
  BY <1>1, <1>2

\* Below the limit, nothing changes but the plan of the call.
LEMMA StepWithinLimit ==
  ASSUME MobileMoneyInv, NEW p \in payouts, MobileMoney!WithinLimit(p)
  PROVE  MobileMoneyInv'
<1> DEFINE e == [p EXCEPT !.next = "send"]
<1>1. /\ p.next = "limit" /\ payouts' = (payouts \ {p}) \cup {e}
      /\ UNCHANGED <<state, txRef, requestId, provider, toPay, job, airtel, byHand, mixed,
                     misjudged, crashes>>
  BY DEF MobileMoney!WithinLimit
<1>2. e \in MobileMoney!Payout /\ e.row = p.row /\ e.ref = p.ref /\ e.next = "send"
  BY MobileMoneyTypes DEF MobileMoney!Payout
<1> HIDE DEF e
<1>3. MobileMoney!TypeOK' /\ MobileMoney!Orderly' = MobileMoney!Orderly
  BY <1>1, <1>2 DEF MobileMoneyInv, MobileMoney!TypeOK, MobileMoney!Orderly
<1>4. AnswersAreTrue'
  BY <1>1, <1>2, <1>3 DEF MobileMoneyInv, AnswersAreTrue, Unpaid
<1>5. ClaimsAreExclusive'
  BY <1>1, <1>2, <1>3 DEF MobileMoneyInv, ClaimsAreExclusive
<1>6. StatusIsTrue' /\ OtherIdsUnpaid' /\ SuccessWasPaid'
  BY <1>1, <1>3 DEF MobileMoneyInv, StatusIsTrue, OtherIdsUnpaid, SuccessWasPaid, Unpaid
<1> QED
  BY <1>3, <1>4, <1>5, <1>6 DEF MobileMoneyInv

\* Above the limit the row goes back to the queue, with nothing sent under its id.
LEMMA StepOverLimit ==
  ASSUME MobileMoneyInv, NEW p \in payouts, MobileMoney!OverLimit(p)
  PROVE  MobileMoneyInv'
<1> DEFINE r == p.row
<1>0. /\ r \in Rows /\ p.next = "limit" /\ payouts' = payouts \ {p}
      /\ UNCHANGED <<txRef, toPay, job, airtel, byHand, mixed, misjudged, crashes>>
  BY MobileMoneyTypes DEF MobileMoney!OverLimit
<1>1. CASE state[r] # "processing"
  <2>1. UNCHANGED <<state, provider, requestId>>
    BY <1>1 DEF MobileMoney!OverLimit
  <2>2. job \in MobileMoney!Job /\ toPay \subseteq Rows /\ crashes \in 0..MaxPayoutCrashes
    BY DEF MobileMoneyInv, MobileMoney!TypeOK
  <2> QED
    BY <1>0, <2>1, <2>2, OnlyPlansChange
<1>2. CASE state[r] = "processing"
  <2>1. /\ state'     = [state EXCEPT ![r] = "pending"]
        /\ provider'  = [provider EXCEPT ![r] = "mobile_money"]
        /\ requestId' = [requestId EXCEPT ![r] = MobileMoney!NoRef]
    BY <1>2 DEF MobileMoney!OverLimit
  <2> HIDE DEF r
  <2>2. /\ \A s \in Rows : state'[s] = IF s = r THEN "pending" ELSE state[s]
        /\ \A s \in Rows : s # r => requestId'[s] = requestId[s]
    BY <2>1 DEF MobileMoneyInv, MobileMoney!TypeOK
  <2>3. MobileMoney!TypeOK' /\ MobileMoney!Orderly' = MobileMoney!Orderly
    BY <1>0, <2>1 DEF MobileMoneyInv, MobileMoney!TypeOK, MobileMoney!Orderly
  <2>4. AnswersAreTrue'
    BY <1>0, <2>3, AnswersStay, MobileMoneyTypes DEF MobileMoneyInv
  <2>5. r \in MobileMoney!Orderly =>
           /\ p.ref = txRef[r] /\ airtel[r][txRef[r]] = "unknown" /\ r \notin byHand
           /\ \A q \in payouts : q.next # "claim" /\ q.row = r /\ q.ref = txRef[r] => q = p
    BY <1>0, <1>2 DEF r, MobileMoneyInv, ClaimsAreExclusive, StatusIsTrue
  <2>6. ClaimsAreExclusive'
    BY <1>0, <2>2, <2>3, <2>5, MobileMoneyTypes DEF MobileMoneyInv, ClaimsAreExclusive
  <2>7. StatusIsTrue' /\ OtherIdsUnpaid'
    BY <1>0, <2>2, <2>3, <2>5, MobileMoneyTypes
       DEF MobileMoneyInv, StatusIsTrue, OtherIdsUnpaid, Unpaid
  <2>8. SuccessWasPaid'
    BY <1>0, <2>2 DEF MobileMoneyInv, SuccessWasPaid
  <2> QED
    BY <2>3, <2>4, <2>6, <2>7, <2>8 DEF MobileMoneyInv
<1> QED
  BY <1>1, <1>2

\* What the operator makes of a request, and what is heard of it.
LEMMA OutcomesAreTrue ==
  ASSUME NEW r, NEW k, airtel[r][k] \in {"unknown", "pending", "paid", "refused"},
         NEW o \in MobileMoney!SendOutcomes(r, k)
  PROVE  /\ o.airtel \in {"unknown", "pending", "paid", "refused"}
         /\ o.answer \in MobileMoney!Answer
         /\ airtel[r][k] # "unknown" => o.airtel = airtel[r][k]
         /\ o.answer = "SUCCESS" => o.airtel = "paid"
         /\ o.answer = "FAILED"  => o.airtel \in {"unknown", "refused"}
BY DEF MobileMoney!SendOutcomes, MobileMoney!Answer

\* The request: only the call that has the id to itself sends under it.
LEMMA StepSendPayout ==
  ASSUME MobileMoneyInv, NEW p \in payouts, MobileMoney!SendPayout(p)
  PROVE  MobileMoneyInv'
<1>1. PICK o \in MobileMoney!SendOutcomes(p.row, p.ref) :
         /\ airtel'  = [airtel EXCEPT ![p.row][p.ref] = o.airtel]
         /\ payouts' = (payouts \ {p}) \cup {[p EXCEPT !.next = "settle", !.answer = o.answer]}
  BY DEF MobileMoney!SendPayout
<1>2. /\ p.next = "send"
      /\ UNCHANGED <<state, txRef, requestId, provider, toPay, job, byHand, mixed, misjudged, crashes>>
  BY DEF MobileMoney!SendPayout
<1> DEFINE r == p.row
           k == p.ref
           e == [p EXCEPT !.next = "settle", !.answer = o.answer]
<1>3. r \in Rows /\ k \in MobileMoney!Refs /\ airtel[r][k] \in {"unknown", "pending", "paid", "refused"}
  BY MobileMoneyTypes
<1>4. /\ o.airtel \in {"unknown", "pending", "paid", "refused"}
      /\ o.answer \in MobileMoney!Answer
      /\ airtel[r][k] # "unknown" => o.airtel = airtel[r][k]
      /\ o.answer = "SUCCESS" => o.airtel = "paid"
      /\ o.answer = "FAILED"  => o.airtel \in {"unknown", "refused"}
  BY <1>3, OutcomesAreTrue
<1>5. /\ airtel' \in [Rows -> [MobileMoney!Refs -> {"unknown", "pending", "paid", "refused"}]]
      /\ \A s \in Rows, l \in MobileMoney!Refs :
            airtel'[s][l] = IF s = r /\ l = k THEN o.airtel ELSE airtel[s][l]
  <2> DEFINE x == o.airtel
  <2>1. /\ x \in {"unknown", "pending", "paid", "refused"}
        /\ airtel' = [airtel EXCEPT ![r][k] = x]
        /\ airtel \in [Rows -> [MobileMoney!Refs -> {"unknown", "pending", "paid", "refused"}]]
    BY <1>1, <1>4 DEF MobileMoneyInv, MobileMoney!TypeOK
  <2> HIDE DEF x, r, k
  <2>2. /\ airtel' \in [Rows -> [MobileMoney!Refs -> {"unknown", "pending", "paid", "refused"}]]
        /\ \A s \in Rows, l \in MobileMoney!Refs :
              airtel'[s][l] = IF s = r /\ l = k THEN x ELSE airtel[s][l]
    BY <1>3, <2>1, OneEntry
  <2> QED
    BY <2>2 DEF x
<1>6. /\ e \in MobileMoney!Payout /\ e.row = r /\ e.ref = k /\ e.next = "settle"
      /\ e.answer = o.answer /\ payouts' = (payouts \ {p}) \cup {e} /\ e # p
  <2>1. p \in MobileMoney!Payout
    BY MobileMoneyTypes
  <2> QED
    BY <1>1, <1>2, <1>4, <2>1 DEF MobileMoney!Payout
<1>7. r \in MobileMoney!Orderly =>
         /\ k = txRef[r] /\ state[r] = "processing"
         /\ \A q \in payouts : q.next # "claim" /\ q.row = r /\ q.ref = k => q = p
  BY <1>2 DEF MobileMoneyInv, ClaimsAreExclusive
<1> HIDE DEF e, r, k
<1>8. /\ \A s \in Rows, l \in MobileMoney!Refs : airtel[s][l] # "unknown" => airtel'[s][l] = airtel[s][l]
      /\ MobileMoney!Orderly' = MobileMoney!Orderly
  BY <1>2, <1>4, <1>5 DEF MobileMoney!Orderly
<1>9. MobileMoney!TypeOK'
  <2>1. payouts' \subseteq MobileMoney!Payout
    BY <1>6 DEF MobileMoneyInv, MobileMoney!TypeOK
  <2> QED
    BY <1>2, <1>5, <2>1 DEF MobileMoneyInv, MobileMoney!TypeOK
<1>10. AnswersAreTrue'
  <2>1. ASSUME NEW c \in payouts', c.next = "settle"
        PROVE  /\ c.answer = "SUCCESS" => airtel'[c.row][c.ref] = "paid"
               /\ c.answer = "FAILED" /\ c.row \in MobileMoney!Orderly =>
                     airtel'[c.row][c.ref] \in {"unknown", "refused"}
    <3>1. CASE c = e
      BY <1>3, <1>4, <1>5, <1>6, <3>1
    <3>2. CASE c # e
      <4>1. c \in payouts /\ c # p /\ c.row \in Rows /\ c.ref \in MobileMoney!Refs
        BY <1>6, <3>2, MobileMoneyTypes
      <4>2. /\ c.answer = "SUCCESS" => airtel[c.row][c.ref] = "paid"
            /\ c.answer = "FAILED" /\ c.row \in MobileMoney!Orderly =>
                  airtel[c.row][c.ref] \in {"unknown", "refused"}
        BY <2>1, <4>1 DEF MobileMoneyInv, AnswersAreTrue, Unpaid
      <4>3. c.row \in MobileMoney!Orderly => ~(c.row = r /\ c.ref = k)
        BY <1>7, <2>1, <4>1
      <4> QED
        BY <1>5, <1>8, <4>1, <4>2, <4>3
    <3> QED
      BY <3>1, <3>2
  <2>2. ASSUME NEW s \in job'.settle
        PROVE  /\ s.answer = "SUCCESS" => airtel'[s.row][s.ref] = "paid"
               /\ s.answer = "FAILED"  => airtel'[s.row][s.ref] = "refused"
    BY <1>2, <1>8, <2>2, MobileMoneyTypes DEF MobileMoneyInv, AnswersAreTrue
  <2> QED
    BY <1>8, <2>1, <2>2 DEF AnswersAreTrue, Unpaid
<1>11. ClaimsAreExclusive'
  <2> SUFFICES ASSUME NEW c \in payouts', c.next # "claim", c.row \in MobileMoney!Orderly
               PROVE  /\ c.ref <= txRef[c.row]
                      /\ \A q \in payouts' : q.next # "claim" /\ q.row = c.row /\ q.ref = c.ref => q = c
                      /\ c.ref = txRef[c.row] => state[c.row] # "pending"
                      /\ c.next \in {"limit", "send"} =>
                            /\ c.ref = txRef[c.row] /\ state[c.row] = "processing"
                            /\ airtel'[c.row][c.ref] = "unknown"
    BY <1>2, <1>8 DEF ClaimsAreExclusive
  <2>1. CASE c = e
    <3>1. p.row = r /\ p.ref = k
      BY DEF r, k
    <3>2. k <= txRef[r]
      BY <1>2, <1>6, <2>1, <3>1 DEF MobileMoneyInv, ClaimsAreExclusive
    <3> QED
      BY <1>6, <1>7, <2>1, <3>2
  <2>2. CASE c # e
    <3>1. c \in payouts /\ c # p /\ c.row \in Rows /\ c.ref \in MobileMoney!Refs
      BY <1>6, <2>2, MobileMoneyTypes
    <3>2. ~(c.row = r /\ c.ref = k)
      BY <1>7, <3>1
    <3>3. /\ c.ref <= txRef[c.row]
          /\ \A q \in payouts : q.next # "claim" /\ q.row = c.row /\ q.ref = c.ref => q = c
          /\ c.ref = txRef[c.row] => state[c.row] # "pending"
          /\ c.next \in {"limit", "send"} =>
                /\ c.ref = txRef[c.row] /\ state[c.row] = "processing"
                /\ airtel[c.row][c.ref] = "unknown"
      BY <3>1 DEF MobileMoneyInv, ClaimsAreExclusive
    <3> QED
      BY <1>5, <1>6, <3>1, <3>2, <3>3
  <2> QED
    BY <2>1, <2>2
<1>12. StatusIsTrue' /\ OtherIdsUnpaid'
  <2>1. \A s \in MobileMoney!Orderly : \A l \in MobileMoney!Refs :
           s # r \/ l # txRef[s] => airtel'[s][l] = airtel[s][l]
    BY <1>5, <1>7 DEF MobileMoney!Orderly
  <2>2. ASSUME NEW s \in MobileMoney!Orderly
        PROVE  /\ state[s] = "pending"    => s \notin byHand /\ airtel'[s][txRef[s]] = "unknown"
               /\ state[s] = "processing" => s \notin byHand /\ requestId[s] = txRef[s]
               /\ state[s] = "failed"     => s \notin byHand /\ airtel'[s][txRef[s]] \in {"unknown", "refused"}
               /\ state[s] = "successful" =>
                     IF s \in byHand THEN airtel'[s][txRef[s]] \in {"unknown", "refused"}
                     ELSE airtel'[s][txRef[s]] = "paid"
    <3>1. txRef[s] \in MobileMoney!Refs
      BY MobileMoneyTypes
    <3> QED
      BY <1>7, <2>1, <3>1 DEF MobileMoneyInv, StatusIsTrue, Unpaid
  <2>3. ASSUME NEW s \in MobileMoney!Orderly, NEW l \in MobileMoney!Refs
        PROVE  /\ l < txRef[s] => airtel'[s][l] \in {"unknown", "refused"}
               /\ l > txRef[s] => airtel'[s][l] = "unknown"
    <3>1. l \in Nat /\ txRef[s] \in Nat
      BY MobileMoneyTypes
    <3> QED
      BY <2>1, <3>1 DEF MobileMoneyInv, OtherIdsUnpaid, Unpaid
  <2> QED
    BY <1>2, <1>8, <2>2, <2>3 DEF StatusIsTrue, OtherIdsUnpaid, Unpaid, MobileMoney!Refs
<1>13. SuccessWasPaid'
  BY <1>2, <1>8 DEF MobileMoneyInv, SuccessWasPaid, MobileMoney!Refs
<1> QED
  BY <1>9, <1>10, <1>11, <1>12, <1>13 DEF MobileMoneyInv

\* A final answer is recorded on the row as it is.  Of an orderly row it is about the id the
\* row carries, under which nobody else sends any more.
LEMMA AnswerIsRecorded ==
  ASSUME MobileMoneyInv,
         NEW r \in Rows, NEW ref \in MobileMoney!Refs, NEW answer \in MobileMoney!Answer,
         MobileMoney!RecordAnswer(r, ref, answer),
         payouts' \subseteq payouts, job' \in MobileMoney!Job, job'.settle \subseteq job.settle,
         UNCHANGED <<txRef, requestId, provider, toPay, airtel, byHand, mixed, crashes>>,
         answer = "SUCCESS" => airtel[r][ref] = "paid",
         answer = "FAILED" /\ r \in MobileMoney!Orderly =>
            /\ Unpaid(r, ref)
            /\ \A q \in payouts' : q.row = r /\ q.ref = ref => q.next \notin {"limit", "send"}
  PROVE  MobileMoneyInv'
<1>1. CASE state[r] # "processing" \/ answer = "UNKNOWN"
  <2>1. UNCHANGED <<state, misjudged>>
    BY <1>1 DEF MobileMoney!RecordAnswer
  <2>2. toPay \subseteq Rows /\ crashes \in 0..MaxPayoutCrashes
    BY DEF MobileMoneyInv, MobileMoney!TypeOK
  <2> QED
    BY <2>1, <2>2, OnlyPlansChange
<1>2. CASE state[r] = "processing" /\ answer # "UNKNOWN"
  <2> DEFINE x == MobileMoney!StatusAfter(answer)
  <2>1. /\ answer \in {"SUCCESS", "FAILED"}
        /\ answer = "SUCCESS" => x = "successful"
        /\ answer = "FAILED"  => x = "failed"
    BY <1>2 DEF MobileMoney!Answer, MobileMoney!StatusAfter
  <2>2. /\ state' = [state EXCEPT ![r] = x]
        /\ misjudged' = IF ref # requestId[r] THEN misjudged \cup {r} ELSE misjudged
    BY <1>2 DEF MobileMoney!RecordAnswer
  <2> HIDE DEF x
  <2>3. \A s \in Rows : state'[s] = IF s = r THEN x ELSE state[s]
    BY <2>2 DEF MobileMoneyInv, MobileMoney!TypeOK
  <2>4. MobileMoney!TypeOK'
    <3>1. misjudged' \subseteq Rows
      BY <2>2 DEF MobileMoneyInv, MobileMoney!TypeOK
    <3>2. payouts' \subseteq MobileMoney!Payout
      BY DEF MobileMoneyInv, MobileMoney!TypeOK
    <3> QED
      BY <2>1, <2>2, <3>1, <3>2 DEF MobileMoneyInv, MobileMoney!TypeOK
  <2>5. /\ MobileMoney!Orderly' \subseteq MobileMoney!Orderly
        /\ r \in MobileMoney!Orderly' => ref = requestId[r]
    BY <2>2 DEF MobileMoney!Orderly
  <2>6. r \in MobileMoney!Orderly' => ref = txRef[r] /\ r \notin byHand
    BY <1>2, <2>5 DEF MobileMoneyInv, StatusIsTrue
  <2>7. AnswersAreTrue'
    BY <2>5, AnswersStay, MobileMoneyTypes DEF MobileMoneyInv
  <2>8. ClaimsAreExclusive'
    <3> SUFFICES ASSUME NEW c \in payouts', c.next # "claim", c.row \in MobileMoney!Orderly'
                 PROVE  /\ c.ref <= txRef[c.row]
                        /\ \A q \in payouts' : q.next # "claim" /\ q.row = c.row /\ q.ref = c.ref => q = c
                        /\ c.ref = txRef[c.row] => state'[c.row] # "pending"
                        /\ c.next \in {"limit", "send"} =>
                              /\ c.ref = txRef[c.row] /\ state'[c.row] = "processing"
                              /\ airtel[c.row][c.ref] = "unknown"
      BY DEF ClaimsAreExclusive
    <3>1. /\ c.ref <= txRef[c.row]
          /\ \A q \in payouts : q.next # "claim" /\ q.row = c.row /\ q.ref = c.ref => q = c
          /\ c.ref = txRef[c.row] => state[c.row] # "pending"
          /\ c.next \in {"limit", "send"} =>
                /\ c.ref = txRef[c.row] /\ state[c.row] = "processing"
                /\ airtel[c.row][c.ref] = "unknown"
      BY <2>5 DEF MobileMoneyInv, ClaimsAreExclusive
    <3>2. c.row = r => c.next \notin {"limit", "send"}
      BY <2>1, <2>5, <2>6, <3>1
    <3> QED
      BY <2>1, <2>3, <3>1, <3>2, MobileMoneyTypes
  <2>9. StatusIsTrue' /\ OtherIdsUnpaid'
    BY <2>1, <2>3, <2>5, <2>6, MobileMoneyTypes
       DEF MobileMoneyInv, StatusIsTrue, OtherIdsUnpaid, Unpaid
  <2>10. SuccessWasPaid'
    BY <2>1, <2>3 DEF MobileMoneyInv, SuccessWasPaid
  <2> QED
    BY <2>4, <2>7, <2>8, <2>9, <2>10 DEF MobileMoneyInv
<1> QED
  BY <1>1, <1>2

\* The call records what it was answered: nobody else had its id.
LEMMA StepSettlePayout ==
  ASSUME MobileMoneyInv, NEW p \in payouts, MobileMoney!SettlePayout(p)
  PROVE  MobileMoneyInv'
<1>1. /\ p.next = "settle" /\ payouts' = payouts \ {p}
      /\ MobileMoney!RecordAnswer(p.row, p.ref, p.answer)
      /\ UNCHANGED <<txRef, requestId, provider, toPay, job, airtel, byHand, mixed, crashes>>
  BY DEF MobileMoney!SettlePayout
<1>2. p.row \in Rows /\ p.ref \in MobileMoney!Refs /\ p.answer \in MobileMoney!Answer
  BY MobileMoneyTypes DEF MobileMoney!Payout
<1>3. job \in MobileMoney!Job
  BY DEF MobileMoneyInv, MobileMoney!TypeOK
<1>4. p.answer = "SUCCESS" => airtel[p.row][p.ref] = "paid"
  BY <1>1 DEF MobileMoneyInv, AnswersAreTrue
<1>5. p.answer = "FAILED" /\ p.row \in MobileMoney!Orderly =>
         /\ Unpaid(p.row, p.ref)
         /\ \A q \in payouts' : q.row = p.row /\ q.ref = p.ref => q.next \notin {"limit", "send"}
  BY <1>1 DEF MobileMoneyInv, AnswersAreTrue, ClaimsAreExclusive
<1> QED
  BY <1>1, <1>2, <1>3, <1>4, <1>5, AnswerIsRecorded

\* The job records what it was answered: what the operator refused is not sent any more.
LEMMA StepSettleEnquiry ==
  ASSUME MobileMoneyInv, NEW s \in job.settle, MobileMoney!SettleEnquiry(s)
  PROVE  MobileMoneyInv'
<1>1. /\ job' = [job EXCEPT !.settle = {}]
      /\ MobileMoney!RecordAnswer(s.row, s.ref, s.answer)
      /\ UNCHANGED <<txRef, requestId, provider, toPay, payouts, airtel, byHand, mixed, crashes>>
  BY DEF MobileMoney!SettleEnquiry
<1>2. job \in MobileMoney!Job /\ s \in MobileMoney!Settle
  BY DEF MobileMoneyInv, MobileMoney!TypeOK, MobileMoney!Job
<1>3. s.row \in Rows /\ s.ref \in MobileMoney!Refs /\ s.answer \in MobileMoney!Answer
  BY <1>2 DEF MobileMoney!Settle
<1>4. job' \in MobileMoney!Job /\ job'.settle = {}
  BY <1>1, <1>2 DEF MobileMoney!Job
<1>5. /\ s.answer = "SUCCESS" => airtel[s.row][s.ref] = "paid"
      /\ s.answer = "FAILED"  => airtel[s.row][s.ref] = "refused"
  BY DEF MobileMoneyInv, AnswersAreTrue
<1>6. s.answer = "FAILED" /\ s.row \in MobileMoney!Orderly =>
         /\ Unpaid(s.row, s.ref)
         /\ \A q \in payouts' : q.row = s.row /\ q.ref = s.ref => q.next \notin {"limit", "send"}
  BY <1>1, <1>5 DEF MobileMoneyInv, ClaimsAreExclusive, Unpaid
<1> QED
  BY <1>1, <1>3, <1>4, <1>5, <1>6, AnswerIsRecorded

\* A retry, of a row whose id is settled as not paid, leaves that id for the next.
LEMMA StepRetryDisbursement ==
  ASSUME MobileMoneyInv, NEW r \in Rows, MobileMoney!RetryDisbursement(r)
  PROVE  MobileMoneyInv'
<1> DEFINE n == MobileMoney!NewPayout(r, txRef[r] + 1, "retry")
<1>1. /\ state[r] = "failed" /\ txRef[r] < MaxRef
      /\ state' = [state EXCEPT ![r] = "pending"] /\ txRef' = [txRef EXCEPT ![r] = txRef[r] + 1]
      /\ requestId' = [requestId EXCEPT ![r] = MobileMoney!NoRef]
      /\ payouts' = payouts \cup {n}
      /\ UNCHANGED <<provider, toPay, job, airtel, byHand, mixed, misjudged, crashes>>
  BY DEF MobileMoney!RetryDisbursement
<1>2. txRef[r] + 1 \in MobileMoney!Refs
  BY <1>1, MobileMoneyTypes
<1>3. n \in MobileMoney!Payout /\ n.next = "claim"
  BY <1>2 DEF MobileMoney!NewPayout, MobileMoney!Payout, MobileMoney!Answer
<1> HIDE DEF n
<1>4. /\ \A s \in Rows : state'[s] = IF s = r THEN "pending" ELSE state[s]
      /\ \A s \in Rows : txRef'[s] = IF s = r THEN txRef[r] + 1 ELSE txRef[s]
      /\ \A s \in Rows : s # r => requestId'[s] = requestId[s]
  BY <1>1 DEF MobileMoneyInv, MobileMoney!TypeOK
<1>5. MobileMoney!TypeOK'
  <2>1. payouts' \subseteq MobileMoney!Payout
    BY <1>1, <1>3 DEF MobileMoneyInv, MobileMoney!TypeOK
  <2>2. txRef' \in [Rows -> MobileMoney!Refs]
    BY <1>1, <1>2 DEF MobileMoneyInv, MobileMoney!TypeOK
  <2> QED
    BY <1>1, <2>1, <2>2 DEF MobileMoneyInv, MobileMoney!TypeOK
<1>6. MobileMoney!Orderly' = MobileMoney!Orderly
  BY <1>1 DEF MobileMoney!Orderly
<1>7. AnswersAreTrue'
  BY <1>1, <1>3, <1>6, AnswersStay, MobileMoneyTypes DEF MobileMoneyInv
<1>8. ClaimsAreExclusive'
  <2> SUFFICES ASSUME NEW c \in payouts', c.next # "claim", c.row \in MobileMoney!Orderly
               PROVE  /\ c.ref <= txRef'[c.row]
                      /\ \A q \in payouts' : q.next # "claim" /\ q.row = c.row /\ q.ref = c.ref => q = c
                      /\ c.ref = txRef'[c.row] => state'[c.row] # "pending"
                      /\ c.next \in {"limit", "send"} =>
                            /\ c.ref = txRef'[c.row] /\ state'[c.row] = "processing"
                            /\ airtel[c.row][c.ref] = "unknown"
    BY <1>1, <1>6 DEF ClaimsAreExclusive
  <2>1. c \in payouts /\ c.row \in Rows /\ c.ref \in Nat /\ txRef[c.row] \in Nat
    BY <1>1, <1>3, MobileMoneyTypes
  <2>2. /\ c.ref <= txRef[c.row]
        /\ \A q \in payouts : q.next # "claim" /\ q.row = c.row /\ q.ref = c.ref => q = c
        /\ c.ref = txRef[c.row] => state[c.row] # "pending"
        /\ c.next \in {"limit", "send"} =>
              /\ c.ref = txRef[c.row] /\ state[c.row] = "processing"
              /\ airtel[c.row][c.ref] = "unknown"
    BY <2>1 DEF MobileMoneyInv, ClaimsAreExclusive
  <2> QED
    BY <1>1, <1>3, <1>4, <2>1, <2>2
<1>9. StatusIsTrue' /\ OtherIdsUnpaid'
  <2>1. ASSUME NEW s \in MobileMoney!Orderly, s = r
        PROVE  /\ s \notin byHand /\ airtel[s][txRef[s] + 1] = "unknown"
               /\ \A k \in MobileMoney!Refs :
                     /\ k < txRef[s] + 1 => Unpaid(s, k)
                     /\ k > txRef[s] + 1 => airtel[s][k] = "unknown"
    <3>1. txRef[s] \in Nat /\ txRef[s] + 1 > txRef[s] /\ \A k \in MobileMoney!Refs : k \in Nat
      BY <2>1, MobileMoneyTypes
    <3>2. s \notin byHand /\ Unpaid(s, txRef[s]) /\ airtel[s][txRef[s] + 1] = "unknown"
      BY <1>1, <1>2, <2>1, <3>1 DEF MobileMoneyInv, StatusIsTrue, OtherIdsUnpaid
    <3>3. ASSUME NEW k \in MobileMoney!Refs
          PROVE  /\ k < txRef[s] + 1 => Unpaid(s, k)
                 /\ k > txRef[s] + 1 => airtel[s][k] = "unknown"
      <4>1. /\ k < txRef[s] + 1 => k < txRef[s] \/ k = txRef[s]
            /\ k > txRef[s] + 1 => k > txRef[s]
        BY <3>1
      <4> QED
        BY <3>2, <4>1 DEF MobileMoneyInv, OtherIdsUnpaid
    <3> QED
      BY <3>2, <3>3
  <2>2. StatusIsTrue'
    BY <1>1, <1>4, <1>6, <2>1, MobileMoneyTypes DEF MobileMoneyInv, StatusIsTrue, Unpaid
  <2>3. OtherIdsUnpaid'
    BY <1>1, <1>4, <1>6, <2>1, MobileMoneyTypes DEF MobileMoneyInv, OtherIdsUnpaid, Unpaid, MobileMoney!Refs
  <2> QED
    BY <2>2, <2>3
<1>10. SuccessWasPaid'
  BY <1>1, <1>4 DEF MobileMoneyInv, SuccessWasPaid
<1> QED
  BY <1>5, <1>7, <1>8, <1>9, <1>10 DEF MobileMoneyInv

\* Paid by hand is a row under whose id nothing was or will be paid.
LEMMA StepMarkPaidManually ==
  ASSUME MobileMoneyInv, NEW r \in Rows, MobileMoney!MarkPaidManually(r)
  PROVE  MobileMoneyInv'
<1>1. /\ state[r] \in {"pending", "failed"}
      /\ state' = [state EXCEPT ![r] = "successful"] /\ provider' = [provider EXCEPT ![r] = "manual"]
      /\ byHand' = byHand \cup {r}
      /\ UNCHANGED <<txRef, requestId, toPay, payouts, job, airtel, mixed, misjudged, crashes>>
  BY DEF MobileMoney!MarkPaidManually
<1>2. /\ \A s \in Rows : state'[s] = IF s = r THEN "successful" ELSE state[s]
      /\ MobileMoney!TypeOK' /\ MobileMoney!Orderly' = MobileMoney!Orderly
  BY <1>1 DEF MobileMoneyInv, MobileMoney!TypeOK, MobileMoney!Orderly
<1>3. AnswersAreTrue'
  BY <1>1, <1>2, AnswersStay, MobileMoneyTypes DEF MobileMoneyInv
<1>4. ClaimsAreExclusive'
  BY <1>1, <1>2, MobileMoneyTypes DEF MobileMoneyInv, ClaimsAreExclusive
<1>5. StatusIsTrue' /\ OtherIdsUnpaid'
  BY <1>1, <1>2, MobileMoneyTypes
     DEF MobileMoneyInv, StatusIsTrue, OtherIdsUnpaid, Unpaid, MobileMoney!Refs
<1>6. SuccessWasPaid'
  BY <1>1, <1>2 DEF MobileMoneyInv, SuccessWasPaid, MobileMoney!Refs
<1> QED
  BY <1>2, <1>3, <1>4, <1>5, <1>6 DEF MobileMoneyInv

\* One step of mobile money.
LEMMA NextMobileMoney ==
  ASSUME MobileMoneyInv, MobileMoney!Next
  PROVE  MobileMoneyInv'
<1>1. ASSUME NEW r \in Rows, NEW k \in MobileMoney!Refs, MobileMoney!Decide(r, k)
      PROVE  MobileMoneyInv'
  BY <1>1, StepDecide
<1>2. ASSUME NEW p \in payouts, MobileMoney!Dispatch(p) PROVE MobileMoneyInv'
  BY <1>2, PlanningSteps, StepRejectPayout, StepClaimPayout, StepWithinLimit, StepOverLimit,
     StepSendPayout, StepSettlePayout
     DEF MobileMoney!Dispatch
<1>3. ASSUME NEW r \in Rows,
             MobileMoney!PayCreated(r) \/ MobileMoney!RetryDisbursement(r)
                \/ MobileMoney!MarkPaidManually(r)
      PROVE  MobileMoneyInv'
  BY <1>3, PlanningSteps, StepRetryDisbursement, StepMarkPaidManually
<1>4. CASE MobileMoney!JobStep
  BY <1>4, PlanningSteps, StepSettleEnquiry DEF MobileMoney!JobStep
<1>5. CASE MobileMoney!Crash
  BY <1>5, PlanningSteps
<1> QED
  BY <1>1, <1>2, <1>3, <1>4, <1>5 DEF MobileMoney!Next

\* At first no payout has been sent, by anybody.
LEMMA InitMobileMoney == MobileMoney!Init => MobileMoneyInv
<1> SUFFICES ASSUME MobileMoney!Init PROVE MobileMoneyInv
  OBVIOUS
<1>0. /\ MaxRef \in Nat \ {0} /\ MaxPayoutCrashes \in Nat
      /\ MobileMoney!Refs = 1..MaxRef /\ MobileMoney!NoRef = 0
  BY PayoutsAssumption
     DEF MobileMoney!MaxRefAssumption, MobileMoney!MaxCrashesAssumption, MobileMoney!Refs, MobileMoney!NoRef
<1>1. payouts = {} /\ job \in MobileMoney!Job /\ job.settle = {}
  BY DEF MobileMoney!Init, MobileMoney!IdleJob, MobileMoney!Job
<1>2. 1 \in MobileMoney!Refs /\ 0 \in MobileMoney!Refs \cup {MobileMoney!NoRef} /\ 0 \in 0..MaxPayoutCrashes
  BY <1>0
<1>3. MobileMoney!TypeOK
  BY <1>0, <1>1, <1>2 DEF MobileMoney!Init, MobileMoney!TypeOK
<1>4. AnswersAreTrue /\ ClaimsAreExclusive
  BY <1>1 DEF AnswersAreTrue, ClaimsAreExclusive
<1>5. /\ \A r \in Rows : state[r] = "pending" /\ txRef[r] = 1
      /\ \A r \in Rows, k \in MobileMoney!Refs : airtel[r][k] = "unknown"
      /\ byHand = {} /\ MobileMoney!Orderly \subseteq Rows
  BY DEF MobileMoney!Init, MobileMoney!Orderly
<1>6. StatusIsTrue /\ OtherIdsUnpaid /\ SuccessWasPaid
  BY <1>2, <1>5 DEF StatusIsTrue, OtherIdsUnpaid, SuccessWasPaid, Unpaid
<1> QED
  BY <1>3, <1>4, <1>6 DEF MobileMoneyInv

-----------------------------------------------------------------------------
(* What the invariants mean                                                 *)

\* The ids paid under can be counted, and so can the payments.
LEMMA PaymentsCount ==
  ASSUME MobileMoneyInv, NEW r \in Rows
  PROVE  /\ Cardinality(MobileMoney!Paid(r)) \in Nat
         /\ MobileMoney!Paid(r) # {} => Cardinality(MobileMoney!Paid(r)) > 0
         /\ MobileMoney!Payments(r) =
               Cardinality(MobileMoney!Paid(r)) + (IF r \in byHand THEN 1 ELSE 0)
<1>1. IsFiniteSet(MobileMoney!Paid(r))
  <2>1. IsFiniteSet(1..MaxRef)
    <3>1. 1 \in Int /\ MaxRef \in Int
      BY MobileMoneyTypes
    <3> QED
      BY <3>1, FS_Interval
  <2>2. MobileMoney!Paid(r) \subseteq 1..MaxRef
    BY MobileMoneyTypes DEF MobileMoney!Paid
  <2> QED
    BY <2>1, <2>2, FS_Subset
<1>2. Cardinality(MobileMoney!Paid(r)) \in Nat
  BY <1>1, FS_CardinalityType
<1>3. MobileMoney!Paid(r) # {} => Cardinality(MobileMoney!Paid(r)) # 0
  BY <1>1, FS_EmptySet
<1> QED
  BY <1>2, <1>3, SameCardinalities DEF MobileMoney!Payments

\* An orderly row is paid under the id it carries or by hand, never both.
LEMMA OrderlyIsPaidOnce == MobileMoneyInv => MobileMoney!PaidOnceIfOrderly
<1> SUFFICES ASSUME MobileMoneyInv, NEW r \in MobileMoney!Orderly
             PROVE  MobileMoney!Payments(r) <= 1
  BY DEF MobileMoney!PaidOnceIfOrderly
<1>0. r \in Rows
  BY DEF MobileMoney!Orderly
<1>1. ASSUME NEW k \in MobileMoney!Paid(r) PROVE k = txRef[r] /\ r \notin byHand
  <2>1. k \in MobileMoney!Refs /\ airtel[r][k] = "paid"
    BY DEF MobileMoney!Paid
  <2>2. k \in Nat /\ txRef[r] \in Nat
    BY <1>0, <2>1, MobileMoneyTypes
  <2>3. ~(k < txRef[r]) /\ ~(k > txRef[r])
    BY <2>1 DEF MobileMoneyInv, OtherIdsUnpaid, Unpaid
  <2>4. k = txRef[r]
    BY <2>2, <2>3
  <2>5. state[r] \in {"pending", "processing", "successful", "failed"}
    BY <1>0, MobileMoneyTypes
  <2> QED
    BY <2>1, <2>4, <2>5 DEF MobileMoneyInv, StatusIsTrue, Unpaid
<1>2. CASE r \in byHand
  <2>1. MobileMoney!Paid(r) = {}
    BY <1>1, <1>2
  <2>2. Cardinality(MobileMoney!Paid(r)) = 0
    BY <2>1, FS_EmptySet
  <2> QED
    BY <1>0, <1>2, <2>2, PaymentsCount
<1>3. CASE r \notin byHand
  <2>1. \A k \in MobileMoney!Paid(r) : k = txRef[r]
    BY <1>1
  <2>2. Cardinality(MobileMoney!Paid(r)) <= 1
    BY <2>1, AtMostOne
  <2> QED
    BY <1>0, <1>3, <2>2, PaymentsCount
<1> QED
  BY <1>2, <1>3

\* What is said of a row is so.
LEMMA StatusTellsTheTruth ==
  MobileMoneyInv => MobileMoney!SuccessfulIsPaid /\ MobileMoney!FailedIsUnpaid
<1> SUFFICES ASSUME MobileMoneyInv
             PROVE  MobileMoney!SuccessfulIsPaid /\ MobileMoney!FailedIsUnpaid
  OBVIOUS
<1>1. ASSUME NEW r \in Rows, state[r] = "successful" PROVE MobileMoney!Payments(r) > 0
  <2>1. r \in byHand \/ MobileMoney!Paid(r) # {}
    BY <1>1 DEF MobileMoneyInv, SuccessWasPaid, MobileMoney!Paid
  <2> QED
    BY <2>1, PaymentsCount
<1>2. ASSUME NEW r \in MobileMoney!Orderly, state[r] = "failed", NEW k \in MobileMoney!Refs
      PROVE  airtel[r][k] \in {"unknown", "refused"}
  <2>1. r \in Rows /\ k \in Nat /\ txRef[r] \in Nat
    BY MobileMoneyTypes
  <2>2. k < txRef[r] \/ k = txRef[r] \/ k > txRef[r]
    BY <2>1
  <2> QED
    BY <1>2, <2>2 DEF MobileMoneyInv, StatusIsTrue, OtherIdsUnpaid, Unpaid
<1> QED
  BY <1>1, <1>2 DEF MobileMoney!SuccessfulIsPaid, MobileMoney!FailedIsUnpaid

\* The same in airtime.
LEMMA AirtimeIsDelivered == AirtimeInv => Airtime!SuccessfulIsDelivered
BY DEF AirtimeInv, RowsAreTrue, Airtime!SuccessfulIsDelivered

\* Nor is anything out of a row that failed, if every send was answered.
LEMMA FailedAirtimeWasNotSent == AirtimeInv => Airtime!FailedWasNotSentIfAnswered
<1> SUFFICES ASSUME AirtimeInv, NEW r \in Rows \ unanswered, state[r] = "failed",
                    NEW k \in Airtime!Sent(r)
             PROVE  FALSE
  BY DEF Airtime!FailedWasNotSentIfAnswered
<1>1. k = txRef[r] /\ Out(r, k)
  BY OnlyItsIdIsOut
<1> QED
  BY <1>1 DEF AirtimeInv, RowsAreTrue

-----------------------------------------------------------------------------
(* The refund of a call                                                     *)

\* The refund has zeroed the call and is not done with it.
PastZero(j) == j.next \in {"increment", "record", "restore"}

\* A refund past the zeroing keeps its call at zero.
ZeroedWhileInFlight == \A j \in jobs : PastZero(j) => creditsUsed[j.call] = 0

\* What a job's position says about the balance and the ledger.
JobsAreWhereTheySay ==
    \A j \in jobs :
        /\ j.next \in {"check", "reconcile", "zero", "increment"} => ~j.paid
        /\ j.next = "record" => j.paid
        /\ j.next = "reconcile" => ledger[j.call] > 0
        /\ j.paid => returned[j.call] > 0

RowsAreOfReturns == \A c \in Calls : ledger[c] > 0 => returned[c] > 0

\* What is true of every state of a refund.
RefundInv ==
    /\ TypeOK
    /\ ZeroedWhileInFlight
    /\ JobsAreWhereTheySay
    /\ RowsAreOfReturns
    /\ OneRefundInFlight
    /\ CreditIsConserved

-----------------------------------------------------------------------------
(* Steps of the refund of a call                                            *)

Nexts == {"check", "reconcile", "zero", "increment", "record", "restore"}

\* Moving a job on changes its position, and what it has paid, only.
LEMMA Moved ==
  ASSUME NEW j \in Job, NEW n \in Nexts,
         NEW k, k = [j EXCEPT !.next = n]
  PROVE  k \in Job /\ k.call = j.call /\ k.next = n /\ k.paid = j.paid
  BY DEF Job, Nexts

\* A write that goes wrong is counted within the bound.
LEMMA CountedType ==
  ASSUME errors \in 0..MaxErrors, NEW o, Counted(o)
  PROVE  errors' \in 0..MaxErrors
  BY MaxErrorsAssumption DEF Counted

\* While one job is past the zeroing, no other job of its call is.
LEMMA Alone ==
  ASSUME OneRefundInFlight, NEW j \in jobs, PastZero(j)
  PROVE  \A i \in jobs : i # j /\ i.call = j.call => ~PastZero(i)
  BY DEF OneRefundInFlight, PastZero

\* At first nothing is in flight and every call holds its credit.
LEMMA RefundAtFirst == Init => RefundInv
<1> SUFFICES ASSUME Init PROVE RefundInv
  OBVIOUS
<1>1. TypeOK
  BY MaxErrorsAssumption DEF Init, TypeOK
<1>2. CreditIsConserved
  <2> SUFFICES ASSUME NEW c \in Calls
               PROVE  creditsUsed[c] + InFlight(c) + returned[c] + stranded[c] = 1 + repeated[c]
    BY DEF CreditIsConserved
  <2>1. InFlight(c) = 0
    BY DEF Init, InFlight
  <2> QED
    BY <2>1 DEF Init
<1> QED
  BY <1>1, <1>2
  DEF RefundInv, Init, ZeroedWhileInFlight, JobsAreWhereTheySay, RowsAreOfReturns, OneRefundInFlight

-----------------------------------------------------------------------------
(* The steps of a job.  Each either gives the job up or moves it to k.      *)

\* The claim on the credit: afterwards it is with the call, with this refund, or stranded when
\* the answer was lost.
LEMMA ZeroStep ==
  ASSUME RefundInv, NEW j \in jobs, NEW o \in Outcomes, ZeroCredits(j, o)
  PROVE  RefundInv'
<1> DEFINE c == j.call
<1> DEFINE hit == Refundable(c) /\ o = "done"
<1> DEFINE k == [j EXCEPT !.next = "increment"]
<1>0. j \in Job /\ c \in Calls /\ ~j.paid /\ j.next = "zero"
  BY DEF RefundInv, TypeOK, Job, JobsAreWhereTheySay, ZeroCredits
<1>1. k \in Job /\ k.call = c /\ k.next = "increment" /\ k.paid = j.paid
  BY <1>0, Moved DEF Nexts
<1>2. errors' \in 0..MaxErrors
  BY CountedType DEF ZeroCredits, RefundInv, TypeOK
<1>3. /\ hit  => jobs' = (jobs \ {j}) \cup {k}
      /\ ~hit => jobs' = jobs \ {j}
  BY DEF ZeroCredits, Proceed, Give
<1>4. Refundable(c) => /\ creditsUsed[c] = 1
                       /\ \A i \in jobs : i.call = c => ~PastZero(i)
  BY <1>0, <1>1 DEF Refundable, RefundInv, TypeOK, ZeroedWhileInFlight
<1> HIDE DEF k
<1>5. TypeOK'
  BY <1>0, <1>1, <1>2, <1>3 DEF RefundInv, TypeOK, ZeroCredits
<1>6. ZeroedWhileInFlight' /\ OneRefundInFlight'
  BY <1>0, <1>1, <1>3, <1>4 DEF RefundInv, TypeOK, ZeroCredits, PastZero, ZeroedWhileInFlight, OneRefundInFlight, TakesEffect
<1>7. JobsAreWhereTheySay' /\ RowsAreOfReturns'
  BY <1>0, <1>1, <1>3 DEF RefundInv, ZeroCredits, JobsAreWhereTheySay, RowsAreOfReturns
<1>8. CreditIsConserved'
  <2> SUFFICES ASSUME NEW d \in Calls
               PROVE  (creditsUsed[d] + InFlight(d) + returned[d] + stranded[d] = 1 + repeated[d])'
    BY DEF CreditIsConserved
  <2>1. creditsUsed[d] + InFlight(d) + returned[d] + stranded[d] = 1 + repeated[d]
    BY DEF RefundInv, CreditIsConserved
  <2>2. CASE ~ (d = c /\ Refundable(c))
    <3>1. InFlight(d)' = InFlight(d)
      BY <1>0, <1>1, <1>3, <2>2 DEF InFlight
    <3>2. creditsUsed'[d] = creditsUsed[d] /\ stranded'[d] = stranded[d]
      BY <1>0, <1>1, <2>2 DEF ZeroCredits, RefundInv, TypeOK
    <3> QED
      BY <2>1, <3>1, <3>2 DEF ZeroCredits
  <2>3. CASE d = c /\ Refundable(c)
    <3>1. InFlight(d) = 0
      BY <1>4, <2>3 DEF InFlight, PastZero
    <3>2. InFlight(d)' = IF hit THEN 1 ELSE 0
      BY <1>0, <1>1, <1>3, <1>4, <2>3 DEF InFlight, PastZero
    <3>3. /\ creditsUsed[d] = 1
          /\ creditsUsed'[d] = IF o = "failed" THEN 1 ELSE 0
          /\ stranded'[d] = IF o = "unanswered" THEN stranded[d] + 1 ELSE stranded[d]
      BY <1>0, <1>1, <1>4, <2>3 DEF ZeroCredits, TakesEffect, RefundInv, TypeOK
    <3>4. returned[d] \in Nat /\ stranded[d] \in Nat /\ repeated[d] \in Nat
      BY DEF RefundInv, TypeOK
    <3> QED
      BY <2>1, <2>3, <3>1, <3>2, <3>3, <3>4 DEF ZeroCredits, Outcomes
  <2> QED
    BY <2>2, <2>3
<1> QED
  BY <1>5, <1>6, <1>7, <1>8 DEF RefundInv

\* The balance gets the credit this refund held, or the refund will put it back on the call.
LEMMA IncrementStep ==
  ASSUME RefundInv, NEW j \in jobs, NEW o \in Outcomes, IncrementBalance(j, o)
  PROVE  RefundInv'
<1> DEFINE c == j.call
<1> DEFINE n == IF o = "done" THEN "record" ELSE "restore"
<1> DEFINE p == TakesEffect(o)
<1> DEFINE k == [j EXCEPT !.next = n, !.paid = p]
<1>0. j \in Job /\ c \in Calls /\ ~j.paid /\ PastZero(j) /\ j.next = "increment"
  BY DEF RefundInv, TypeOK, Job, JobsAreWhereTheySay, IncrementBalance, PastZero
<1>1. k \in Job /\ k.call = c /\ k.next = n /\ k.paid = p
  <2>1. n \in Nexts /\ p \in BOOLEAN
    BY DEF Nexts, TakesEffect
  <2> HIDE DEF n, p
  <2> QED
    BY <1>0, <2>1 DEF Job, Nexts
<1>2. errors' \in 0..MaxErrors
  BY CountedType DEF IncrementBalance, RefundInv, TypeOK
<1>3. jobs' = (jobs \ {j}) \cup {k}
  BY DEF IncrementBalance, Proceed
<1>4. creditsUsed[c] = 0 /\ \A i \in jobs \ {j} : i.call = c => ~PastZero(i)
  BY <1>0, Alone DEF RefundInv, ZeroedWhileInFlight
<1>5. /\ returned'[c] = IF TakesEffect(o) THEN returned[c] + 1 ELSE returned[c]
      /\ \A d \in Calls : returned'[d] >= returned[d] /\ (d # c => returned'[d] = returned[d])
      /\ returned' \in [Calls -> Nat]
  BY <1>0 DEF IncrementBalance, RefundInv, TypeOK
<1> HIDE DEF k
<1>6. TypeOK'
  BY <1>0, <1>1, <1>2, <1>3, <1>5 DEF RefundInv, TypeOK, IncrementBalance
<1>7. ZeroedWhileInFlight' /\ OneRefundInFlight'
  BY <1>0, <1>1, <1>3, <1>4
  DEF RefundInv, IncrementBalance, PastZero, ZeroedWhileInFlight, OneRefundInFlight
<1>8. JobsAreWhereTheySay' /\ RowsAreOfReturns'
  BY <1>0, <1>1, <1>3, <1>5
  DEF RefundInv, TypeOK, Job, IncrementBalance, JobsAreWhereTheySay, RowsAreOfReturns, TakesEffect
<1>9. CreditIsConserved'
  <2> SUFFICES ASSUME NEW d \in Calls
               PROVE  (creditsUsed[d] + InFlight(d) + returned[d] + stranded[d] = 1 + repeated[d])'
    BY DEF CreditIsConserved
  <2>1. creditsUsed[d] + InFlight(d) + returned[d] + stranded[d] = 1 + repeated[d]
    BY DEF RefundInv, CreditIsConserved
  <2>2. CASE d # c
    <3>1. InFlight(d)' = InFlight(d)
      BY <1>1, <1>3, <2>2 DEF InFlight
    <3> QED
      BY <1>5, <2>1, <2>2, <3>1 DEF IncrementBalance
  <2>3. CASE d = c
    <3>1. InFlight(d) = 1
      BY <1>0, <2>3 DEF InFlight
    <3>2. InFlight(d)' = IF TakesEffect(o) THEN 0 ELSE 1
      BY <1>0, <1>1, <1>3, <1>4, <2>3 DEF InFlight, PastZero, TakesEffect
    <3>3. returned[d] \in Nat /\ stranded[d] \in Nat /\ repeated[d] \in Nat
      BY DEF RefundInv, TypeOK
    <3> QED
      BY <1>4, <1>5, <2>1, <2>3, <3>1, <3>2, <3>3 DEF IncrementBalance
  <2> QED
    BY <2>2, <2>3
<1> QED
  BY <1>6, <1>7, <1>8, <1>9 DEF RefundInv

\* The ledger row only records: the credit stays where it is.
LEMMA RecordStep ==
  ASSUME RefundInv, NEW j \in jobs, NEW o \in Outcomes, RecordRefund(j, o)
  PROVE  RefundInv'
<1> DEFINE c == j.call
<1> DEFINE k == [j EXCEPT !.next = "restore"]
<1>0. j \in Job /\ c \in Calls /\ j.paid /\ PastZero(j) /\ j.next = "record" /\ returned[c] > 0
  BY DEF RefundInv, TypeOK, Job, JobsAreWhereTheySay, RecordRefund, PastZero
<1>1. k \in Job /\ k.call = c /\ k.next = "restore" /\ k.paid
  <2>1. k \in Job /\ k.call = c /\ k.next = "restore" /\ k.paid = j.paid
    BY <1>0, Moved DEF Nexts
  <2> QED
    BY <1>0, <2>1
<1>2. errors' \in 0..MaxErrors
  BY CountedType DEF RecordRefund, RefundInv, TypeOK
<1>3. \/ jobs' = (jobs \ {j}) \cup {k}
      \/ jobs' = jobs \ {j}
  BY DEF RecordRefund, Proceed, Give
<1>4. creditsUsed[c] = 0 /\ \A i \in jobs \ {j} : i.call = c => ~PastZero(i)
  BY <1>0, Alone DEF RefundInv, ZeroedWhileInFlight
<1>5. /\ ledger' \in [Calls -> Nat]
      /\ \A d \in Calls : ledger'[d] >= ledger[d] /\ (d # c => ledger'[d] = ledger[d])
  BY <1>0 DEF RecordRefund, RefundInv, TypeOK
<1> HIDE DEF k
<1>6. TypeOK'
  BY <1>0, <1>1, <1>2, <1>3, <1>5 DEF RefundInv, TypeOK, RecordRefund
<1>7. ZeroedWhileInFlight' /\ OneRefundInFlight'
  BY <1>0, <1>1, <1>3, <1>4
  DEF RefundInv, RecordRefund, PastZero, ZeroedWhileInFlight, OneRefundInFlight
<1>8. JobsAreWhereTheySay' /\ RowsAreOfReturns'
  BY <1>0, <1>1, <1>3, <1>5
  DEF RefundInv, TypeOK, Job, RecordRefund, JobsAreWhereTheySay, RowsAreOfReturns
<1>9. CreditIsConserved'
  <2> SUFFICES ASSUME NEW d \in Calls
               PROVE  (creditsUsed[d] + InFlight(d) + returned[d] + stranded[d] = 1 + repeated[d])'
    BY DEF CreditIsConserved
  <2>1. InFlight(d)' = InFlight(d)
    BY <1>0, <1>1, <1>3 DEF InFlight
  <2> QED
    BY <2>1 DEF RefundInv, CreditIsConserved, RecordRefund
<1> QED
  BY <1>6, <1>7, <1>8, <1>9 DEF RefundInv

\* A refund that failed puts the credit on the call again; if the balance had it, it is repeated.
LEMMA RestoreStep ==
  ASSUME RefundInv, NEW j \in jobs, NEW o \in Outcomes, RestoreCredits(j, o)
  PROVE  RefundInv'
<1> DEFINE c == j.call
<1>0. j \in Job /\ c \in Calls /\ PastZero(j) /\ j.next = "restore"
  BY DEF RefundInv, TypeOK, Job, RestoreCredits, PastZero
<1>1. errors' \in 0..MaxErrors
  BY CountedType DEF RestoreCredits, RefundInv, TypeOK
<1>2. jobs' = jobs \ {j}
  BY DEF RestoreCredits, Give
<1>3. creditsUsed[c] = 0 /\ \A i \in jobs \ {j} : i.call = c => ~PastZero(i)
  BY <1>0, Alone DEF RefundInv, ZeroedWhileInFlight
<1>4. TypeOK'
  BY <1>0, <1>1, <1>2 DEF RefundInv, TypeOK, RestoreCredits
<1>5. ZeroedWhileInFlight' /\ OneRefundInFlight'
  BY <1>0, <1>2, <1>3
  DEF RefundInv, TypeOK, RestoreCredits, PastZero, ZeroedWhileInFlight, OneRefundInFlight
<1>6. JobsAreWhereTheySay' /\ RowsAreOfReturns'
  BY <1>2 DEF RefundInv, RestoreCredits, JobsAreWhereTheySay, RowsAreOfReturns
<1>7. CreditIsConserved'
  <2> SUFFICES ASSUME NEW d \in Calls
               PROVE  (creditsUsed[d] + InFlight(d) + returned[d] + stranded[d] = 1 + repeated[d])'
    BY DEF CreditIsConserved
  <2>1. creditsUsed[d] + InFlight(d) + returned[d] + stranded[d] = 1 + repeated[d]
    BY DEF RefundInv, CreditIsConserved
  <2>2. CASE d # c
    <3>1. InFlight(d)' = InFlight(d)
      BY <1>2, <2>2 DEF InFlight
    <3>2. creditsUsed'[d] = creditsUsed[d] /\ stranded'[d] = stranded[d] /\ repeated'[d] = repeated[d]
      BY <1>0, <2>2 DEF RestoreCredits, RefundInv, TypeOK
    <3> QED
      BY <2>1, <3>1, <3>2 DEF RestoreCredits
  <2>3. CASE d = c
    <3>1. InFlight(d) = IF j.paid THEN 0 ELSE 1
      BY <1>0, <1>3, <2>3 DEF InFlight, PastZero
    <3>2. InFlight(d)' = 0
      BY <1>2, <1>3, <2>3 DEF InFlight, PastZero
    <3>3. /\ creditsUsed'[d] = IF TakesEffect(o) THEN 1 ELSE 0
          /\ stranded'[d] = IF ~TakesEffect(o) /\ ~j.paid THEN stranded[d] + 1 ELSE stranded[d]
          /\ repeated'[d] = IF TakesEffect(o) /\ j.paid THEN repeated[d] + 1 ELSE repeated[d]
      BY <1>0, <1>3, <2>3 DEF RestoreCredits, RefundInv, TypeOK
    <3>4. returned[d] \in Nat /\ stranded[d] \in Nat /\ repeated[d] \in Nat /\ j.paid \in BOOLEAN
      BY <1>0 DEF RefundInv, TypeOK, Job
    <3> QED
      BY <1>3, <2>1, <2>3, <3>1, <3>2, <3>3, <3>4 DEF RestoreCredits
  <2> QED
    BY <2>2, <2>3
<1> QED
  BY <1>4, <1>5, <1>6, <1>7 DEF RefundInv

\* The sweep looks for a ledger row first, and a row means that the credit was returned.
LEMMA CheckStep ==
  ASSUME RefundInv, NEW j \in jobs, NEW o \in Outcomes, CheckLedger(j, o)
  PROVE  RefundInv'
<1> DEFINE c == j.call
<1> DEFINE n == IF ledger[c] > 0 THEN "reconcile" ELSE "zero"
<1> DEFINE k == [j EXCEPT !.next = n]
<1>0. j \in Job /\ c \in Calls /\ ~j.paid /\ j.next = "check"
  BY DEF RefundInv, TypeOK, Job, JobsAreWhereTheySay, CheckLedger
<1>1. k \in Job /\ k.call = c /\ k.next = n /\ k.paid = j.paid
  <2>1. n \in Nexts
    BY DEF Nexts
  <2> HIDE DEF n
  <2> QED
    BY <1>0, <2>1, Moved
<1>2. errors' \in 0..MaxErrors
  BY CountedType DEF CheckLedger, RefundInv, TypeOK
<1>3. \/ jobs' = (jobs \ {j}) \cup {k}
      \/ jobs' = jobs \ {j}
  BY DEF CheckLedger, Proceed, Give
<1> HIDE DEF k
<1>4. TypeOK'
  BY <1>1, <1>2, <1>3 DEF RefundInv, TypeOK, CheckLedger
<1>5. ZeroedWhileInFlight' /\ OneRefundInFlight'
  BY <1>1, <1>3 DEF RefundInv, CheckLedger, PastZero, ZeroedWhileInFlight, OneRefundInFlight
<1>6. JobsAreWhereTheySay' /\ RowsAreOfReturns'
  BY <1>0, <1>1, <1>3 DEF RefundInv, CheckLedger, JobsAreWhereTheySay, RowsAreOfReturns
<1>7. CreditIsConserved'
  <2> SUFFICES ASSUME NEW d \in Calls
               PROVE  (creditsUsed[d] + InFlight(d) + returned[d] + stranded[d] = 1 + repeated[d])'
    BY DEF CreditIsConserved
  <2>1. InFlight(d)' = InFlight(d)
    BY <1>0, <1>1, <1>3 DEF InFlight
  <2> QED
    BY <2>1 DEF RefundInv, CreditIsConserved, CheckLedger
<1> QED
  BY <1>4, <1>5, <1>6, <1>7 DEF RefundInv

\* Zeroing a call whose credit the ledger has takes back a repeated credit, never the only one.
LEMMA ReconcileStep ==
  ASSUME RefundInv, NEW j \in jobs, NEW o \in Outcomes, Reconcile(j, o)
  PROVE  RefundInv'
<1> DEFINE c == j.call
<1>0. j \in Job /\ c \in Calls /\ j.next = "reconcile" /\ returned[c] > 0
  BY DEF RefundInv, TypeOK, Job, JobsAreWhereTheySay, RowsAreOfReturns, Reconcile
<1>1. errors' \in 0..MaxErrors
  BY CountedType DEF Reconcile, RefundInv, TypeOK
<1>2. jobs' = jobs \ {j}
  BY DEF Reconcile, Give
<1>3. \A d \in Calls : InFlight(d)' = InFlight(d)
  <2> SUFFICES ASSUME NEW d \in Calls PROVE InFlight(d)' = InFlight(d)
    OBVIOUS
  <2> QED
    BY <1>0, <1>2 DEF InFlight
<1>4. \* What is still reserved though it was returned has been counted.
      creditsUsed[c] = 1 => repeated[c] > 0
  <2>1. InFlight(c) \in {0, 1}
    BY DEF InFlight
  <2>2. creditsUsed[c] + InFlight(c) + returned[c] + stranded[c] = 1 + repeated[c]
    BY <1>0 DEF RefundInv, CreditIsConserved
  <2> QED
    BY <1>0, <2>1, <2>2 DEF RefundInv, TypeOK
<1>5. TypeOK'
  BY <1>0, <1>1, <1>2, <1>4 DEF RefundInv, TypeOK, Reconcile
<1>6. ZeroedWhileInFlight' /\ OneRefundInFlight'
  BY <1>0, <1>2
  DEF RefundInv, TypeOK, Job, Reconcile, PastZero, ZeroedWhileInFlight, OneRefundInFlight
<1>7. JobsAreWhereTheySay' /\ RowsAreOfReturns'
  BY <1>2 DEF RefundInv, Reconcile, JobsAreWhereTheySay, RowsAreOfReturns
<1>8. CreditIsConserved'
  <2> SUFFICES ASSUME NEW d \in Calls
               PROVE  (creditsUsed[d] + InFlight(d) + returned[d] + stranded[d] = 1 + repeated[d])'
    BY DEF CreditIsConserved
  <2>1. creditsUsed[d] + InFlight(d) + returned[d] + stranded[d] = 1 + repeated[d]
    BY DEF RefundInv, CreditIsConserved
  <2>2. CASE d = c /\ creditsUsed[c] = 1 /\ TakesEffect(o)
    <3>1. creditsUsed'[d] = 0 /\ repeated'[d] = repeated[d] - 1
      BY <1>0, <2>2 DEF Reconcile, RefundInv, TypeOK
    <3>2. InFlight(d) \in {0, 1}
      BY DEF InFlight
    <3> QED
      BY <1>3, <2>1, <2>2, <3>1, <3>2 DEF Reconcile, RefundInv, TypeOK
  <2>3. CASE ~ (d = c /\ creditsUsed[c] = 1 /\ TakesEffect(o))
    <3>1. creditsUsed'[d] = creditsUsed[d] /\ repeated'[d] = repeated[d]
      BY <1>0, <2>3 DEF Reconcile, RefundInv, TypeOK
    <3> QED
      BY <1>3, <2>1, <3>1 DEF Reconcile
  <2> QED
    BY <2>2, <2>3
<1> QED
  BY <1>5, <1>6, <1>7, <1>8 DEF RefundInv

-----------------------------------------------------------------------------
(* The steps of the call, the sweep and the process                         *)

\* What becomes of the call itself, but for its end, moves no credit.
LEMMA CallStep ==
  ASSUME RefundInv, NEW c \in Calls,
         Answer(c) \/ Complete(c) \/ TwoMinutesPass(c)
  PROVE  RefundInv'
  BY DEF Answer, Complete, TwoMinutesPass, RefundInv, TypeOK, ZeroedWhileInFlight, PastZero,
     JobsAreWhereTheySay, RowsAreOfReturns, OneRefundInFlight, CreditIsConserved, InFlight

\* A refund that begins has moved nothing yet.
LEMMA BeginStep ==
  ASSUME RefundInv, NEW c \in Calls, EndUnserved(c) \/ SweepRefund(c)
  PROVE  RefundInv'
<1>1. PICK k \in Job : /\ k.call = c /\ ~k.paid /\ k.next \in {"zero", "check"}
                       /\ jobs' = jobs \cup {k}
  BY DEF EndUnserved, SweepRefund, Job
<1>2. TypeOK'
  BY <1>1 DEF EndUnserved, SweepRefund, RefundInv, TypeOK
<1>3. ZeroedWhileInFlight' /\ OneRefundInFlight'
  BY <1>1 DEF EndUnserved, SweepRefund, RefundInv, PastZero, ZeroedWhileInFlight, OneRefundInFlight
<1>4. JobsAreWhereTheySay' /\ RowsAreOfReturns'
  BY <1>1 DEF EndUnserved, SweepRefund, RefundInv, JobsAreWhereTheySay, RowsAreOfReturns
<1>5. CreditIsConserved'
  <2> SUFFICES ASSUME NEW d \in Calls
               PROVE  (creditsUsed[d] + InFlight(d) + returned[d] + stranded[d] = 1 + repeated[d])'
    BY DEF CreditIsConserved
  <2>1. InFlight(d)' = InFlight(d)
    BY <1>1 DEF InFlight
  <2> QED
    BY <2>1 DEF EndUnserved, SweepRefund, RefundInv, CreditIsConserved
<1> QED
  BY <1>2, <1>3, <1>4, <1>5 DEF RefundInv

\* A crash strands what the refunds in progress held.
LEMMA CrashStep == ASSUME RefundInv, Crash PROVE RefundInv'
<1>1. TypeOK'
  <2>1. \A c \in Calls : stranded[c] + InFlight(c) \in Nat
    <3> SUFFICES ASSUME NEW c \in Calls PROVE stranded[c] + InFlight(c) \in Nat
      OBVIOUS
    <3>1. InFlight(c) \in {0, 1}
      BY DEF InFlight
    <3> QED
      BY <3>1 DEF RefundInv, TypeOK
  <2> QED
    BY <2>1, MaxErrorsAssumption DEF Crash, RefundInv, TypeOK
<1>2. CreditIsConserved'
  <2> SUFFICES ASSUME NEW d \in Calls
               PROVE  (creditsUsed[d] + InFlight(d) + returned[d] + stranded[d] = 1 + repeated[d])'
    BY DEF CreditIsConserved
  <2>1. InFlight(d)' = 0 /\ InFlight(d) \in {0, 1}
    BY DEF Crash, InFlight
  <2>2. stranded'[d] = stranded[d] + InFlight(d)
    BY DEF Crash
  <2>3. creditsUsed[d] + InFlight(d) + returned[d] + stranded[d] = 1 + repeated[d]
    BY DEF RefundInv, CreditIsConserved
  <2> QED
    BY <2>1, <2>2, <2>3 DEF Crash, RefundInv, TypeOK
<1> QED
  BY <1>1, <1>2
  DEF Crash, RefundInv, ZeroedWhileInFlight, JobsAreWhereTheySay, RowsAreOfReturns, OneRefundInFlight

\* Every step keeps the inductive invariant.
LEMMA RefundKeepsInv == RefundInv /\ [Next]_vars => RefundInv'
<1> SUFFICES ASSUME RefundInv, [Next]_vars PROVE RefundInv'
  OBVIOUS
<1>1. CASE UNCHANGED vars
  BY <1>1 DEF vars, RefundInv, TypeOK, ZeroedWhileInFlight, PastZero, JobsAreWhereTheySay,
     RowsAreOfReturns, OneRefundInFlight, CreditIsConserved, InFlight
<1> QED
  BY <1>1, CallStep, BeginStep, CrashStep, ZeroStep, IncrementStep, RecordStep,
     RestoreStep, CheckStep, ReconcileStep
  DEF Next, Write

-----------------------------------------------------------------------------
(* The theorems                                                             *)

PayoutsInv ==
    /\ RefundInv
    /\ Is("mobile money") => MobileMoneyInv
    /\ Is("airtime")      => AirtimeInv

\* What is known of a refund, and of the rows of a payout, whoever pays it, is known in
\* every state.
THEOREM PayoutsInvHolds == PayoutsSpec => []PayoutsInv
<1>1. PayoutsInit => PayoutsInv
  BY RefundAtFirst, InitMobileMoney, InitAirtime DEF PayoutsInit, PayoutsInv, Is
<1>2. PayoutsInv /\ [PayoutsNext]_all => PayoutsInv'
  <2> SUFFICES ASSUME PayoutsInv, [PayoutsNext]_all PROVE PayoutsInv'
    OBVIOUS
  <2>1. CASE RefundStep
    BY <2>1, RefundKeepsInv DEF RefundStep, PayoutsInv, Is
  <2>2. CASE MobileMoneyStep
    BY <2>2, NextMobileMoney, RefundKeepsInv DEF MobileMoneyStep, PayoutsInv, Is
  <2>3. CASE AirtimeStep
    BY <2>3, NextAirtime, RefundKeepsInv DEF AirtimeStep, PayoutsInv, Is
  <2>4. CASE CrowdStep
    BY <2>4, RefundKeepsInv DEF CrowdStep, PayoutsInv, Is
  <2>5. CASE UNCHANGED all
    <3>1. UNCHANGED <<service, row, mobileMoney, sent>>
      BY <2>5 DEF all
    <3>2. UNCHANGED service
      BY <3>1
    <3>3. MobileMoneyInv => MobileMoneyInv'
      BY <3>1 DEF row, mobileMoney, MobileMoneyInv, MobileMoney!TypeOK, AnswersAreTrue, Unpaid,
         ClaimsAreExclusive, StatusIsTrue, OtherIdsUnpaid, SuccessWasPaid, MobileMoney!Orderly
    <3>4. AirtimeInv => AirtimeInv'
      BY <3>1 DEF row, sent, AirtimeInv, Airtime!TypeOK, Airtime!OneDispatchPerRow,
         DispatchesAreTrue, ReportsAreTrue, RowsAreTrue, Out
    <3>5. RefundInv'
      BY <2>5, RefundKeepsInv DEF all, PayoutsInv
    <3> QED
      BY <3>2, <3>3, <3>4, <3>5 DEF PayoutsInv, Is
  <2> QED
    BY <2>1, <2>2, <2>3, <2>4, <2>5 DEF PayoutsNext
<1> QED
  BY <1>1, <1>2, PTL DEF PayoutsSpec

\* Every variable of a refund keeps its type; a repetition that is settled is not counted
\* below zero (reconcileMissingRefunds, call.service.ts:1253).
THEOREM RefundTypes == PayoutsSpec => []TypeOK
<1>1. PayoutsInv => TypeOK
  BY DEF PayoutsInv, RefundInv
<1> QED
  BY <1>1, PayoutsInvHolds, PTL

\* The ender of a call and the sweep are never both past the zeroing of it
\* (refundIfQueued's atomic update), whatever fails and however they overlap.
THEOREM RefundsExclusive == PayoutsSpec => []OneRefundInFlight
<1>1. PayoutsInv => OneRefundInFlight
  BY DEF PayoutsInv, RefundInv
<1> QED
  BY <1>1, PayoutsInvHolds, PTL

\* The reserved credit of every call is in one place, for any number of failed
\* writes and crashes.
THEOREM Conservation == PayoutsSpec => []CreditIsConserved
<1>1. PayoutsInv => CreditIsConserved
  BY DEF PayoutsInv, RefundInv
<1> QED
  BY <1>1, PayoutsInvHolds, PTL

\* No winner is paid twice, through retries, restarts, lost answers and payments by hand
\* (disbursement.service.ts:243-244, 367): in mobile money of a row whose claims and answers
\* were about its own id, in airtime of one whose sends were all answered.
THEOREM PaidAtMostOnce == PayoutsSpec => []PaidOnce
<1>1. PayoutsInv => PaidOnce
  BY OrderlyIsPaidOnce, AirtimeSentOnce DEF PayoutsInv, PaidOnce
<1> QED
  BY <1>1, PayoutsInvHolds, PTL

\* "successful" is said of what was paid or delivered.  "failed", so that a row can be
\* retried or paid by hand (disbursement.service.ts:411), is said in mobile money of what
\* nobody paid, as long as claims and answers were about the row's own id, and of airtime
\* that is neither delivered nor on its way, if every send of the row was answered: a lost
\* answer ends as "failed" too (:176-180), whatever became of the airtime.
THEOREM StatusIsTold == PayoutsSpec => []RowsTellTheTruth
<1>1. PayoutsInv => RowsTellTheTruth
  BY StatusTellsTheTruth, AirtimeIsDelivered, FailedAirtimeWasNotSent DEF PayoutsInv, RowsTellTheTruth
<1> QED
  BY <1>1, PayoutsInvHolds, PTL
=============================================================================
