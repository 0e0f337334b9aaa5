---------------------------- MODULE PaymentProofs ----------------------------
(* Safety of Payment for any payments, workers, batch size and crashes.      *)
EXTENDS Payment, TLAPS

\* A row exists exactly when its initiatePayment has started.
RowIffPushed ==
    \A p \in Payments : status[p] = "none" <=> push[p] = "idle"

\* What the gateway's callbacks claim is what the gateway recorded, and no other
\* callback gets in for Airtel once the hash is enforced.
CallbacksAreEvidence ==
    \A c \in callbacks :
        /\ c.from = "unknown" => (c.pay \in airtel => ~EnforceAuth)
        /\ c.from = "gateway" /\ c.verdict = "paid"   => wallet[c.pay] = "collected"
        /\ c.from = "gateway" /\ c.verdict = "failed" => wallet[c.pay] = "declined"
        /\ c.verdict = "wrongAmount" => c.pay \notin airtel

\* A suspended job acts on the gateway's record, on the row's age, or on a callback
\* nothing confirmed: for PayLeo in either direction, for Airtel only to fail.
JobsAreEvidence ==
    \A j \in jobs :
        /\ j.next = "complete" =>
              wallet[j.pay] = "collected" \/ (j.pay \notin airtel /\ Unproven(j.pay, "paid"))
        /\ j.next = "fail" /\ j.pay \in airtel =>
              wallet[j.pay] = "declined" \/ age[j.pay] = Expired
                \/ (~EnforceAuth /\ Unproven(j.pay, "failed"))

OverdueIsExpired == \A p \in sweep.overdue : age[p] = Expired

\* Every way an Airtel row can have become "failed".
FailedForAReason ==
    \A p \in airtel : status[p] = "failed" =>
        push[p] = "failed" \/ wallet[p] = "declined" \/ age[p] = Expired
          \/ (~EnforceAuth /\ Unproven(p, "failed"))

DuplicateNeedsReopening ==
    \A p \in Payments : push[p] = "failed" =>
        credited[p] <= IF status[p] = "completed" THEN 2 ELSE 1

IInv ==
    /\ TypeOK
    /\ RowIffPushed
    /\ CallbacksAreEvidence
    /\ JobsAreEvidence
    /\ OverdueIsExpired
    /\ FailedForAReason
    /\ DuplicateNeedsReopening
    /\ CreditsArePaidFor
    /\ CompletedIffCredited


-----------------------------------------------------------------------------
USE PaymentsAssumption, WorkersAssumption, BoundsAssumption
USE DEF Workers, Status, Verdicts, Callback, Job, Sweep, NoSweep,
        Fresh, Pollable, Due, Expired

\* Every step keeps the types.
LEMMA TypeStep == TypeOK /\ [Next]_vars => TypeOK'
<1> SUFFICES ASSUME TypeOK, [Next]_vars PROVE TypeOK'
  OBVIOUS
<1> USE DEF TypeOK
<1>1. ASSUME NEW p \in Payments, InitiatePayment(p) PROVE TypeOK'
  BY <1>1 DEF InitiatePayment
<1>2. ASSUME NEW p \in Payments, PushAccepted(p) PROVE TypeOK'
  BY <1>2 DEF PushAccepted
<1>3. ASSUME NEW p \in Payments, PushUnsuccessful(p) PROVE TypeOK'
  BY <1>3 DEF PushUnsuccessful
<1>4. ASSUME NEW p \in Payments, RecordPushFailure(p) PROVE TypeOK'
  BY <1>4 DEF RecordPushFailure
<1>5. ASSUME NEW p \in Payments, GatewayPrompts(p) PROVE TypeOK'
  BY <1>5 DEF GatewayPrompts
<1>6. ASSUME NEW p \in Payments, GatewayCollects(p) PROVE TypeOK'
  BY <1>6 DEF GatewayCollects
<1>7. ASSUME NEW p \in Payments, GatewayDeclines(p) PROVE TypeOK'
  BY <1>7 DEF GatewayDeclines
<1>8. ASSUME NEW p \in Payments, UnprovenCallback(p) PROVE TypeOK'
  BY <1>8 DEF UnprovenCallback
<1>9. ASSUME NEW p \in Payments, SweepAirtel(p) PROVE TypeOK'
  BY <1>9 DEF SweepAirtel, Suspend
<1>10. ASSUME NEW p \in Payments, GrowOlder(p) PROVE TypeOK'
  BY <1>10 DEF GrowOlder
<1>11. ASSUME NEW r \in Requests, NEW c \in callbacks, HandlePayLeoCallback(r, c) PROVE TypeOK'
  BY <1>11 DEF HandlePayLeoCallback, Suspend, AfterPayLeoCallback
<1>12. ASSUME NEW r \in Requests, NEW c \in callbacks, HandleAirtelWebhook(r, c) PROVE TypeOK'
  BY <1>12 DEF HandleAirtelWebhook, Suspend, AfterAirtelCallback
<1>13. ASSUME NEW r \in Requests, NEW p \in Payments, GetPaymentStatus(r, p) PROVE TypeOK'
  BY <1>13 DEF GetPaymentStatus, Suspend
<1>14. ASSUME NEW j \in jobs, NEW answer \in EnquiryAnswers(j.pay), Enquire(j, answer) PROVE TypeOK'
  BY <1>14 DEF Enquire, EnquiryAnswers, AfterEnquiry
<1>15. ASSUME NEW j \in jobs, CompletePayment(j) PROVE TypeOK'
  BY <1>15 DEF CompletePayment, Creditable
<1>16. ASSUME NEW j \in jobs, FailPayment(j) PROVE TypeOK'
  BY <1>16 DEF FailPayment, Open
<1>17. ASSUME NEW j \in jobs, JobThrows(j) PROVE TypeOK'
  BY <1>17 DEF JobThrows
<1>18. CASE StartSweep
  BY <1>18 DEF StartSweep, Oldest, DueForReconciler
<1>19. CASE FinishSweep
  BY <1>19 DEF FinishSweep, TimedOutPayLeo
<1>20. CASE Crash
  BY <1>20 DEF Crash
<1>21. CASE UNCHANGED vars
  BY <1>21 DEF vars
<1> QED
  BY <1>1, <1>2, <1>3, <1>4, <1>5, <1>6, <1>7, <1>8, <1>9, <1>10, <1>11, <1>12, <1>13, <1>14, <1>15, <1>16, <1>17, <1>18, <1>19, <1>20, <1>21 DEF Next, Server, Gateway, RunJob

\* Every step keeps the inductive invariant.
LEMMA InvStep == IInv /\ [Next]_vars => IInv'
<1> SUFFICES ASSUME IInv, [Next]_vars PROVE IInv'
  OBVIOUS
<1> USE DEF IInv, TypeOK, RowIffPushed, CallbacksAreEvidence, JobsAreEvidence, OverdueIsExpired,
         FailedForAReason, DuplicateNeedsReopening, CreditsArePaidFor, CompletedIffCredited, Unproven
<1>1. ASSUME NEW p \in Payments, InitiatePayment(p) PROVE IInv'
  BY <1>1 DEF InitiatePayment
<1>2. ASSUME NEW p \in Payments, PushAccepted(p) PROVE IInv'
  BY <1>2 DEF PushAccepted
<1>3. ASSUME NEW p \in Payments, PushUnsuccessful(p) PROVE IInv'
  <2>1. CASE wallet[p] = "unasked" /\ wallet' = [wallet EXCEPT ![p] = "declined"]
    BY <1>3, <2>1 DEF PushUnsuccessful
  <2>2. CASE wallet' = wallet
    BY <1>3, <2>2 DEF PushUnsuccessful
  <2> QED
    BY <1>3, <2>1, <2>2 DEF PushUnsuccessful
<1>4. ASSUME NEW p \in Payments, RecordPushFailure(p) PROVE IInv'
  BY <1>4 DEF RecordPushFailure
<1>5. ASSUME NEW p \in Payments, GatewayPrompts(p) PROVE IInv'
  BY <1>5 DEF GatewayPrompts
<1>6. ASSUME NEW p \in Payments, GatewayCollects(p) PROVE IInv'
  BY <1>6 DEF GatewayCollects
<1>7. ASSUME NEW p \in Payments, GatewayDeclines(p) PROVE IInv'
  BY <1>7 DEF GatewayDeclines
<1>8. ASSUME NEW p \in Payments, UnprovenCallback(p) PROVE IInv'
  BY <1>8 DEF UnprovenCallback
<1>9. ASSUME NEW p \in Payments, SweepAirtel(p) PROVE IInv'
  BY <1>9 DEF SweepAirtel, Suspend
<1>10. ASSUME NEW p \in Payments, GrowOlder(p) PROVE IInv'
  BY <1>10 DEF GrowOlder
<1>11. ASSUME NEW r \in Requests, NEW c \in callbacks, HandlePayLeoCallback(r, c) PROVE IInv'
  BY <1>11 DEF HandlePayLeoCallback, Suspend, AfterPayLeoCallback
<1>12. ASSUME NEW r \in Requests, NEW c \in callbacks, HandleAirtelWebhook(r, c) PROVE IInv'
  BY <1>12 DEF HandleAirtelWebhook, Suspend, AfterAirtelCallback
<1>13. ASSUME NEW r \in Requests, NEW p \in Payments, GetPaymentStatus(r, p) PROVE IInv'
  BY <1>13 DEF GetPaymentStatus, Suspend
<1>14. ASSUME NEW j \in jobs, NEW answer \in EnquiryAnswers(j.pay), Enquire(j, answer) PROVE IInv'
  BY <1>14 DEF Enquire, EnquiryAnswers, AfterEnquiry
<1>15. ASSUME NEW j \in jobs, CompletePayment(j) PROVE IInv'
  BY <1>15 DEF CompletePayment, Creditable
<1>16. ASSUME NEW j \in jobs, FailPayment(j) PROVE IInv'
  BY <1>16 DEF FailPayment, Open
<1>17. ASSUME NEW j \in jobs, JobThrows(j) PROVE IInv'
  BY <1>17 DEF JobThrows
<1>18. CASE StartSweep
  <2>1. TypeOK'
    BY <1>18, TypeStep
  <2>2. OverdueIsExpired'
    BY <1>18 DEF StartSweep
  <2> QED
    BY <1>18, <2>1, <2>2 DEF StartSweep
<1>19. CASE FinishSweep
  BY <1>19 DEF FinishSweep, TimedOutPayLeo
<1>20. CASE Crash
  BY <1>20 DEF Crash
<1>21. CASE UNCHANGED vars
  BY <1>21 DEF vars
<1> QED
  BY <1>1, <1>2, <1>3, <1>4, <1>5, <1>6, <1>7, <1>8, <1>9, <1>10, <1>11, <1>12, <1>13, <1>14, <1>15, <1>16, <1>17, <1>18, <1>19, <1>20, <1>21 DEF Next, Server, Gateway, RunJob

\* The model's variables keep the types that the mongoose schema and the code's
\* local variables have.
THEOREM TypeCorrect == Spec => []TypeOK
<1>1. Init => TypeOK
  BY DEF Init, TypeOK
<1> QED
  BY <1>1, TypeStep, PTL DEF Spec

\* The inductive invariant holds throughout.
THEOREM Invariance == Spec => []IInv
<1>1. Init => IInv
  BY DEF Init, IInv, TypeOK, RowIffPushed, CallbacksAreEvidence, JobsAreEvidence, OverdueIsExpired,
         FailedForAReason, DuplicateNeedsReopening, CreditsArePaidFor, CompletedIffCredited
<1> QED
  BY <1>1, InvStep, PTL DEF Spec

\* Airtel's credits are granted only for money the gateway collected, whoever called
\* the webhook; PayLeo's also on a success callback the gateway did not send.
THEOREM CreditsPaid == Spec => []CreditsArePaidFor
<1>1. IInv => CreditsArePaidFor
  BY DEF IInv
<1> QED
  BY <1>1, Invariance, PTL

\* Unless its push was recorded as failed, an attempt is completed exactly when it
\* was credited, and then once.
THEOREM CreditedOnce == Spec => []CompletedIffCredited
<1>1. IInv => CompletedIffCredited
  BY DEF IInv
<1> QED
  BY <1>1, Invariance, PTL

\* No attempt is credited more than twice, whatever races happen.
THEOREM DuplicateBounded == Spec => []AtMostOneDuplicate
<1>1. IInv => AtMostOneDuplicate
  BY DEF IInv, TypeOK, DuplicateNeedsReopening, CompletedIffCredited, AtMostOneDuplicate
<1> QED
  BY <1>1, Invariance, PTL

\* Collected money of an accepted Airtel push is given up only by the 24 h expiry or,
\* where the hash is not enforced, by a failure callback the gateway did not send.
THEOREM OnlyExpiryLoses == Spec => []OnlyExpiryLosesMoney
<1>1. IInv => OnlyExpiryLosesMoney
  BY DEF IInv, FailedForAReason, OnlyExpiryLosesMoney
<1> QED
  BY <1>1, Invariance, PTL

\* Only the answer to the push takes a payment out of "completed".
THEOREM DowngradeOnlyByPush == Spec => OnlyPushFailureDowngrades
<1> DEFINE Step == \A p \in Payments :
                     (status[p] = "completed" /\ status'[p] # "completed") => push[p] = "failing"
<1>1. ASSUME TypeOK, [Next]_vars PROVE [Step]_vars
  <2> SUFFICES ASSUME NEW q \in Payments, status[q] = "completed", push[q] # "failing"
               PROVE  status'[q] = "completed"
    OBVIOUS
  <2> USE <1>1 DEF TypeOK
  <2>1. CASE \E p \in Payments : InitiatePayment(p) \/ RecordPushFailure(p)
    BY <2>1 DEF InitiatePayment, RecordPushFailure
  <2>2. CASE \E j \in jobs : CompletePayment(j) \/ FailPayment(j)
    BY <2>2 DEF CompletePayment, FailPayment, Creditable, Open
  <2>3. CASE FinishSweep
    BY <2>3 DEF FinishSweep, TimedOutPayLeo
  <2>4. CASE status' = status
    BY <2>4
  <2> QED
    BY <2>1, <2>2, <2>3, <2>4
       DEF Next, Server, Gateway, RunJob, vars, PushAccepted, PushUnsuccessful, GatewayPrompts,
           GatewayCollects, GatewayDeclines, UnprovenCallback, SweepAirtel, GrowOlder,
           HandlePayLeoCallback, HandleAirtelWebhook, GetPaymentStatus, Enquire, JobThrows,
           StartSweep, Crash
<1> QED
  BY <1>1, TypeCorrect, PTL DEF Spec, OnlyPushFailureDowngrades
=============================================================================
