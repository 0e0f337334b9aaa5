------------------------------- MODULE Payouts -------------------------------
(***************************************************************************)
(* The three modules that move money or credits to somebody: the refund of a *)
(* call (CallRefund, extended) and the payouts of prizes in mobile money and *)
(* in airtime.  They share no state, so a behaviour is one of one of them, as *)
(* service says, and the variables of the others stay as they are.  The two   *)
(* payouts are about rows of one collection: state is what they call status.  *)
(* Mobile money is there twice: as it is, and as a crowd of more rows than the *)
(* job asks for at a time, without the retries and restarts of the other.     *)
(***************************************************************************)
EXTENDS CallRefund

CONSTANTS
    Rows, Batch, MaxRef, MaxPayoutCrashes, MaxAirtimeCrashes,   \* see the two modules
    CrowdRows                                                   \* rows of the crowd

VARIABLES
    service,
    state, txRef, requestId, crashes,
    provider, toPay, payouts, job, airtel, byHand, mixed, misjudged,    \* mobile money
    dispatches, airtime, reports, unanswered, early                     \* airtime

row         == <<state, txRef, requestId, crashes>>
mobileMoney == <<provider, toPay, payouts, job, airtel, byHand, mixed, misjudged>>
sent        == <<dispatches, airtime, reports, unanswered, early>>
all         == <<service, vars, row, mobileMoney, sent>>

Is(name) == service = name

MobileMoney ==
    INSTANCE MobileMoneyPayout WITH status <- state, MaxCrashes <- MaxPayoutCrashes

Airtime == INSTANCE AirtimePayout WITH status <- state, MaxCrashes <- MaxAirtimeCrashes

Crowd ==
    INSTANCE MobileMoneyPayout WITH status <- state, Rows <- CrowdRows, MaxRef <- 1, MaxCrashes <- 0

ASSUME PayoutsAssumption ==
    /\ MobileMoney!RowsAssumption /\ MobileMoney!BatchAssumption
    /\ MobileMoney!MaxRefAssumption /\ MobileMoney!MaxCrashesAssumption
    /\ Airtime!MaxRefAssumption /\ Airtime!MaxCrashesAssumption
    /\ Crowd!RowsAssumption

-----------------------------------------------------------------------------
NoRows == state = 0 /\ txRef = 0 /\ requestId = 0 /\ crashes = 0
NoMobileMoney ==
    /\ provider = 0 /\ toPay = 0 /\ payouts = 0 /\ job = 0 /\ airtel = 0
    /\ byHand = 0 /\ mixed = 0 /\ misjudged = 0
NoAirtime == dispatches = 0 /\ airtime = 0 /\ reports = 0 /\ unanswered = 0 /\ early = 0

PayoutsInit ==
    /\ Init
    /\ \/ Is("refund")       /\ NoRows /\ NoMobileMoney /\ NoAirtime
       \/ Is("mobile money") /\ MobileMoney!Init /\ NoAirtime
       \/ Is("airtime")      /\ Airtime!Init /\ NoMobileMoney
       \/ Is("crowd")        /\ Crowd!Init /\ NoAirtime

RefundStep      == Is("refund") /\ Next /\ UNCHANGED <<service, row, mobileMoney, sent>>
MobileMoneyStep == Is("mobile money") /\ MobileMoney!Next /\ UNCHANGED <<service, vars, sent>>
AirtimeStep     == Is("airtime") /\ Airtime!Next /\ UNCHANGED <<service, vars, mobileMoney>>
CrowdStep       == Is("crowd") /\ Crowd!Next /\ UNCHANGED <<service, vars, sent>>

PayoutsNext == RefundStep \/ MobileMoneyStep \/ AirtimeStep \/ CrowdStep

\* The fairness of each module; CallRefund's own applies as it stands, nothing
\* it is about being enabled while the other two run.
MobileMoneyFairness ==
    /\ WF_(MobileMoney!vars)(Is("mobile money") /\ \E p \in payouts : MobileMoney!Dispatch(p))
    /\ WF_(MobileMoney!vars)(Is("mobile money") /\ MobileMoney!JobStep)
    /\ \A r \in Rows, k \in MobileMoney!Refs :
          WF_(MobileMoney!vars)(Is("mobile money") /\ MobileMoney!Decide(r, k))
    /\ \A r \in Rows : SF_(MobileMoney!vars)(Is("mobile money") /\ MobileMoney!Answered(r))

CrowdFairness ==
    /\ WF_(Crowd!vars)(Is("crowd") /\ \E p \in payouts : Crowd!Dispatch(p))
    /\ WF_(Crowd!vars)(Is("crowd") /\ Crowd!JobStep)
    /\ \A r \in CrowdRows : /\ WF_(Crowd!vars)(Is("crowd") /\ \E k \in Crowd!Refs : Crowd!Decide(r, k))
                           /\ SF_(Crowd!vars)(Is("crowd") /\ Crowd!Answered(r))

AirtimeFairness ==
    /\ \A r \in Rows :
          /\ WF_(Airtime!vars)(Is("airtime") /\ Airtime!ClaimRow(r))
          /\ WF_(Airtime!vars)(Is("airtime") /\ \E d \in dispatches : d.row = r /\ Airtime!RunDispatch(d))
          /\ SF_(Airtime!vars)(Is("airtime") /\ \E d \in dispatches :
                                   d.row = r /\ (Airtime!WithinLimit(d) \/ Airtime!RejectRow(d)))
    /\ \A r \in Rows, k \in Airtime!Refs : WF_(Airtime!vars)(Is("airtime") /\ Airtime!Deliver(r, k))
    /\ \A m \in Airtime!Report :
          WF_(Airtime!vars)(Is("airtime") /\ m \in reports /\ Airtime!HandleReport(m))

PayoutsSpec ==
    /\ PayoutsInit /\ [][PayoutsNext]_all
    /\ Fairness /\ MobileMoneyFairness /\ CrowdFairness /\ AirtimeFairness

-----------------------------------------------------------------------------
\* No winner is paid twice: in mobile money as long as claims and answers use the
\* id of the row, in airtime as long as every send was answered.
PaidOnce ==
    /\ Is("mobile money") => MobileMoney!PaidOnceIfOrderly
    /\ Is("airtime")      => Airtime!SentOnceIfAnswered

\* "successful" is said of what was paid or delivered; "failed" of what nobody paid, as long
\* as claims and answers use the id of the row, and of airtime that is neither delivered nor
\* on its way, but of rows one of whose sends got no answer (disbursement.service.ts:176-180).
RowsTellTheTruth ==
    /\ Is("mobile money") => MobileMoney!SuccessfulIsPaid /\ MobileMoney!FailedIsUnpaid
    /\ Is("airtime")      => Airtime!SuccessfulIsDelivered /\ Airtime!FailedWasNotSentIfAnswered

DecidedRow(r) ==
    \/ Is("mobile money") /\ r \in Rows /\ MobileMoney!Decided(r)
    \/ Is("airtime") /\ r \in Rows /\ Airtime!Reported(r)
    \/ Is("crowd") /\ r \in CrowdRows /\ Crowd!Decided(r)

SettledRow(r) ==
    \/ Is("mobile money") /\ r \in Rows /\ (~MobileMoney!InProgress(r) \/ MobileMoney!Crowded)
    \/ Is("airtime") /\ r \in Rows /\ Airtime!SettledUnlessEarly(r)
    \/ Is("crowd") /\ (~Crowd!InProgress(r) \/ Crowd!Crowded)

\* A payout its operator has decided is settled in the end, by the call, the job or the
\* delivery report (reconcileMobileMoneyPayouts, updateFromAirtimeCallback), unless again
\* and again more rows are in flight than the job asks for.
DecidedPayoutsSettle == \A r \in Rows \cup CrowdRows : DecidedRow(r) ~> SettledRow(r)
=============================================================================
