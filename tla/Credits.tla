------------------------------- MODULE Credits -------------------------------
(***************************************************************************)
(* The two modules about a listener's credits: the ledger (CreditLedger,     *)
(* extended) and a challenge that costs a credit and pays some (Challenge).  *)
(* They share no state, so a behaviour is one of one of them, as service     *)
(* says, and the variables of the other keep their first values.  run is     *)
(* what Challenge calls job.                                                 *)
(***************************************************************************)
EXTENDS CreditLedger, TLC

CONSTANTS Users, Scans, Requests, NumberOfWinners, MaxEdits, MaxFaults   \* see Challenge

VARIABLES
    service,
    status, phase, players, charged, refunded, row, granted, run, reopened, edits, faults

challenge == <<status, phase, players, charged, refunded, row, granted, run, reopened, edits, faults>>
all       == <<service, vars, challenge>>

Is(name) == service = name

Challenge == INSTANCE Challenge WITH job <- run

ASSUME ChallengeAssumption ==
    Challenge!UsersAssumption /\ Challenge!WorkersAssumption /\ Challenge!BoundsAssumption

NoChallenge ==
    /\ status = 0 /\ phase = 0 /\ players = 0 /\ charged = 0 /\ refunded = 0 /\ row = 0
    /\ granted = 0 /\ run = 0 /\ reopened = 0 /\ edits = 0 /\ faults = 0

CreditsInit ==
    /\ Init
    /\ \/ Is("ledger") /\ NoChallenge
       \/ Is("challenge") /\ Challenge!Init

LedgerStep    == Is("ledger")    /\ Next           /\ UNCHANGED <<service, challenge>>
ChallengeStep == Is("challenge") /\ Challenge!Next /\ UNCHANGED <<service, vars>>

CreditsNext == LedgerStep \/ ChallengeStep

CreditsSpec == CreditsInit /\ [][CreditsNext]_all

-----------------------------------------------------------------------------
\* Who plays has been charged once, and nobody else.
ChargedIffPlaying == Is("challenge") => Challenge!ChargedIffPlaying

\* The bonus a winner has is what his row says, no pending prize is left behind,
\* and there are no more winners than prizes.
PrizesFollowRows == Is("challenge") => Challenge!PrizesFollowRows

\* One refund at most, and not beside a prize, until an ended challenge is reopened.
RefundedOnceUnlessReopened ==
    Is("challenge") => Challenge!RefundedOnceUnlessReopened

\* Only who had read before overtakes: the split is skewed only by readers that
\* overlapped a commit, and an ended challenge changes only by a PATCH or a scan that had
\* read it before.
OnlyStaleReadersOvertake ==
    /\ OnlyLateReadersSkew
    /\ [][Is("challenge") => Challenge!OnlyStaleScanIfChanged]_all

-----------------------------------------------------------------------------
\* For TLC: who works on the ledger, the scans and the requests about the challenge are
\* interchangeable.
Symmetry == Permutations(Tasks) \cup Permutations(Requests)
=============================================================================
