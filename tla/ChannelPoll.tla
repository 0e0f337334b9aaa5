----------------------------- MODULE ChannelPoll -----------------------------
(***************************************************************************)
(* One poll of a channel (src/src/module/channelPoll) with dates, a price and *)
(* categories, under concurrent voters, readers, administrators and runs of   *)
(* the scheduler: whoever reads the poll writes the status its dates ask for, *)
(* by the poll's id alone.  A vote and its charge commit in a transaction;    *)
(* the poll's total is incremented afterwards.                                *)
(***************************************************************************)
EXTENDS Totals

CONSTANTS
    Users, Categories,
    Requests,      \* requests in flight at once
    Cost,          \* creditCost of a poll with billingMode "credits", 0 of a free one
    Credits,       \* what each listener has to spend
    MaxEdits,      \* bound: administrators' changes of the status
    MaxFailures    \* bound: requests that fail or are cut off half way

CostAssumption   == Cost \in Nat /\ Credits \in Nat
BoundsAssumption == MaxEdits \in Nat /\ MaxFailures \in Nat
FiniteAssumption == IsFiniteSet(Users) /\ IsFiniteSet(Requests)

VARIABLES
    poll,          \* the ChannelPoll document
    now,           \* where the clock stands between the poll's dates
    rows,          \* how many ChannelPollVote rows each ballot has
    spent,         \* credits charged to each listener for votes
    job,           \* what each request does next
    edits, failures

vars == <<poll, now, rows, spent, job, edits, failures>>

Statuses == {"draft", "scheduled", "active", "completed"}
Ballots  == Users \X Categories
Nobody   == << >>

\* The clock: before startDate, from then on, at endDate exactly, after it.
Early == 0
Open  == 1
End   == 2
Over  == 3

\* status: what a reader is about to write, decided when the clock was at "at".
Job  == [step : {"idle", "scan", "sync", "check", "commit", "count", "votes"},
         ballot : Ballots \cup {Nobody}, status : Statuses, at : Early..Over]
Idle == [step |-> "idle", ballot |-> Nobody, status |-> "draft", at |-> Early]

TypeOK ==
    /\ poll     \in [is : {"none", "here", "gone"}, status : Statuses, totalVotes : Nat]
    /\ now      \in Early..Over
    /\ rows     \in [Ballots -> Nat]
    /\ spent    \in [Users -> 0..Credits]
    /\ job      \in [Requests -> Job]
    /\ edits    \in 0..MaxEdits
    /\ failures \in 0..MaxFailures

Init ==
    /\ poll     = [is |-> "none", status |-> "draft", totalVotes |-> 0]
    /\ now      = Early
    /\ rows     = [b \in Ballots |-> 0]
    /\ spent    = [u \in Users |-> 0]
    /\ job      = [r \in Requests |-> Idle]
    /\ edits    = 0
    /\ failures = 0

Goes(r, j) == job' = [job EXCEPT ![r] = j]
Here       == poll.is = "here"

-----------------------------------------------------------------------------
(* The document                                                             *)

\* The status createPoll derives when none is asked for.
ResolvedStatus ==
    CASE now = Early     -> "scheduled"
      [] now = Open      -> "active"
      [] now \in End..Over -> "completed"

\* Asked for by the administrator, or derived.
CreatePoll ==
    /\ poll.is = "none"
    /\ \E status \in {ResolvedStatus, "draft"} :
          poll' = [poll EXCEPT !.is = "here", !.status = status]
    /\ UNCHANGED <<now, rows, spent, job, edits, failures>>

Tick ==
    /\ now < Over
    /\ now' = now + 1
    /\ UNCHANGED <<poll, rows, spent, job, edits, failures>>

UpdatePoll ==
    /\ Here /\ edits < MaxEdits
    /\ \E status \in Statuses \ {poll.status} : poll' = [poll EXCEPT !.status = status]
    /\ edits' = edits + 1
    /\ UNCHANGED <<now, rows, spent, job, failures>>

\* The document goes first, then its votes.
DeletePoll(r) ==
    /\ job[r].step = "idle"
    /\ Here
    /\ poll' = [poll EXCEPT !.is = "gone"]
    /\ Goes(r, [Idle EXCEPT !.step = "votes"])
    /\ UNCHANGED <<now, rows, spent, edits, failures>>

DeleteVotesByPoll(r) ==
    /\ job[r].step = "votes"
    /\ rows' = [b \in Ballots |-> 0]
    /\ Goes(r, Idle)
    /\ UNCHANGED <<poll, now, spent, edits, failures>>

-----------------------------------------------------------------------------
(* Readers (getStationPolls, getAllPolls, getPollById) and the scheduler    *)

\* Mutant: whatever has started is active.
StatusByStart(status, at) == IF at >= Open THEN "active" ELSE status

\* The status the dates ask for.
StatusByDates(status, at) ==
    CASE status \in {"scheduled", "draft"} /\ at = Open -> "active"
      [] status = "active" /\ at >= End                 -> "completed"
      [] OTHER                                          -> status

\* The poll as it is read, compared with the clock as it stood at "at".
Compare(r, at) ==
    LET status == StatusByDates(poll.status, at) IN
    Goes(r, IF Here /\ status # poll.status
            THEN [Idle EXCEPT !.step = "sync", !.status = status, !.at = at] ELSE Idle)

ReadPoll(r) ==
    /\ job[r].step = "idle"
    /\ Here
    /\ Compare(r, now)
    /\ UNCHANGED <<poll, now, rows, spent, edits, failures>>

\* checkChallengeStatusTransitions looks at the clock once, and then at all challenges
\* before it reads the polls.
StartScan(r) ==
    /\ job[r].step = "idle"
    /\ Goes(r, [Idle EXCEPT !.step = "scan", !.at = now])
    /\ UNCHANGED <<poll, now, rows, spent, edits, failures>>

ScanPolls(r) ==
    /\ job[r].step = "scan"
    /\ Compare(r, job[r].at)
    /\ UNCHANGED <<poll, now, rows, spent, edits, failures>>

\* updateById, whatever the status has become; a deleted poll stays deleted.
WriteStatus(r) ==
    /\ job[r].step = "sync"
    /\ poll' = IF Here THEN [poll EXCEPT !.status = job[r].status] ELSE poll
    /\ Goes(r, Idle)
    /\ UNCHANGED <<now, rows, spent, edits, failures>>

-----------------------------------------------------------------------------
(* Voters: votePoll                                                         *)

StartVote(r) ==
    /\ job[r].step = "idle"
    /\ Here /\ poll.status = "active"
    /\ now \in Open..End
    /\ \E b \in Ballots : Goes(r, [Idle EXCEPT !.step = "check", !.ballot = b, !.at = now])
    /\ UNCHANGED <<poll, now, rows, spent, edits, failures>>

\* A voter who is too late only writes that the poll has ended.
VoteTooLate(r) ==
    /\ job[r].step = "idle"
    /\ Here /\ poll.status = "active"
    /\ now = Over
    /\ Goes(r, [Idle EXCEPT !.step = "sync", !.status = "completed", !.at = now])
    /\ UNCHANGED <<poll, now, rows, spent, edits, failures>>

\* Read outside the transaction's session.
HasVotedInCategory(b) == rows[b] > 0

CheckVote(r) ==
    /\ job[r].step = "check"
    /\ Goes(r, IF HasVotedInCategory(job[r].ballot) THEN Idle ELSE [job[r] EXCEPT !.step = "commit"])
    /\ UNCHANGED <<poll, now, rows, spent, edits, failures>>

Duplicate(b)  == rows[b] > 0
Affordable(u) == spent[u] + Cost <= Credits

\* Mutant: the charge does not use the transaction's session, and a duplicate leaves it.
AddVoteKeepCharge(b) ==
    /\ spent' = [spent EXCEPT ![b[1]] = @ + Cost]
    /\ rows'  = IF Duplicate(b) THEN rows ELSE [rows EXCEPT ![b] = @ + 1]

\* deductCredits and addVote, committed together.
AddVote(b) ==
    /\ ~Duplicate(b)
    /\ spent' = [spent EXCEPT ![b[1]] = @ + Cost]
    /\ rows'  = [rows EXCEPT ![b] = @ + 1]

CommitVote(r) ==
    /\ job[r].step = "commit"
    /\ Affordable(job[r].ballot[1])
    /\ AddVote(job[r].ballot)
    /\ Goes(r, [job[r] EXCEPT !.step = "count"])
    /\ UNCHANGED <<poll, now, edits, failures>>

\* The index refuses a second vote (at once, or as a conflict that is tried
\* again and then seen), and the balance one that cannot be paid.
RefuseVote(r) ==
    /\ job[r].step = "commit"
    /\ Duplicate(job[r].ballot) \/ ~Affordable(job[r].ballot[1])
    /\ Goes(r, Idle)
    /\ UNCHANGED <<poll, now, rows, spent, edits, failures>>

\* One atomic increment, which finds nothing when the poll is gone.
IncrementTotalVotes(r) ==
    /\ job[r].step = "count"
    /\ poll' = IF Here THEN [poll EXCEPT !.totalVotes = @ + 1] ELSE poll
    /\ Goes(r, Idle)
    /\ UNCHANGED <<now, rows, spent, edits, failures>>

\* An error of the database, an unknown commit result or the end of the process
\* leaves the request where it is.
Fail(r) ==
    /\ job[r].step # "idle"
    /\ failures < MaxFailures
    /\ failures' = failures + 1
    /\ Goes(r, Idle)
    /\ UNCHANGED <<poll, now, rows, spent, edits>>

-----------------------------------------------------------------------------
Next ==
    \/ CreatePoll \/ Tick \/ UpdatePoll
    \/ \E r \in Requests :
          \/ DeletePoll(r) \/ DeleteVotesByPoll(r)
          \/ ReadPoll(r) \/ StartScan(r) \/ ScanPolls(r) \/ WriteStatus(r)
          \/ StartVote(r) \/ VoteTooLate(r) \/ CheckVote(r)
          \/ CommitVote(r) \/ RefuseVote(r) \/ IncrementTotalVotes(r)
          \/ Fail(r)

Spec == Init /\ [][Next]_vars

-----------------------------------------------------------------------------
Counting == {r \in Requests : job[r].step = "count"}

AsBallot == INSTANCE Ballot WITH
    Voters    <- Ballots,
    Price     <- Cost,
    votes     <- rows,
    uncounted <- Cardinality(Counting),
    total     <- poll.totalVotes,
    charged   <- Total(spent, Users)

\* The poll keeps what a Ballot promises: one vote per listener and category,
\* each charged once and in the same step, each counted at most once, whatever
\* races with it or is cut off (the transaction, the unique index and the
\* increment after the commit).
KeepsBallot == AsBallot!Spec

\* A completed poll is opened again only by an administrator, or by a reader or
\* a run of the scheduler that looked at the clock before the end and wrote late; never
\* by one that looks at it then (the status written on a read, by the poll's id alone).
LateReaderIfReopened ==
    (poll.status = "completed" /\ poll'.status = "active" /\ edits' = edits)
        => \E r \in Requests : /\ job[r].step = "sync" /\ job'[r].step = "idle"
                               /\ job[r].status = "active" /\ job[r].at = Open

ReopenedOnlyByLateReader == [][LateReaderIfReopened]_vars
=============================================================================
