------------------------------- MODULE ShowPoll -------------------------------
(***************************************************************************)
(* One poll of a show (src/src/module/poll): a question to the listeners, with *)
(* an expiry that only lists of polls act on.  A vote is its PollVote row and, *)
(* without a transaction, an increment of the poll's total and of its option.  *)
(***************************************************************************)
EXTENDS Totals

CONSTANTS
    Users, Options,
    Requests,      \* requests in flight at once
    MaxEdits,      \* bound: administrators' changes of the status
    MaxFailures    \* bound: requests that fail or are cut off half way

BoundsAssumption == MaxEdits \in Nat /\ MaxFailures \in Nat
FiniteAssumption == IsFiniteSet(Options) /\ IsFiniteSet(Requests)

VARIABLES
    poll,          \* the Poll document; totalVotes is the sum of its options' votes
    expired,       \* expiresAt has passed; a poll without one never expires
    rows,          \* the option of each PollVote row, row by row
    job,           \* what each request does next
    edits, failures

vars == <<poll, expired, rows, job, edits, failures>>

Statuses == {"draft", "active", "completed"}
None     == "none"

Job  == [step : {"idle", "sync", "check", "insert", "count", "votes"},
         user : Users \cup {None}, option : Options \cup {None}]
Idle == [step |-> "idle", user |-> None, option |-> None]

TypeOK ==
    /\ poll     \in [is : {"none", "here", "gone"}, status : Statuses, votes : [Options -> Nat]]
    /\ expired  \in BOOLEAN
    /\ rows     \in [Users -> [Options -> Nat]]
    /\ job      \in [Requests -> Job]
    /\ edits    \in 0..MaxEdits
    /\ failures \in 0..MaxFailures

Init ==
    /\ poll     = [is |-> "none", status |-> "draft", votes |-> [o \in Options |-> 0]]
    /\ expired  = FALSE
    /\ rows     = [u \in Users |-> [o \in Options |-> 0]]
    /\ job      = [r \in Requests |-> Idle]
    /\ edits    = 0
    /\ failures = 0

Goes(r, j)   == job' = [job EXCEPT ![r] = j]
Here         == poll.is = "here"
SumOver(f)   == Total(f, DOMAIN f)
VotesOf(u)   == SumOver(rows[u])

-----------------------------------------------------------------------------
(* The document                                                             *)

CreatePoll ==
    /\ poll.is = "none"
    /\ poll' = [poll EXCEPT !.is = "here", !.status = "active"]
    /\ UNCHANGED <<expired, rows, job, edits, failures>>

Expire ==
    /\ ~expired
    /\ expired' = TRUE
    /\ UNCHANGED <<poll, rows, job, edits, failures>>

UpdatePoll ==
    /\ Here /\ edits < MaxEdits
    /\ \E status \in Statuses \ {poll.status} : poll' = [poll EXCEPT !.status = status]
    /\ edits' = edits + 1
    /\ UNCHANGED <<expired, rows, job, failures>>

\* The document goes first, then its votes.
DeletePoll(r) ==
    /\ job[r].step = "idle"
    /\ Here
    /\ poll' = [poll EXCEPT !.is = "gone"]
    /\ Goes(r, [Idle EXCEPT !.step = "votes"])
    /\ UNCHANGED <<expired, rows, edits, failures>>

DeleteVotesByPoll(r) ==
    /\ job[r].step = "votes"
    /\ rows' = [u \in Users |-> [o \in Options |-> 0]]
    /\ Goes(r, Idle)
    /\ UNCHANGED <<poll, expired, edits, failures>>

\* getStationPolls and getAllPolls, which complete what has expired, by its id.
ListPolls(r) ==
    /\ job[r].step = "idle"
    /\ Here /\ poll.status = "active" /\ expired
    /\ Goes(r, [Idle EXCEPT !.step = "sync"])
    /\ UNCHANGED <<poll, expired, rows, edits, failures>>

CompleteExpired(r) ==
    /\ job[r].step = "sync"
    /\ poll' = IF Here THEN [poll EXCEPT !.status = "completed"] ELSE poll
    /\ Goes(r, Idle)
    /\ UNCHANGED <<expired, rows, edits, failures>>

-----------------------------------------------------------------------------
(* Voters: votePoll                                                         *)

\* Only the status counts: an expired poll takes votes until a list is read.
StartVote(r) ==
    /\ job[r].step = "idle"
    /\ Here /\ poll.status = "active"
    /\ \E u \in Users, o \in Options :
          Goes(r, [step |-> "check", user |-> u, option |-> o])
    /\ UNCHANGED <<poll, expired, rows, edits, failures>>

HasVoted(u) == VotesOf(u) > 0

CheckVote(r) ==
    /\ job[r].step = "check"
    /\ Goes(r, IF HasVoted(job[r].user) THEN Idle ELSE [job[r] EXCEPT !.step = "insert"])
    /\ UNCHANGED <<poll, expired, rows, edits, failures>>

\* Mutant: the index is on the option as well.
DuplicateOption(u, o) == rows[u][o] > 0

Duplicate(u, o) == VotesOf(u) > 0

InsertVote(r) ==
    LET j == job[r] IN
    /\ j.step = "insert"
    /\ ~Duplicate(j.user, j.option)
    /\ rows' = [rows EXCEPT ![j.user][j.option] = @ + 1]
    /\ Goes(r, [j EXCEPT !.step = "count"])
    /\ UNCHANGED <<poll, expired, edits, failures>>

AlreadyVoted(r) ==
    /\ job[r].step = "insert"
    /\ Duplicate(job[r].user, job[r].option)
    /\ Goes(r, Idle)
    /\ UNCHANGED <<poll, expired, rows, edits, failures>>

\* One atomic increment of the option's votes and the total.
Incremented(o) == [poll EXCEPT !.votes[o] = @ + 1]

\* A deleted poll has nothing to increment.
CountVote(r) ==
    /\ job[r].step = "count"
    /\ poll' = IF Here THEN Incremented(job[r].option) ELSE poll
    /\ Goes(r, Idle)
    /\ UNCHANGED <<expired, rows, edits, failures>>

Fail(r) ==
    /\ job[r].step # "idle"
    /\ failures < MaxFailures
    /\ failures' = failures + 1
    /\ Goes(r, Idle)
    /\ UNCHANGED <<poll, expired, rows, edits>>

-----------------------------------------------------------------------------
Next ==
    \/ CreatePoll \/ Expire \/ UpdatePoll
    \/ \E r \in Requests :
          \/ DeletePoll(r) \/ DeleteVotesByPoll(r)
          \/ ListPolls(r) \/ CompleteExpired(r)
          \/ StartVote(r) \/ CheckVote(r)
          \/ InsertVote(r) \/ AlreadyVoted(r) \/ CountVote(r)
          \/ Fail(r)

Spec == Init /\ [][Next]_vars

-----------------------------------------------------------------------------
Counting == {r \in Requests : job[r].step = "count"}

AsBallot == INSTANCE Ballot WITH
    Voters    <- Users,
    Price     <- 0,
    votes     <- [u \in Users |-> VotesOf(u)],
    uncounted <- Cardinality(Counting),
    total     <- SumOver(poll.votes),
    charged   <- 0

\* The poll keeps what a Ballot promises, with nothing to pay: one vote per
\* listener whichever option, counted at most once for its option, although row
\* and count are two writes without a transaction.
KeepsBallot == AsBallot!Spec
=============================================================================
