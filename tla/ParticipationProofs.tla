------------------------- MODULE ParticipationProofs -------------------------
(***************************************************************************)
(* Proofs about votes and messages, for any listeners, requests and bounds:   *)
(* both kinds of poll implement Ballot, step by step; a message is sent and   *)
(* charged once.  Polls need to know little more than their types: the        *)
(* transaction, or the unique index, decides in one step.  A message needs    *)
(* what the locks of open transactions promise.                               *)
(***************************************************************************)
EXTENDS Participation, Totals

-----------------------------------------------------------------------------
(* Channel polls                                                            *)

\* Who votes votes for a ballot; a poll that does not exist yet is a draft; and only who saw
\* the clock between start and end is about to write "active".
ChannelPollInv ==
    /\ ChannelPoll!TypeOK
    /\ \A r \in Requests : job[r].step \in {"check", "commit", "count"} =>
          job[r].ballot \in ChannelPoll!Ballots
    /\ poll.is = "none" => poll.status = "draft"
    /\ \A r \in Requests : job[r].step = "sync" /\ job[r].status = "active" =>
          job[r].at = ChannelPoll!Open

-----------------------------------------------------------------------------
(* Show polls                                                               *)

\* Who votes is a listener, for one of the options.
ShowPollInv ==
    /\ ShowPoll!TypeOK
    /\ \A r \in Requests : job[r].step \in {"check", "insert", "count"} =>
          job[r].user \in Users /\ job[r].option \in Options

-----------------------------------------------------------------------------
(* Messages                                                                 *)

AllKeys == MessageSend!AllKeys

\* A transaction that has inserted its message.
Inserted(r) == job[r].step \in {"charge", "commit"}

\* While one transaction has inserted the message of a key, no other has, and none is there.
KeysAreExclusive ==
    \A r \in Requests : Inserted(r) /\ job[r].key \in Keys =>
        /\ rows[job[r].key] = 0
        /\ \A q \in Requests : Inserted(q) /\ job[q].key = job[r].key => q = r

\* One transaction at a time has charged the balance, which can pay.
ChargesAreExclusive ==
    \A r \in Requests : job[r].step = "commit" =>
        /\ balance > 0
        /\ \A q \in Requests : job[q].step = "commit" => q = r

MessageTypes ==
    /\ rows \in [AllKeys -> Nat] /\ balance \in Int
    /\ job \in [Requests -> MessageSend!Job] /\ answered \subseteq AllKeys

MessageInv == MessageTypes /\ MessageSend!SentOnce /\ KeysAreExclusive /\ ChargesAreExclusive

ParticipationInv ==
    /\ Is("channel poll") => ChannelPollInv
    /\ Is("show poll")    => ShowPollInv
    /\ Is("message")      => MessageInv

-----------------------------------------------------------------------------
(* Operators                                                                *)

\* Numbers of elements and sums are the same for all modules.
LEMMA SameOperators ==
  /\ \A S : ChannelPoll!Cardinality(S) = Cardinality(S) /\ ShowPoll!Cardinality(S) = Cardinality(S)
  /\ \A S : ChannelPoll!IsFiniteSet(S) = IsFiniteSet(S) /\ ShowPoll!IsFiniteSet(S) = IsFiniteSet(S)
  /\ \A S : MessageSend!IsFiniteSet(S) = IsFiniteSet(S)
  /\ \A f, S : ChannelPoll!Total(f, S) = Total(f, S)
  /\ \A f, S : ShowPoll!Total(f, S) = Total(f, S)
  /\ \A f, S : MessageSend!Total(f, S) = Total(f, S)
<1>1. \A S : ChannelPoll!Cardinality(S) = Cardinality(S) /\ ShowPoll!Cardinality(S) = Cardinality(S)
  BY DEF ChannelPoll!Cardinality, ShowPoll!Cardinality, Cardinality
<1>2. \A S : ChannelPoll!IsFiniteSet(S) = IsFiniteSet(S) /\ ShowPoll!IsFiniteSet(S) = IsFiniteSet(S)
  BY DEF ChannelPoll!IsFiniteSet, ShowPoll!IsFiniteSet, IsFiniteSet
<1>3. \A S : MessageSend!IsFiniteSet(S) = IsFiniteSet(S)
  BY DEF MessageSend!IsFiniteSet, IsFiniteSet
<1>4. \A f, S : ChannelPoll!Total(f, S) = Total(f, S)
  BY DEF ChannelPoll!Total, ChannelPoll!MapThenSumSet, ChannelPoll!MapThenFoldSet,
         Total, MapThenSumSet, MapThenFoldSet
<1>5. \A f, S : ShowPoll!Total(f, S) = Total(f, S)
  BY DEF ShowPoll!Total, ShowPoll!MapThenSumSet, ShowPoll!MapThenFoldSet,
         Total, MapThenSumSet, MapThenFoldSet
<1>6. \A f, S : MessageSend!Total(f, S) = Total(f, S)
  BY DEF MessageSend!Total, MessageSend!MapThenSumSet, MessageSend!MapThenFoldSet,
         Total, MapThenSumSet, MapThenFoldSet
<1> QED
  BY <1>1, <1>2, <1>3, <1>4, <1>5, <1>6

\* What the constants are.
LEMMA Constants ==
  /\ IsFiniteSet(Users) /\ IsFiniteSet(Requests) /\ IsFiniteSet(Options) /\ IsFiniteSet(Keys)
  /\ Cost \in Nat /\ VoteCredits \in Nat /\ MessageCredits \in Nat /\ MaxEdits \in Nat
  /\ MaxFailures \in Nat /\ MaxAttempts \in Nat \ {0} /\ NoKey \notin Keys
BY ParticipationAssumption, SameOperators
   DEF ChannelPoll!CostAssumption, ChannelPoll!BoundsAssumption, ChannelPoll!FiniteAssumption,
       ShowPoll!BoundsAssumption, ShowPoll!FiniteAssumption,
       MessageSend!KeysAssumption, MessageSend!BoundsAssumption

\* One request goes on to j, the others stay where they are.
LEMMA OneGoes ==
  ASSUME NEW J, NEW f \in [Requests -> J], NEW r \in Requests, NEW j \in J
  PROVE  /\ [f EXCEPT ![r] = j] \in [Requests -> J]
         /\ \A q \in Requests : [f EXCEPT ![r] = j][q] = IF q = r THEN j ELSE f[q]
OBVIOUS

\* Requests whose vote is stored and not counted yet.
Counting == {r \in Requests : job[r].step = "count"}

\* What one request's step does to their number.
LEMMA CountingStep ==
  ASSUME NEW r \in Requests, NEW j,
         \A q \in Requests : job'[q] = IF q = r THEN j ELSE job[q]
  PROVE  /\ Cardinality(Counting) \in Nat
         /\ job[r].step # "count" /\ j.step # "count" => Counting' = Counting
         /\ job[r].step # "count" /\ j.step = "count" =>
               Cardinality(Counting') = Cardinality(Counting) + 1
         /\ job[r].step = "count" /\ j.step # "count" =>
               /\ Cardinality(Counting) > 0
               /\ Cardinality(Counting') = Cardinality(Counting) - 1
<1>1. IsFiniteSet(Counting) /\ Cardinality(Counting) \in Nat
  BY Constants, FS_Subset, FS_CardinalityType DEF Counting
<1>2. ASSUME job[r].step # "count", j.step # "count" PROVE Counting' = Counting
  BY <1>2 DEF Counting
<1>3. ASSUME job[r].step # "count", j.step = "count"
      PROVE  Cardinality(Counting') = Cardinality(Counting) + 1
  <2>1. r \notin Counting /\ Counting' = Counting \cup {r}
    BY <1>3 DEF Counting
  <2> QED
    BY <1>1, <2>1, FS_AddElement
<1>4. ASSUME job[r].step = "count", j.step # "count"
      PROVE  /\ Cardinality(Counting) > 0
             /\ Cardinality(Counting') = Cardinality(Counting) - 1
  <2>1. r \in Counting /\ Counting' = Counting \ {r}
    BY <1>4 DEF Counting
  <2>2. Cardinality(Counting) # 0
    BY <1>1, <2>1, FS_EmptySet
  <2> QED
    BY <1>1, <2>1, <2>2, FS_RemoveElement
<1> QED
  BY <1>1, <1>2, <1>3, <1>4

-----------------------------------------------------------------------------
(* Channel polls                                                            *)

Poll == [is : {"none", "here", "gone"}, status : ChannelPoll!Statuses, totalVotes : Nat]

\* What the requests are about to do is consistent.
JobFits(j) ==
    /\ j \in ChannelPoll!Job
    /\ j.step \in {"check", "commit", "count"} => j.ballot \in ChannelPoll!Ballots
    /\ j.step = "sync" /\ j.status = "active" => j.at = ChannelPoll!Open

\* Everything but the request is typed as before.
LEMMA ChannelPollGoes ==
  ASSUME ChannelPollInv, NEW r \in Requests, NEW j, JobFits(j), job' = [job EXCEPT ![r] = j],
         poll' \in Poll, poll'.is = "none" => poll'.status = "draft",
         now' \in ChannelPoll!Early..ChannelPoll!Over,
         rows' \in [ChannelPoll!Ballots -> Nat], spent' \in [Users -> 0..VoteCredits],
         edits' \in 0..MaxEdits, failures' \in 0..MaxFailures
  PROVE  /\ ChannelPollInv'
         /\ \A q \in Requests : job'[q] = IF q = r THEN j ELSE job[q]
<1>1. job \in [Requests -> ChannelPoll!Job] /\ j \in ChannelPoll!Job
  BY DEF ChannelPollInv, ChannelPoll!TypeOK, JobFits
<1>2. /\ job' \in [Requests -> ChannelPoll!Job]
      /\ \A q \in Requests : job'[q] = IF q = r THEN j ELSE job[q]
  BY <1>1, OneGoes
<1>3. ChannelPoll!TypeOK'
  BY <1>2 DEF ChannelPoll!TypeOK, Poll
<1> QED
  BY <1>2, <1>3 DEF ChannelPollInv, JobFits

\* A step of a request that neither stores nor counts a vote.
LEMMA ChannelPollQuiet ==
  ASSUME ChannelPollInv, NEW r \in Requests, NEW j, JobFits(j), job' = [job EXCEPT ![r] = j],
         job[r].step # "count", j.step # "count",
         poll' \in Poll, poll'.is = "none" => poll'.status = "draft",
         poll'.totalVotes = poll.totalVotes,
         UNCHANGED <<now, rows, spent, edits>>, failures' \in 0..MaxFailures
  PROVE  ChannelPollInv' /\ UNCHANGED ChannelPoll!AsBallot!vars
<1>1. /\ ChannelPollInv'
      /\ \A q \in Requests : job'[q] = IF q = r THEN j ELSE job[q]
  BY ChannelPollGoes DEF ChannelPollInv, ChannelPoll!TypeOK
<1>2. Counting' = Counting
  BY <1>1, CountingStep
<1> QED
  BY <1>1, <1>2 DEF ChannelPoll!AsBallot!vars, ChannelPoll!Counting, Counting

\* What a poll and a request are.
LEMMA ChannelPollTypes ==
  ASSUME ChannelPollInv
  PROVE  /\ poll \in Poll /\ (poll.is = "none" => poll.status = "draft")
         /\ now \in ChannelPoll!Early..ChannelPoll!Over /\ edits \in 0..MaxEdits
         /\ rows \in [ChannelPoll!Ballots -> Nat] /\ spent \in [Users -> 0..VoteCredits]
         /\ failures \in 0..MaxFailures
         /\ \A r \in Requests : JobFits(job[r])
BY DEF ChannelPollInv, ChannelPoll!TypeOK, Poll, JobFits

\* A request that does nothing is about to do nothing wrong.
LEMMA IdleFits == JobFits(ChannelPoll!Idle) /\ ChannelPoll!Idle.step = "idle"
BY DEF JobFits, ChannelPoll!Idle, ChannelPoll!Job, ChannelPoll!Statuses, ChannelPoll!Early,
       ChannelPoll!Over

\* What every step of a channel poll does: it keeps the invariant, is a step of a Ballot or
\* none, and opens a completed poll again only for a late reader.
ChannelPollKeeps ==
    /\ ChannelPollInv'
    /\ [ChannelPoll!AsBallot!Next]_(ChannelPoll!AsBallot!vars)
    /\ ChannelPoll!LateReaderIfReopened

\* The document and the clock: no request is involved, and no vote.
LEMMA ChannelPollDocument ==
  ASSUME ChannelPollInv, ChannelPoll!CreatePoll \/ ChannelPoll!Tick \/ ChannelPoll!UpdatePoll
  PROVE  ChannelPollKeeps
<1>1. /\ poll \in Poll /\ (poll.is = "none" => poll.status = "draft")
      /\ now \in ChannelPoll!Early..ChannelPoll!Over /\ edits \in 0..MaxEdits
  BY ChannelPollTypes
<1>2. /\ poll' \in Poll /\ (poll'.is = "none" => poll'.status = "draft")
      /\ poll'.totalVotes = poll.totalVotes
  <2>1. CASE ChannelPoll!CreatePoll
    <3>1. PICK status \in {ChannelPoll!ResolvedStatus, "draft"} :
             poll' = [poll EXCEPT !.is = "here", !.status = status]
      BY <2>1 DEF ChannelPoll!CreatePoll
    <3>2. status \in ChannelPoll!Statuses
      BY <1>1 DEF ChannelPoll!ResolvedStatus, ChannelPoll!Statuses, ChannelPoll!Early,
                  ChannelPoll!Open, ChannelPoll!End, ChannelPoll!Over
    <3> QED
      BY <1>1, <3>1, <3>2 DEF Poll
  <2>2. CASE ChannelPoll!Tick
    BY <1>1, <2>2 DEF ChannelPoll!Tick
  <2>3. CASE ChannelPoll!UpdatePoll
    BY <1>1, <2>3 DEF ChannelPoll!UpdatePoll, ChannelPoll!Here, Poll
  <2> QED
    BY <2>1, <2>2, <2>3
<1>3. now' \in ChannelPoll!Early..ChannelPoll!Over /\ edits' \in 0..MaxEdits
  BY <1>1, Constants DEF ChannelPoll!CreatePoll, ChannelPoll!Tick, ChannelPoll!UpdatePoll,
     ChannelPoll!Early, ChannelPoll!Over
<1>4. UNCHANGED <<rows, spent, job, failures>>
  BY DEF ChannelPoll!CreatePoll, ChannelPoll!Tick, ChannelPoll!UpdatePoll
<1>5. ChannelPollInv'
  BY <1>2, <1>3, <1>4 DEF ChannelPollInv, ChannelPoll!TypeOK, Poll
<1>6. UNCHANGED ChannelPoll!AsBallot!vars
  BY <1>2, <1>4 DEF ChannelPoll!AsBallot!vars, ChannelPoll!Counting
<1>7. ChannelPoll!LateReaderIfReopened
  BY <1>1 DEF ChannelPoll!CreatePoll, ChannelPoll!Tick, ChannelPoll!UpdatePoll,
     ChannelPoll!LateReaderIfReopened
<1> QED
  BY <1>5, <1>6, <1>7 DEF ChannelPollKeeps

\* The document is deleted.
LEMMA ChannelPollDelete ==
  ASSUME ChannelPollInv, NEW r \in Requests, ChannelPoll!DeletePoll(r)
  PROVE  ChannelPollKeeps
<1> DEFINE j == [ChannelPoll!Idle EXCEPT !.step = "votes"]
<1>1. JobFits(j) /\ j.step = "votes"
  BY DEF JobFits, ChannelPoll!Idle, ChannelPoll!Job, ChannelPoll!Statuses, ChannelPoll!Early,
     ChannelPoll!Over
<1>2. /\ job' = [job EXCEPT ![r] = j] /\ job[r].step = "idle"
      /\ poll' = [poll EXCEPT !.is = "gone"]
      /\ UNCHANGED <<now, rows, spent, edits, failures>>
  BY DEF ChannelPoll!DeletePoll, ChannelPoll!Goes
<1>3. poll' \in Poll /\ poll'.is # "none" /\ poll'.totalVotes = poll.totalVotes
      /\ poll'.status = poll.status
  BY <1>2, ChannelPollTypes DEF Poll
<1> HIDE DEF j
<1>4. ChannelPollInv' /\ UNCHANGED ChannelPoll!AsBallot!vars
  BY <1>1, <1>2, <1>3, ChannelPollTypes, ChannelPollQuiet
<1>5. ChannelPoll!LateReaderIfReopened
  BY <1>3 DEF ChannelPoll!LateReaderIfReopened
<1> QED
  BY <1>4, <1>5 DEF ChannelPollKeeps

\* A step of a request that leaves the document alone, and stores and counts nothing.
LEMMA ChannelPollIdles ==
  ASSUME ChannelPollInv, NEW r \in Requests, NEW j, JobFits(j), job' = [job EXCEPT ![r] = j],
         job[r].step # "count", j.step # "count",
         UNCHANGED <<poll, now, rows, spent, edits>>, failures' \in 0..MaxFailures
  PROVE  ChannelPollKeeps
<1>1. ChannelPollInv' /\ UNCHANGED ChannelPoll!AsBallot!vars
  BY ChannelPollTypes, ChannelPollQuiet
<1>2. ChannelPoll!LateReaderIfReopened
  BY DEF ChannelPoll!LateReaderIfReopened
<1> QED
  BY <1>1, <1>2 DEF ChannelPollKeeps

\* Whoever compares the poll with the clock is about to open it only if the clock says so.
LEMMA CompareFits ==
  ASSUME ChannelPollInv, NEW at \in ChannelPoll!Early..ChannelPoll!Over,
         NEW status, status = ChannelPoll!StatusByDates(poll.status, at), status # poll.status
  PROVE  JobFits([ChannelPoll!Idle EXCEPT !.step = "sync", !.status = status, !.at = at])
<1>1. poll.status \in ChannelPoll!Statuses
  BY DEF ChannelPollInv, ChannelPoll!TypeOK
<1>2. status \in ChannelPoll!Statuses
  BY <1>1 DEF ChannelPoll!StatusByDates, ChannelPoll!Statuses
<1>3. status = "active" => at = ChannelPoll!Open
  BY DEF ChannelPoll!StatusByDates
<1> QED
  BY <1>2, <1>3 DEF JobFits, ChannelPoll!Idle, ChannelPoll!Job

\* Readers, the scheduler, and voters until they store their vote.
LEMMA ChannelPollReads ==
  ASSUME ChannelPollInv, NEW r \in Requests,
         \/ ChannelPoll!ReadPoll(r) \/ ChannelPoll!StartScan(r) \/ ChannelPoll!ScanPolls(r)
         \/ ChannelPoll!StartVote(r) \/ ChannelPoll!VoteTooLate(r) \/ ChannelPoll!CheckVote(r)
         \/ ChannelPoll!RefuseVote(r)
  PROVE  ChannelPollKeeps
<1>1. /\ UNCHANGED <<poll, now, rows, spent, edits, failures>>
      /\ now \in ChannelPoll!Early..ChannelPoll!Over /\ failures \in 0..MaxFailures
      /\ JobFits(job[r]) /\ JobFits(ChannelPoll!Idle) /\ ChannelPoll!Idle.step = "idle"
  BY ChannelPollTypes, IdleFits
     DEF ChannelPoll!ReadPoll, ChannelPoll!StartScan, ChannelPoll!ScanPolls,
         ChannelPoll!StartVote, ChannelPoll!VoteTooLate, ChannelPoll!CheckVote,
         ChannelPoll!RefuseVote
<1>2. ASSUME NEW at \in ChannelPoll!Early..ChannelPoll!Over, ChannelPoll!Compare(r, at)
      PROVE  \E j : JobFits(j) /\ j.step # "count" /\ job' = [job EXCEPT ![r] = j]
  <2> DEFINE status == ChannelPoll!StatusByDates(poll.status, at)
             sync == [ChannelPoll!Idle EXCEPT !.step = "sync", !.status = status, !.at = at]
  <2>1. status # poll.status => JobFits(sync)
    <3> HIDE DEF status
    <3>1. \A new : new = ChannelPoll!StatusByDates(poll.status, at) /\ new # poll.status =>
             JobFits([ChannelPoll!Idle EXCEPT !.step = "sync", !.status = new, !.at = at])
      BY CompareFits
    <3> QED
      BY <3>1 DEF status
  <2>2. sync.step = "sync"
    BY DEF ChannelPoll!Idle
  <2>3. \/ status # poll.status /\ job' = [job EXCEPT ![r] = sync]
        \/ job' = [job EXCEPT ![r] = ChannelPoll!Idle]
    BY <1>2 DEF ChannelPoll!Compare, ChannelPoll!Goes
  <2> HIDE DEF sync, status
  <2> QED
    BY <1>1, <2>1, <2>2, <2>3
<1>3. /\ job[r].step # "count"
      /\ \E j : JobFits(j) /\ j.step # "count" /\ job' = [job EXCEPT ![r] = j]
  <2>1. CASE ChannelPoll!ReadPoll(r)
    BY <1>1, <1>2, <2>1 DEF ChannelPoll!ReadPoll
  <2>2. CASE ChannelPoll!StartScan(r)
    <3> DEFINE j == [ChannelPoll!Idle EXCEPT !.step = "scan", !.at = now]
    <3>1. JobFits(j) /\ j.step = "scan"
      BY <1>1 DEF JobFits, ChannelPoll!Idle, ChannelPoll!Job, ChannelPoll!Statuses
    <3>2. job[r].step = "idle" /\ job' = [job EXCEPT ![r] = j]
      BY <2>2 DEF ChannelPoll!StartScan, ChannelPoll!Goes
    <3> HIDE DEF j
    <3> QED
      BY <3>1, <3>2
  <2>3. CASE ChannelPoll!ScanPolls(r)
    <3>1. job[r].at \in ChannelPoll!Early..ChannelPoll!Over
      BY <1>1 DEF JobFits, ChannelPoll!Job
    <3> QED
      BY <1>2, <2>3, <3>1 DEF ChannelPoll!ScanPolls
  <2>4. CASE ChannelPoll!StartVote(r)
    <3>1. PICK b \in ChannelPoll!Ballots :
             job' = [job EXCEPT ![r] =
                       [ChannelPoll!Idle EXCEPT !.step = "check", !.ballot = b, !.at = now]]
      BY <2>4 DEF ChannelPoll!StartVote, ChannelPoll!Goes
    <3> DEFINE j == [ChannelPoll!Idle EXCEPT !.step = "check", !.ballot = b, !.at = now]
    <3>2. JobFits(j) /\ j.step = "check"
      BY <1>1 DEF JobFits, ChannelPoll!Idle, ChannelPoll!Job, ChannelPoll!Statuses
    <3>3. job[r].step = "idle" /\ job' = [job EXCEPT ![r] = j]
      BY <2>4, <3>1 DEF ChannelPoll!StartVote
    <3> HIDE DEF j
    <3> QED
      BY <3>2, <3>3
  <2>5. CASE ChannelPoll!VoteTooLate(r)
    <3> DEFINE j == [ChannelPoll!Idle EXCEPT !.step = "sync", !.status = "completed", !.at = now]
    <3>1. JobFits(j) /\ j.step = "sync"
      BY <1>1 DEF JobFits, ChannelPoll!Idle, ChannelPoll!Job, ChannelPoll!Statuses
    <3>2. job[r].step = "idle" /\ job' = [job EXCEPT ![r] = j]
      BY <2>5 DEF ChannelPoll!VoteTooLate, ChannelPoll!Goes
    <3> HIDE DEF j
    <3> QED
      BY <3>1, <3>2
  <2>6. CASE ChannelPoll!CheckVote(r)
    <3> DEFINE j == [job[r] EXCEPT !.step = "commit"]
    <3>1. job[r].step = "check"
      BY <2>6 DEF ChannelPoll!CheckVote
    <3>2. JobFits(j) /\ j.step = "commit"
      BY <1>1, <3>1 DEF JobFits, ChannelPoll!Job
    <3>3. \/ job' = [job EXCEPT ![r] = j]
          \/ job' = [job EXCEPT ![r] = ChannelPoll!Idle]
      BY <2>6 DEF ChannelPoll!CheckVote, ChannelPoll!Goes
    <3> HIDE DEF j
    <3> QED
      BY <1>1, <3>1, <3>2, <3>3
  <2>7. CASE ChannelPoll!RefuseVote(r)
    BY <1>1, <2>7 DEF ChannelPoll!RefuseVote, ChannelPoll!Goes
  <2> QED
    BY <2>1, <2>2, <2>3, <2>4, <2>5, <2>6, <2>7
<1> QED
  BY <1>1, <1>3, ChannelPollIdles

\* The status is written that was right when the writer looked at the clock.
LEMMA ChannelPollWriteStatus ==
  ASSUME ChannelPollInv, NEW r \in Requests, ChannelPoll!WriteStatus(r)
  PROVE  ChannelPollKeeps
<1>1. /\ poll \in Poll /\ (poll.is = "none" => poll.status = "draft")
      /\ JobFits(job[r]) /\ failures \in 0..MaxFailures
      /\ JobFits(ChannelPoll!Idle) /\ ChannelPoll!Idle.step = "idle"
  BY ChannelPollTypes, IdleFits
<1>2. /\ job[r].step = "sync" /\ job' = [job EXCEPT ![r] = ChannelPoll!Idle]
      /\ poll' = IF ChannelPoll!Here THEN [poll EXCEPT !.status = job[r].status] ELSE poll
      /\ UNCHANGED <<now, rows, spent, edits, failures>>
  BY DEF ChannelPoll!WriteStatus, ChannelPoll!Goes
<1>3. /\ job[r].status \in ChannelPoll!Statuses
      /\ job[r].status = "active" => job[r].at = ChannelPoll!Open
  BY <1>1, <1>2 DEF JobFits, ChannelPoll!Job
<1>4. /\ poll' \in Poll /\ poll'.is = poll.is /\ poll'.totalVotes = poll.totalVotes
      /\ poll'.status \in {poll.status, job[r].status}
      /\ poll.is # "here" => poll' = poll
  BY <1>1, <1>2, <1>3 DEF ChannelPoll!Here, Poll
<1>5. ChannelPollInv' /\ UNCHANGED ChannelPoll!AsBallot!vars
  BY <1>1, <1>2, <1>4, ChannelPollQuiet
<1>6. job'[r].step = "idle"
  BY <1>1, <1>2 DEF ChannelPollInv, ChannelPoll!TypeOK
<1>7. ChannelPoll!LateReaderIfReopened
  BY <1>2, <1>3, <1>4, <1>6 DEF ChannelPoll!LateReaderIfReopened
<1> QED
  BY <1>5, <1>7 DEF ChannelPollKeeps

\* The votes of a deleted poll are discarded, at once and without a word to who cast them.
LEMMA ChannelPollDeleteVotes ==
  ASSUME ChannelPollInv, NEW r \in Requests, ChannelPoll!DeleteVotesByPoll(r)
  PROVE  ChannelPollKeeps
<1>1. /\ job[r].step = "votes" /\ job' = [job EXCEPT ![r] = ChannelPoll!Idle]
      /\ rows' = [b \in ChannelPoll!Ballots |-> 0]
      /\ UNCHANGED <<poll, now, spent, edits, failures>>
  BY DEF ChannelPoll!DeleteVotesByPoll, ChannelPoll!Goes
<1>2. /\ ChannelPollInv'
      /\ \A q \in Requests : job'[q] = IF q = r THEN ChannelPoll!Idle ELSE job[q]
  BY <1>1, ChannelPollTypes, IdleFits, ChannelPollGoes
<1>3. Counting' = Counting
  BY <1>1, <1>2, IdleFits, CountingStep
<1>4. ChannelPoll!AsBallot!Discard
  BY <1>1, <1>3 DEF ChannelPoll!AsBallot!Discard, ChannelPoll!Counting, Counting
<1>5. ChannelPoll!LateReaderIfReopened
  BY <1>1 DEF ChannelPoll!LateReaderIfReopened
<1> QED
  BY <1>2, <1>4, <1>5 DEF ChannelPollKeeps, ChannelPoll!AsBallot!Next

\* The row and the charge commit together: a Vote, at the poll's price.
LEMMA ChannelPollCommitVote ==
  ASSUME ChannelPollInv, NEW r \in Requests, ChannelPoll!CommitVote(r)
  PROVE  ChannelPollKeeps
<1> DEFINE b == job[r].ballot
           j == [job[r] EXCEPT !.step = "count"]
<1>1. /\ rows \in [ChannelPoll!Ballots -> Nat] /\ spent \in [Users -> 0..VoteCredits]
      /\ Cost \in Nat /\ VoteCredits \in Nat /\ IsFiniteSet(Users)
      /\ JobFits(job[r])
  BY ChannelPollTypes, Constants
<1>2. /\ job[r].step = "commit" /\ job' = [job EXCEPT ![r] = j]
      /\ spent[b[1]] + Cost <= VoteCredits /\ ~ (rows[b] > 0)
      /\ spent' = [spent EXCEPT ![b[1]] = @ + Cost]
      /\ rows' = [rows EXCEPT ![b] = @ + 1]
      /\ UNCHANGED <<poll, now, edits, failures>>
  BY DEF ChannelPoll!CommitVote, ChannelPoll!Goes, ChannelPoll!AddVote, ChannelPoll!Duplicate,
         ChannelPoll!Affordable
<1>3. b \in ChannelPoll!Ballots /\ b[1] \in Users /\ JobFits(j) /\ j.step = "count"
  <2>1. b \in ChannelPoll!Ballots
    BY <1>1, <1>2 DEF JobFits
  <2>2. b[1] \in Users
    BY <2>1 DEF ChannelPoll!Ballots
  <2>3. JobFits(j) /\ j.step = "count"
    BY <1>1, <1>2 DEF JobFits, ChannelPoll!Job
  <2> QED
    BY <2>1, <2>2, <2>3
<1> HIDE DEF b, j
<1>4. rows[b] = 0 /\ rows' = [rows EXCEPT ![b] = 1] /\ rows' \in [ChannelPoll!Ballots -> Nat]
  <2>1. rows[b] \in Nat
    BY <1>1, <1>3
  <2>2. rows[b] = 0
    BY <1>2, <2>1
  <2>3. rows' = [rows EXCEPT ![b] = 1]
    BY <1>2, <2>2
  <2> QED
    BY <1>1, <2>2, <2>3
<1>5. /\ spent' \in [Users -> 0..VoteCredits]
      /\ spent'[b[1]] = spent[b[1]] + Cost
      /\ \A u \in Users \ {b[1]} : spent'[u] = spent[u]
  BY <1>1, <1>2, <1>3
<1>6. Total(spent', Users) = Total(spent, Users) + Cost
  <2>1. \A u \in Users : spent[u] \in Int /\ spent'[u] \in Int
    BY <1>1, <1>5
  <2>2. Total(spent', Users) = Total(spent, Users) - spent[b[1]] + spent'[b[1]]
    BY <1>1, <1>3, <1>5, <2>1, TotalChange
  <2>3. Total(spent, Users) \in Int /\ spent[b[1]] \in Int
    BY <1>1, <1>3, <2>1, TotalType
  <2> QED
    BY <1>1, <1>5, <2>2, <2>3
<1>7. /\ ChannelPollInv'
      /\ \A q \in Requests : job'[q] = IF q = r THEN j ELSE job[q]
  <2>1. /\ poll' \in Poll /\ (poll'.is = "none" => poll'.status = "draft")
        /\ now' \in ChannelPoll!Early..ChannelPoll!Over
        /\ edits' \in 0..MaxEdits /\ failures' \in 0..MaxFailures
    BY <1>2, ChannelPollTypes
  <2>2. job' = [job EXCEPT ![r] = j] /\ JobFits(j)
    BY <1>2, <1>3
  <2>3. rows' \in [ChannelPoll!Ballots -> Nat] /\ spent' \in [Users -> 0..VoteCredits]
    BY <1>4, <1>5
  <2> QED
    BY <2>1, <2>2, <2>3, ChannelPollGoes
<1>8. Cardinality(Counting') = Cardinality(Counting) + 1
  BY <1>2, <1>3, <1>7, CountingStep
<1>9. ChannelPoll!AsBallot!Vote(b)
  <2>1. ChannelPoll!Cardinality(ChannelPoll!Counting)' = ChannelPoll!Cardinality(ChannelPoll!Counting) + 1
    BY <1>8, SameOperators DEF ChannelPoll!Counting, Counting
  <2>2. ChannelPoll!Total(spent, Users)' = ChannelPoll!Total(spent, Users) + Cost
    BY <1>6, SameOperators
  <2> QED
    BY <1>2, <1>4, <2>1, <2>2 DEF ChannelPoll!AsBallot!Vote
<1>10. ChannelPoll!LateReaderIfReopened
  BY <1>2 DEF ChannelPoll!LateReaderIfReopened
<1> QED
  BY <1>3, <1>7, <1>9, <1>10 DEF ChannelPollKeeps, ChannelPoll!AsBallot!Next

\* The count of a stored vote ends: Count, or LoseCount when the poll is gone or the request
\* fails.
LEMMA ChannelPollCountEnds ==
  ASSUME ChannelPollInv, NEW r \in Requests, job[r].step = "count",
         ChannelPoll!IncrementTotalVotes(r) \/ ChannelPoll!Fail(r)
  PROVE  ChannelPollKeeps
<1>1. /\ job' = [job EXCEPT ![r] = ChannelPoll!Idle]
      /\ \/ poll' = poll
         \/ poll' = [poll EXCEPT !.totalVotes = @ + 1]
      /\ failures' \in 0..MaxFailures
      /\ UNCHANGED <<now, rows, spent, edits>>
  BY ChannelPollTypes, Constants
     DEF ChannelPoll!IncrementTotalVotes, ChannelPoll!Fail, ChannelPoll!Goes
<1>2. poll' \in Poll /\ poll'.is = poll.is /\ poll'.status = poll.status
  BY <1>1, ChannelPollTypes DEF Poll
<1>3. /\ ChannelPollInv'
      /\ \A q \in Requests : job'[q] = IF q = r THEN ChannelPoll!Idle ELSE job[q]
  BY <1>1, <1>2, ChannelPollTypes, IdleFits, ChannelPollGoes
<1>4. Cardinality(Counting) > 0 /\ Cardinality(Counting') = Cardinality(Counting) - 1
  BY <1>3, IdleFits, CountingStep
<1>5. /\ ChannelPoll!Cardinality(ChannelPoll!Counting) > 0
      /\ ChannelPoll!Cardinality(ChannelPoll!Counting)'
            = ChannelPoll!Cardinality(ChannelPoll!Counting) - 1
  BY <1>4, SameOperators DEF ChannelPoll!Counting, Counting
<1>6. ChannelPoll!AsBallot!Count \/ ChannelPoll!AsBallot!LoseCount
  <2>1. CASE poll' = poll
    BY <1>1, <1>5, <2>1 DEF ChannelPoll!AsBallot!LoseCount
  <2>2. CASE poll' = [poll EXCEPT !.totalVotes = @ + 1]
    <3>1. poll'.totalVotes = poll.totalVotes + 1
      BY <2>2, ChannelPollTypes DEF Poll
    <3> QED
      BY <1>1, <1>5, <3>1 DEF ChannelPoll!AsBallot!Count
  <2> QED
    BY <1>1, <2>1, <2>2
<1>7. ChannelPoll!LateReaderIfReopened
  BY <1>2 DEF ChannelPoll!LateReaderIfReopened
<1> QED
  BY <1>3, <1>6, <1>7 DEF ChannelPollKeeps, ChannelPoll!AsBallot!Next

\* Every step of a channel poll.
LEMMA ChannelPollStays ==
  ASSUME ChannelPollInv, ChannelPoll!Next
  PROVE  ChannelPollKeeps
<1>1. CASE ChannelPoll!CreatePoll \/ ChannelPoll!Tick \/ ChannelPoll!UpdatePoll
  BY <1>1, ChannelPollDocument
<1>2. ASSUME NEW r \in Requests,
             ChannelPoll!IncrementTotalVotes(r) \/ ChannelPoll!Fail(r)
      PROVE  ChannelPollKeeps
  <2>1. CASE job[r].step = "count"
    BY <1>2, <2>1, ChannelPollCountEnds
  <2>2. CASE job[r].step # "count"
    <3>1. /\ job' = [job EXCEPT ![r] = ChannelPoll!Idle] /\ failures' \in 0..MaxFailures
          /\ UNCHANGED <<poll, now, rows, spent, edits>>
      BY <1>2, <2>2, ChannelPollTypes, Constants
         DEF ChannelPoll!IncrementTotalVotes, ChannelPoll!Fail, ChannelPoll!Goes
    <3> QED
      BY <2>2, <3>1, IdleFits, ChannelPollIdles
  <2> QED
    BY <2>1, <2>2
<1>3. \A r \in Requests : ChannelPoll!IncrementTotalVotes(r) \/ ChannelPoll!Fail(r) => ChannelPollKeeps
  BY <1>2
<1> QED
  BY <1>1, <1>3, ChannelPollDelete, ChannelPollDeleteVotes, ChannelPollReads,
     ChannelPollWriteStatus, ChannelPollCommitVote DEF ChannelPoll!Next

\* A poll starts as a Ballot does.
LEMMA ChannelPollStarts ==
  ASSUME ChannelPoll!Init
  PROVE  ChannelPollInv /\ ChannelPoll!AsBallot!Init
<1>1. \A r \in Requests : job[r] = ChannelPoll!Idle
  BY DEF ChannelPoll!Init
<1>2. poll \in Poll /\ poll.status = "draft" /\ poll.totalVotes = 0
  BY DEF ChannelPoll!Init, Poll, ChannelPoll!Statuses
<1>3. /\ rows \in [ChannelPoll!Ballots -> Nat] /\ spent \in [Users -> 0..VoteCredits]
      /\ now \in ChannelPoll!Early..ChannelPoll!Over /\ edits \in 0..MaxEdits
      /\ failures \in 0..MaxFailures
  BY Constants DEF ChannelPoll!Init, ChannelPoll!Early, ChannelPoll!Over
<1>4. job \in [Requests -> ChannelPoll!Job]
  BY IdleFits DEF ChannelPoll!Init, JobFits
<1>5. ChannelPollInv
  BY <1>1, <1>2, <1>3, <1>4, IdleFits DEF ChannelPollInv, ChannelPoll!TypeOK, Poll
<1>6. ChannelPoll!Cardinality(ChannelPoll!Counting) = 0
  <2>1. Counting = {}
    BY <1>1, IdleFits DEF Counting
  <2> QED
    BY <2>1, SameOperators, FS_EmptySet DEF ChannelPoll!Counting, Counting
<1>7. ChannelPoll!Total(spent, Users) = 0
  <2>1. \A u \in Users : spent[u] = 0
    BY DEF ChannelPoll!Init
  <2> QED
    BY <2>1, Constants, SameOperators, TotalZero
<1>8. rows = [b \in ChannelPoll!Ballots |-> 0]
  BY DEF ChannelPoll!Init
<1> QED
  BY <1>2, <1>5, <1>6, <1>7, <1>8 DEF ChannelPoll!AsBallot!Init

-----------------------------------------------------------------------------
(* Show polls                                                               *)

ShowPollDocument ==
    [is : {"none", "here", "gone"}, status : ShowPoll!Statuses, votes : [Options -> Nat]]

\* What the requests are about to do is consistent.
ShowJobFits(j) ==
    /\ j \in ShowPoll!Job
    /\ j.step \in {"check", "insert", "count"} => j.user \in Users /\ j.option \in Options

\* Every step keeps the invariant and is a step of a Ballot or none.
ShowPollKeeps == ShowPollInv' /\ [ShowPoll!AsBallot!Next]_(ShowPoll!AsBallot!vars)

\* The votes of a voter, or of a poll, are a sum over the options.
LEMMA SumOverOptions ==
  ASSUME NEW f \in [Options -> Nat]
  PROVE  ShowPoll!SumOver(f) = Total(f, Options) /\ Total(f, Options) \in Nat
<1>1. ShowPoll!SumOver(f) = Total(f, Options)
  BY SameOperators DEF ShowPoll!SumOver
<1>2. \A o \in Options : f[o] \in Nat
  OBVIOUS
<1>3. Total(f, Options) \in Nat
  BY <1>2, Constants, TotalType
<1> QED
  BY <1>1, <1>3

\* One more vote for one option is one more vote.
LEMMA OneMoreVote ==
  ASSUME NEW f \in [Options -> Nat], NEW g \in [Options -> Nat], NEW o \in Options,
         \A p \in Options : g[p] = IF p = o THEN f[p] + 1 ELSE f[p]
  PROVE  ShowPoll!SumOver(g) = ShowPoll!SumOver(f) + 1
<1>1. /\ \A p \in Options : f[p] \in Int /\ g[p] \in Int
      /\ \A p \in Options \ {o} : g[p] = f[p]
      /\ g[o] = f[o] + 1
  OBVIOUS
<1>2. Total(g, Options) = Total(f, Options) - f[o] + g[o]
  <2>1. IsFiniteSet(Options)
    BY Constants
  <2> QED
    BY <1>1, <2>1, TotalChange
<1>3. Total(f, Options) \in Nat /\ f[o] \in Nat
  BY SumOverOptions
<1>4. Total(g, Options) = Total(f, Options) + 1
  BY <1>1, <1>2, <1>3
<1> QED
  BY <1>4, SumOverOptions

\* What a poll and a request are.
LEMMA ShowPollTypes ==
  ASSUME ShowPollInv
  PROVE  /\ poll \in ShowPollDocument /\ expired \in BOOLEAN
         /\ rows \in [Users -> [Options -> Nat]]
         /\ edits \in 0..MaxEdits /\ failures \in 0..MaxFailures
         /\ \A r \in Requests : ShowJobFits(job[r])
BY DEF ShowPollInv, ShowPoll!TypeOK, ShowPollDocument, ShowJobFits

\* A request that does nothing is about to do nothing wrong.
LEMMA ShowIdleFits == ShowJobFits(ShowPoll!Idle) /\ ShowPoll!Idle.step = "idle"
BY DEF ShowJobFits, ShowPoll!Idle, ShowPoll!Job, ShowPoll!None

\* One request goes on to j, everything else is typed as before.
LEMMA ShowPollGoes ==
  ASSUME ShowPollInv, NEW r \in Requests, NEW j, ShowJobFits(j), job' = [job EXCEPT ![r] = j],
         poll' \in ShowPollDocument, expired' \in BOOLEAN,
         rows' \in [Users -> [Options -> Nat]],
         edits' \in 0..MaxEdits, failures' \in 0..MaxFailures
  PROVE  /\ ShowPollInv'
         /\ \A q \in Requests : job'[q] = IF q = r THEN j ELSE job[q]
<1>1. job \in [Requests -> ShowPoll!Job] /\ j \in ShowPoll!Job
  BY DEF ShowPollInv, ShowPoll!TypeOK, ShowJobFits
<1>2. /\ job' \in [Requests -> ShowPoll!Job]
      /\ \A q \in Requests : job'[q] = IF q = r THEN j ELSE job[q]
  BY <1>1, OneGoes
<1>3. ShowPoll!TypeOK'
  BY <1>2 DEF ShowPoll!TypeOK, ShowPollDocument
<1> QED
  BY <1>2, <1>3 DEF ShowPollInv, ShowJobFits

\* A step of a request that neither stores nor counts a vote.
LEMMA ShowPollQuiet ==
  ASSUME ShowPollInv, NEW r \in Requests, NEW j, ShowJobFits(j), job' = [job EXCEPT ![r] = j],
         job[r].step # "count", j.step # "count",
         poll' \in ShowPollDocument, poll'.votes = poll.votes, UNCHANGED <<expired, rows, edits>>,
         failures' \in 0..MaxFailures
  PROVE  ShowPollKeeps
<1>1. /\ ShowPollInv'
      /\ \A q \in Requests : job'[q] = IF q = r THEN j ELSE job[q]
  BY ShowPollTypes, ShowPollGoes
<1>2. Counting' = Counting
  BY <1>1, CountingStep
<1>3. UNCHANGED ShowPoll!AsBallot!vars
  BY <1>2 DEF ShowPoll!AsBallot!vars, ShowPoll!Counting, Counting, ShowPoll!VotesOf
<1> QED
  BY <1>1, <1>3 DEF ShowPollKeeps

\* The document and its expiry: no request is involved, and no vote.
LEMMA ShowPollEdited ==
  ASSUME ShowPollInv, ShowPoll!CreatePoll \/ ShowPoll!Expire \/ ShowPoll!UpdatePoll
  PROVE  ShowPollKeeps
<1>1. /\ poll' \in ShowPollDocument /\ poll'.votes = poll.votes
      /\ expired' \in BOOLEAN /\ edits' \in 0..MaxEdits
      /\ UNCHANGED <<rows, job, failures>>
  <2>1. poll \in ShowPollDocument /\ expired \in BOOLEAN /\ edits \in 0..MaxEdits
    BY ShowPollTypes
  <2>2. CASE ShowPoll!CreatePoll
    BY <2>1, <2>2 DEF ShowPoll!CreatePoll, ShowPollDocument, ShowPoll!Statuses
  <2>3. CASE ShowPoll!Expire
    BY <2>1, <2>3 DEF ShowPoll!Expire
  <2>4. CASE ShowPoll!UpdatePoll
    <3>1. poll' \in ShowPollDocument /\ poll'.votes = poll.votes
      BY <2>1, <2>4 DEF ShowPoll!UpdatePoll, ShowPollDocument
    <3>2. edits' \in 0..MaxEdits
      BY <2>1, <2>4, Constants DEF ShowPoll!UpdatePoll
    <3> QED
      BY <2>1, <2>4, <3>1, <3>2 DEF ShowPoll!UpdatePoll
  <2> QED
    BY <2>2, <2>3, <2>4
<1>2. ShowPollInv'
  BY <1>1 DEF ShowPollInv, ShowPoll!TypeOK, ShowPollDocument
<1>3. UNCHANGED ShowPoll!AsBallot!vars
  BY <1>1 DEF ShowPoll!AsBallot!vars, ShowPoll!Counting, ShowPoll!VotesOf
<1> QED
  BY <1>2, <1>3 DEF ShowPollKeeps

\* Everything but storing, counting and discarding votes.
LEMMA ShowPollOther ==
  ASSUME ShowPollInv, NEW r \in Requests,
         \/ ShowPoll!DeletePoll(r) \/ ShowPoll!ListPolls(r) \/ ShowPoll!CompleteExpired(r)
         \/ ShowPoll!StartVote(r) \/ ShowPoll!CheckVote(r) \/ ShowPoll!AlreadyVoted(r)
  PROVE  ShowPollKeeps
<1>1. /\ poll' \in ShowPollDocument /\ poll'.votes = poll.votes
      /\ job[r].step # "count" /\ UNCHANGED <<expired, rows, edits, failures>>
      /\ failures \in 0..MaxFailures
  BY ShowPollTypes
     DEF ShowPoll!DeletePoll, ShowPoll!ListPolls, ShowPoll!CompleteExpired, ShowPoll!StartVote,
         ShowPoll!CheckVote, ShowPoll!AlreadyVoted, ShowPoll!Here, ShowPollDocument,
         ShowPoll!Statuses
<1>2. \E j : ShowJobFits(j) /\ j.step # "count" /\ job' = [job EXCEPT ![r] = j]
  <2>1. CASE ShowPoll!DeletePoll(r)
    <3> DEFINE j == [ShowPoll!Idle EXCEPT !.step = "votes"]
    <3>1. ShowJobFits(j) /\ j.step = "votes"
      BY DEF ShowJobFits, ShowPoll!Idle, ShowPoll!Job, ShowPoll!None
    <3>2. job' = [job EXCEPT ![r] = j]
      BY <2>1 DEF ShowPoll!DeletePoll, ShowPoll!Goes
    <3> HIDE DEF j
    <3> QED
      BY <3>1, <3>2
  <2>2. CASE ShowPoll!ListPolls(r)
    <3> DEFINE j == [ShowPoll!Idle EXCEPT !.step = "sync"]
    <3>1. ShowJobFits(j) /\ j.step = "sync"
      BY DEF ShowJobFits, ShowPoll!Idle, ShowPoll!Job, ShowPoll!None
    <3>2. job' = [job EXCEPT ![r] = j]
      BY <2>2 DEF ShowPoll!ListPolls, ShowPoll!Goes
    <3> HIDE DEF j
    <3> QED
      BY <3>1, <3>2
  <2>3. CASE ShowPoll!CompleteExpired(r) \/ ShowPoll!AlreadyVoted(r)
    <3>1. job' = [job EXCEPT ![r] = ShowPoll!Idle]
      BY <2>3 DEF ShowPoll!CompleteExpired, ShowPoll!AlreadyVoted, ShowPoll!Goes
    <3> QED
      BY <3>1, ShowIdleFits
  <2>4. CASE ShowPoll!StartVote(r)
    <3>1. PICK u \in Users, o \in Options :
             job' = [job EXCEPT ![r] = [step |-> "check", user |-> u, option |-> o]]
      BY <2>4 DEF ShowPoll!StartVote, ShowPoll!Goes
    <3> DEFINE j == [step |-> "check", user |-> u, option |-> o]
    <3>2. ShowJobFits(j) /\ j.step = "check"
      BY DEF ShowJobFits, ShowPoll!Job
    <3>3. job' = [job EXCEPT ![r] = j]
      BY <3>1
    <3> HIDE DEF j
    <3> QED
      BY <3>2, <3>3
  <2>5. CASE ShowPoll!CheckVote(r)
    <3> DEFINE j == [job[r] EXCEPT !.step = "insert"]
    <3>1. ShowJobFits(job[r]) /\ job[r].step = "check"
      BY <2>5, ShowPollTypes DEF ShowPoll!CheckVote
    <3>2. ShowJobFits(j) /\ j.step = "insert"
      BY <3>1 DEF ShowJobFits, ShowPoll!Job
    <3>3. \/ job' = [job EXCEPT ![r] = j]
          \/ job' = [job EXCEPT ![r] = ShowPoll!Idle]
      BY <2>5 DEF ShowPoll!CheckVote, ShowPoll!Goes
    <3> HIDE DEF j
    <3> QED
      BY <3>2, <3>3, ShowIdleFits
  <2> QED
    BY <2>1, <2>2, <2>3, <2>4, <2>5
<1> QED
  BY <1>1, <1>2, ShowPollQuiet

\* The row of a vote is inserted, and the unique index lets one in.
LEMMA ShowPollInsertVote ==
  ASSUME ShowPollInv, NEW r \in Requests, ShowPoll!InsertVote(r)
  PROVE  ShowPollKeeps
<1> DEFINE j == [job[r] EXCEPT !.step = "count"]
           u == job[r].user
           o == job[r].option
           VotesNow == [v \in Users |-> ShowPoll!SumOver(rows[v])]
<1>1. /\ job[r].step = "insert" /\ job' = [job EXCEPT ![r] = j]
      /\ ~ (ShowPoll!SumOver(rows[u]) > 0)
      /\ rows' = [rows EXCEPT ![u][o] = @ + 1]
      /\ UNCHANGED <<poll, expired, edits, failures>>
  BY DEF ShowPoll!InsertVote, ShowPoll!Goes, ShowPoll!Duplicate, ShowPoll!VotesOf
<1>2. rows \in [Users -> [Options -> Nat]] /\ ShowJobFits(job[r])
  BY ShowPollTypes
<1>3. u \in Users /\ o \in Options /\ ShowJobFits(j) /\ j.step = "count"
  BY <1>1, <1>2 DEF ShowJobFits, ShowPoll!Job
<1> HIDE DEF j, u, o
<1>4. /\ rows' \in [Users -> [Options -> Nat]]
      /\ \A v \in Users \ {u} : rows'[v] = rows[v]
      /\ \A p \in Options : rows'[u][p] = IF p = o THEN rows[u][p] + 1 ELSE rows[u][p]
  BY <1>1, <1>2, <1>3
<1>5. rows[u] \in [Options -> Nat] /\ rows'[u] \in [Options -> Nat]
  BY <1>2, <1>3, <1>4
<1>6. ShowPoll!SumOver(rows[u]) = 0 /\ ShowPoll!SumOver(rows'[u]) = 1
  <2>1. ShowPoll!SumOver(rows[u]) = 0
    BY <1>1, <1>5, SumOverOptions
  <2>2. ShowPoll!SumOver(rows'[u]) = ShowPoll!SumOver(rows[u]) + 1
    BY <1>3, <1>4, <1>5, OneMoreVote
  <2> QED
    BY <2>1, <2>2
<1>7. VotesNow[u] = 0 /\ VotesNow' = [VotesNow EXCEPT ![u] = 1]
  BY <1>3, <1>4, <1>6
<1>8. /\ ShowPollInv'
      /\ \A q \in Requests : job'[q] = IF q = r THEN j ELSE job[q]
  <2>1. /\ poll' \in ShowPollDocument /\ expired' \in BOOLEAN
        /\ edits' \in 0..MaxEdits /\ failures' \in 0..MaxFailures
    BY <1>1, ShowPollTypes
  <2>2. job' = [job EXCEPT ![r] = j] /\ ShowJobFits(j)
    BY <1>1, <1>3
  <2>3. rows' \in [Users -> [Options -> Nat]]
    BY <1>4
  <2> QED
    BY <2>1, <2>2, <2>3, ShowPollGoes
<1>9. ShowPoll!Cardinality(ShowPoll!Counting)' = ShowPoll!Cardinality(ShowPoll!Counting) + 1
  <2>1. Cardinality(Counting') = Cardinality(Counting) + 1
    BY <1>1, <1>3, <1>8, CountingStep
  <2> QED
    BY <2>1, SameOperators DEF ShowPoll!Counting, Counting
<1>10. ShowPoll!SumOver(poll.votes)' = ShowPoll!SumOver(poll.votes)
  BY <1>1
<1> HIDE DEF VotesNow
<1>11. [v \in Users |-> ShowPoll!VotesOf(v)] = VotesNow
  BY DEF VotesNow, ShowPoll!VotesOf
<1>12. [v \in Users |-> ShowPoll!VotesOf(v)]' = VotesNow'
  BY DEF VotesNow, ShowPoll!VotesOf
<1>13. ShowPoll!AsBallot!Vote(u)
  BY <1>7, <1>9, <1>10, <1>11, <1>12 DEF ShowPoll!AsBallot!Vote
<1> QED
  BY <1>3, <1>8, <1>13 DEF ShowPollKeeps, ShowPoll!AsBallot!Next

\* The votes of a deleted poll are discarded.
LEMMA ShowPollDeleteVotes ==
  ASSUME ShowPollInv, NEW r \in Requests, ShowPoll!DeleteVotesByPoll(r)
  PROVE  ShowPollKeeps
<1>1. /\ job[r].step = "votes" /\ job' = [job EXCEPT ![r] = ShowPoll!Idle]
      /\ rows' = [u \in Users |-> [o \in Options |-> 0]]
      /\ UNCHANGED <<poll, expired, edits, failures>>
  BY DEF ShowPoll!DeleteVotesByPoll, ShowPoll!Goes
<1>2. rows' \in [Users -> [Options -> Nat]]
  BY <1>1
<1>3. /\ ShowPollInv'
      /\ \A q \in Requests : job'[q] = IF q = r THEN ShowPoll!Idle ELSE job[q]
  <2>1. /\ poll' \in ShowPollDocument /\ expired' \in BOOLEAN
        /\ edits' \in 0..MaxEdits /\ failures' \in 0..MaxFailures
    BY <1>1, ShowPollTypes
  <2>2. job' = [job EXCEPT ![r] = ShowPoll!Idle]
    BY <1>1
  <2> QED
    BY <1>2, <2>1, <2>2, ShowIdleFits, ShowPollGoes
<1>4. Counting' = Counting
  BY <1>1, <1>3, ShowIdleFits, CountingStep
<1>5. [u \in Users |-> ShowPoll!VotesOf(u)]' = [u \in Users |-> 0]
  <2>1. ASSUME NEW u \in Users PROVE ShowPoll!SumOver(rows'[u]) = 0
    <3>1. rows'[u] \in [Options -> Nat] /\ \A o \in Options : rows'[u][o] = 0
      BY <1>1
    <3>2. IsFiniteSet(Options)
      BY Constants
    <3>3. Total(rows'[u], Options) = 0
      BY <3>1, <3>2, TotalZero
    <3> QED
      BY <3>1, <3>3, SumOverOptions
  <2> QED
    BY <2>1 DEF ShowPoll!VotesOf
<1>6. ShowPoll!AsBallot!Discard
  BY <1>1, <1>4, <1>5 DEF ShowPoll!AsBallot!Discard, ShowPoll!Counting, Counting
<1> QED
  BY <1>3, <1>6 DEF ShowPollKeeps, ShowPoll!AsBallot!Next

\* The count of a stored vote ends: Count, or LoseCount when the poll is gone or the request
\* fails.
LEMMA ShowPollCountEnds ==
  ASSUME ShowPollInv, NEW r \in Requests, job[r].step = "count",
         ShowPoll!CountVote(r) \/ ShowPoll!Fail(r)
  PROVE  ShowPollKeeps
<1> DEFINE o == job[r].option
<1>1. /\ job' = [job EXCEPT ![r] = ShowPoll!Idle]
      /\ \/ poll' = poll
         \/ poll' = [poll EXCEPT !.votes[o] = @ + 1]
      /\ failures' \in 0..MaxFailures
      /\ UNCHANGED <<expired, rows, edits>>
  BY ShowPollTypes, Constants
     DEF ShowPoll!CountVote, ShowPoll!Fail, ShowPoll!Goes, ShowPoll!Incremented
<1>2. o \in Options
  BY ShowPollTypes DEF ShowJobFits
<1> HIDE DEF o
<1>3. poll \in ShowPollDocument /\ poll.votes \in [Options -> Nat]
  BY ShowPollTypes DEF ShowPollDocument
<1>4. \/ poll' = poll
      \/ /\ poll' \in ShowPollDocument
         /\ \A p \in Options :
               poll'.votes[p] = IF p = o THEN poll.votes[p] + 1 ELSE poll.votes[p]
  BY <1>1, <1>2, <1>3 DEF ShowPollDocument
<1>5. /\ ShowPollInv'
      /\ \A q \in Requests : job'[q] = IF q = r THEN ShowPoll!Idle ELSE job[q]
  <2>1. poll' \in ShowPollDocument
    BY <1>3, <1>4
  <2>2. job' = [job EXCEPT ![r] = ShowPoll!Idle]
    BY <1>1
  <2> QED
    BY <1>1, <2>1, <2>2, ShowPollTypes, ShowIdleFits, ShowPollGoes
<1>6. /\ ShowPoll!Cardinality(ShowPoll!Counting) > 0
      /\ ShowPoll!Cardinality(ShowPoll!Counting)' = ShowPoll!Cardinality(ShowPoll!Counting) - 1
  <2>1. Cardinality(Counting) > 0 /\ Cardinality(Counting') = Cardinality(Counting) - 1
    BY <1>5, ShowIdleFits, CountingStep
  <2> QED
    BY <2>1, SameOperators DEF ShowPoll!Counting, Counting
<1>7. [u \in Users |-> ShowPoll!VotesOf(u)]' = [u \in Users |-> ShowPoll!VotesOf(u)]
  BY <1>1 DEF ShowPoll!VotesOf
<1>8. ShowPoll!AsBallot!Count \/ ShowPoll!AsBallot!LoseCount
  <2>1. CASE poll' = poll
    BY <1>6, <1>7, <2>1 DEF ShowPoll!AsBallot!LoseCount
  <2>2. CASE poll' # poll
    <3>1. poll'.votes \in [Options -> Nat]
      BY <1>4, <2>2 DEF ShowPollDocument
    <3>2. ShowPoll!SumOver(poll'.votes) = ShowPoll!SumOver(poll.votes) + 1
      BY <1>2, <1>3, <1>4, <2>2, <3>1, OneMoreVote
    <3> QED
      BY <1>6, <1>7, <3>2 DEF ShowPoll!AsBallot!Count
  <2> QED
    BY <2>1, <2>2
<1> QED
  BY <1>5, <1>8 DEF ShowPollKeeps, ShowPoll!AsBallot!Next

\* Every step of a show poll.
LEMMA ShowPollStays ==
  ASSUME ShowPollInv, ShowPoll!Next
  PROVE  ShowPollKeeps
<1>1. CASE ShowPoll!CreatePoll \/ ShowPoll!Expire \/ ShowPoll!UpdatePoll
  BY <1>1, ShowPollEdited
<1>2. ASSUME NEW r \in Requests, ShowPoll!CountVote(r) \/ ShowPoll!Fail(r)
      PROVE  ShowPollKeeps
  <2>1. CASE job[r].step = "count"
    BY <1>2, <2>1, ShowPollCountEnds
  <2>2. CASE job[r].step # "count"
    <3>1. /\ job' = [job EXCEPT ![r] = ShowPoll!Idle] /\ failures' \in 0..MaxFailures
          /\ UNCHANGED <<poll, expired, rows, edits>>
      BY <1>2, <2>2, ShowPollTypes, Constants
         DEF ShowPoll!CountVote, ShowPoll!Fail, ShowPoll!Goes
    <3>2. poll' \in ShowPollDocument /\ poll'.votes = poll.votes
      BY <3>1, ShowPollTypes
    <3> QED
      BY <2>2, <3>1, <3>2, ShowIdleFits, ShowPollQuiet
  <2> QED
    BY <2>1, <2>2
<1>3. \A r \in Requests : ShowPoll!CountVote(r) \/ ShowPoll!Fail(r) => ShowPollKeeps
  BY <1>2
<1> QED
  BY <1>1, <1>3, ShowPollOther, ShowPollInsertVote, ShowPollDeleteVotes DEF ShowPoll!Next

\* A poll starts as a Ballot does.
LEMMA ShowPollStarts ==
  ASSUME ShowPoll!Init
  PROVE  ShowPollInv /\ ShowPoll!AsBallot!Init
<1>1. /\ job = [r \in Requests |-> ShowPoll!Idle]
      /\ rows = [u \in Users |-> [o \in Options |-> 0]]
      /\ poll = [is |-> "none", status |-> "draft", votes |-> [o \in Options |-> 0]]
      /\ expired = FALSE /\ edits = 0 /\ failures = 0
  BY DEF ShowPoll!Init
<1> DEFINE none == [o \in Options |-> 0]
<1>2. none \in [Options -> Nat] /\ \A o \in Options : none[o] = 0
  OBVIOUS
<1> HIDE DEF none
<1>3. poll \in ShowPollDocument /\ poll.votes = none
  BY <1>1, <1>2 DEF ShowPollDocument, ShowPoll!Statuses, none
<1>4. rows \in [Users -> [Options -> Nat]] /\ (\A u \in Users : rows[u] = none)
  BY <1>1, <1>2 DEF none
<1>5. /\ job \in [Requests -> ShowPoll!Job]
      /\ \A r \in Requests : job[r] = ShowPoll!Idle
  BY <1>1, ShowIdleFits DEF ShowJobFits
<1>6. ShowPollInv
  <2>1. expired \in BOOLEAN /\ edits \in 0..MaxEdits /\ failures \in 0..MaxFailures
    <3>1. expired \in BOOLEAN
      BY DEF ShowPoll!Init
    <3>2. edits = 0 /\ failures = 0
      BY <1>1
    <3> QED
      BY <3>1, <3>2, Constants
  <2>2. rows \in [Users -> [Options -> Nat]]
    BY <1>4
  <2>3. ShowPoll!TypeOK
    BY <1>3, <1>5, <2>1, <2>2 DEF ShowPoll!TypeOK, ShowPollDocument
  <2> QED
    BY <1>5, <2>3, ShowIdleFits DEF ShowPollInv
<1>7. ShowPoll!Cardinality(ShowPoll!Counting) = 0
  <2>1. Counting = {}
    BY <1>5, ShowIdleFits DEF Counting
  <2> QED
    BY <2>1, SameOperators, FS_EmptySet DEF ShowPoll!Counting, Counting
<1>8. ShowPoll!SumOver(none) = 0
  <2>1. IsFiniteSet(Options)
    BY Constants
  <2>2. Total(none, Options) = 0
    BY <1>2, <2>1, TotalZero
  <2> QED
    BY <1>2, <2>2, SumOverOptions
<1>9. [u \in Users |-> ShowPoll!VotesOf(u)] = [u \in Users |-> 0]
  BY <1>4, <1>8 DEF ShowPoll!VotesOf
<1> QED
  BY <1>3, <1>6, <1>7, <1>8, <1>9 DEF ShowPoll!AsBallot!Init

-----------------------------------------------------------------------------
(* Messages                                                                 *)

\* The balance and the messages are explained by each other: what SentOnce says, with the
\* sum and the keys of this module.
LEMMA SentOnceHere ==
  /\ MessageSend!SentOnce <=>
        /\ \A k \in Keys : rows[k] <= 1
        /\ \A k \in answered : rows[k] >= 1
        /\ balance >= 0
        /\ balance + Total(rows, AllKeys) = MessageCredits
  /\ AllKeys = Keys \cup {NoKey} /\ IsFiniteSet(AllKeys)
<1>1. AllKeys = Keys \cup {NoKey}
  BY DEF AllKeys, MessageSend!AllKeys
<1>2. IsFiniteSet(AllKeys)
  BY <1>1, Constants, FS_AddElement
<1>3. MessageSend!Total(rows, MessageSend!AllKeys) = Total(rows, AllKeys)
  BY SameOperators DEF AllKeys
<1> QED
  BY <1>1, <1>2, <1>3 DEF MessageSend!SentOnce

\* A send goes on to j, and no message is committed.
LEMMA MessageGoes ==
  ASSUME MessageInv, NEW r \in Requests, NEW j \in MessageSend!Job,
         job' = [job EXCEPT ![r] = j], UNCHANGED <<rows, balance>>,
         answered' \subseteq AllKeys, \A k \in answered' : rows[k] >= 1,
         j.step \in {"charge", "commit"} /\ j.key \in Keys =>
            /\ rows[j.key] = 0
            /\ \A q \in Requests \ {r} : ~ (Inserted(q) /\ job[q].key = j.key),
         j.step = "commit" =>
            /\ balance > 0
            /\ \A q \in Requests \ {r} : job[q].step # "commit"
  PROVE  MessageInv'
<1>1. /\ job' \in [Requests -> MessageSend!Job]
      /\ \A q \in Requests : job'[q] = IF q = r THEN j ELSE job[q]
  BY OneGoes DEF MessageInv, MessageTypes
<1>2. MessageTypes'
  BY <1>1 DEF MessageInv, MessageTypes
<1>3. MessageSend!SentOnce'
  BY SentOnceHere DEF MessageInv, MessageSend!SentOnce
<1>4. KeysAreExclusive'
  BY <1>1 DEF MessageInv, KeysAreExclusive, Inserted
<1>5. ChargesAreExclusive'
  BY <1>1 DEF MessageInv, ChargesAreExclusive
<1> QED
  BY <1>2, <1>3, <1>4, <1>5 DEF MessageInv

\* A send that leaves the transaction, or does not enter it.
LEMMA MessageQuiet ==
  ASSUME MessageInv, NEW r \in Requests, NEW j \in MessageSend!Job,
         job' = [job EXCEPT ![r] = j], j.step \notin {"charge", "commit"},
         UNCHANGED <<rows, balance>>,
         \/ answered' = answered
         \/ \E k \in AllKeys : answered' = answered \cup {k} /\ rows[k] > 0
  PROVE  MessageInv'
<1>1. answered \subseteq AllKeys /\ rows \in [AllKeys -> Nat] /\ \A k \in answered : rows[k] >= 1
  BY SentOnceHere DEF MessageInv, MessageTypes
<1>2. answered' \subseteq AllKeys /\ \A k \in answered' : rows[k] >= 1
  <2>1. CASE answered' = answered
    BY <1>1, <2>1
  <2>2. CASE \E k \in AllKeys : answered' = answered \cup {k} /\ rows[k] > 0
    <3>1. PICK k \in AllKeys : answered' = answered \cup {k} /\ rows[k] > 0
      BY <2>2
    <3>2. rows[k] \in Nat
      BY <1>1
    <3>3. rows[k] >= 1
      BY <3>1, <3>2
    <3> QED
      BY <1>1, <3>1, <3>3
  <2> QED
    BY <2>1, <2>2
<1>3. j.step # "commit"
  OBVIOUS
<1> QED
  BY <1>2, <1>3, MessageGoes

\* Jobs the actions make.
LEMMA MessageJobs ==
  ASSUME MessageInv, NEW r \in Requests
  PROVE  /\ job[r] \in MessageSend!Job /\ MessageSend!Idle \in MessageSend!Job
         /\ MessageSend!Idle.step = "idle"
         /\ \A s \in {"insert", "charge", "commit", "lookup"} :
               /\ [job[r] EXCEPT !.step = s] \in MessageSend!Job
               /\ [job[r] EXCEPT !.step = s].step = s
               /\ [job[r] EXCEPT !.step = s].key = job[r].key
<1>1. job[r] \in MessageSend!Job
  BY DEF MessageInv, MessageTypes
<1>2. MessageSend!Idle \in MessageSend!Job /\ MessageSend!Idle.step = "idle"
  BY Constants DEF MessageSend!Idle, MessageSend!Job, MessageSend!AllKeys
<1>3. ASSUME NEW s \in {"insert", "charge", "commit", "lookup"}
      PROVE  /\ [job[r] EXCEPT !.step = s] \in MessageSend!Job
             /\ [job[r] EXCEPT !.step = s].step = s
             /\ [job[r] EXCEPT !.step = s].key = job[r].key
  BY <1>1 DEF MessageSend!Job
<1> QED
  BY <1>1, <1>2, <1>3

\* A transaction that is aborted for a conflict starts again or is given up: it has inserted
\* nothing.
LEMMA MessageRetry ==
  ASSUME MessageInv, NEW r \in Requests, MessageSend!Retry(r),
         UNCHANGED <<rows, balance, answered>>
  PROVE  MessageInv'
<1>1. job[r] \in MessageSend!Job /\ job[r].attempt \in 1..MaxAttempts
  BY MessageJobs DEF MessageSend!Job
<1> DEFINE next == job[r].attempt + 1
<1>2. job[r].attempt < MaxAttempts => next \in 1..MaxAttempts
  BY <1>1, Constants
<1>3. job' = [job EXCEPT ![r] = IF job[r].attempt < MaxAttempts
                 THEN [job[r] EXCEPT !.step = "insert", !.attempt = next, !.stale = FALSE]
                 ELSE [job[r] EXCEPT !.step = "lookup", !.stale = FALSE]]
  BY DEF MessageSend!Retry, MessageSend!Goes
<1> HIDE DEF next
<1>4. CASE job[r].attempt < MaxAttempts
  <2> DEFINE j == [job[r] EXCEPT !.step = "insert", !.attempt = next, !.stale = FALSE]
  <2>1. j \in MessageSend!Job /\ j.step = "insert"
    BY <1>1, <1>2, <1>4 DEF MessageSend!Job
  <2>2. job' = [job EXCEPT ![r] = j]
    BY <1>3, <1>4
  <2> HIDE DEF j
  <2> QED
    BY <2>1, <2>2, MessageQuiet
<1>5. CASE ~ (job[r].attempt < MaxAttempts)
  <2> DEFINE j == [job[r] EXCEPT !.step = "lookup", !.stale = FALSE]
  <2>1. j \in MessageSend!Job /\ j.step = "lookup"
    BY <1>1 DEF MessageSend!Job
  <2>2. job' = [job EXCEPT ![r] = j]
    BY <1>3, <1>5
  <2> HIDE DEF j
  <2> QED
    BY <2>1, <2>2, MessageQuiet
<1> QED
  BY <1>4, <1>5

\* The steps outside the transaction.
LEMMA MessageOutside ==
  ASSUME MessageInv, NEW r \in Requests,
         \/ MessageSend!SendUserMessage(r) \/ MessageSend!CheckStation(r)
         \/ MessageSend!LookUp(r) \/ MessageSend!Fail(r)
  PROVE  MessageInv'
<1>1. CASE MessageSend!SendUserMessage(r)
  <2>1. PICK k \in AllKeys :
           IF MessageSend!AlreadySent(k)
           THEN answered' = answered \cup {k} /\ UNCHANGED job
           ELSE /\ job' = [job EXCEPT ![r] = [MessageSend!Idle EXCEPT !.step = "guard", !.key = k]]
                /\ UNCHANGED answered
    BY <1>1 DEF MessageSend!SendUserMessage, MessageSend!Goes, AllKeys
  <2>2. UNCHANGED <<rows, balance>>
    BY <1>1 DEF MessageSend!SendUserMessage
  <2>3. CASE MessageSend!AlreadySent(k)
    <3>1. /\ job' = job /\ answered' = answered \cup {k} /\ rows[k] > 0
          /\ job[r].step = "idle"
      BY <1>1, <2>1, <2>3 DEF MessageSend!AlreadySent, MessageSend!SendUserMessage
    <3>2. job' = [job EXCEPT ![r] = job[r]] /\ job[r] \in MessageSend!Job
      BY <3>1 DEF MessageInv, MessageTypes
    <3>3. job[r].step \notin {"charge", "commit"}
      BY <3>1
    <3> QED
      BY <2>2, <3>1, <3>2, <3>3, MessageQuiet
  <2>4. CASE ~ MessageSend!AlreadySent(k)
    <3> DEFINE j == [MessageSend!Idle EXCEPT !.step = "guard", !.key = k]
    <3>1. j \in MessageSend!Job /\ j.step = "guard"
      <4>1. MessageSend!Idle \in MessageSend!Job /\ k \in MessageSend!AllKeys
        BY MessageJobs DEF AllKeys
      <4> QED
        BY <4>1 DEF MessageSend!Job
    <3>2. job' = [job EXCEPT ![r] = j] /\ answered' = answered
      BY <2>1, <2>4
    <3> HIDE DEF j
    <3> QED
      BY <2>2, <3>1, <3>2, MessageQuiet
  <2> QED
    BY <2>3, <2>4
<1>2. CASE MessageSend!CheckStation(r)
  <2> DEFINE j == [job[r] EXCEPT !.step = "insert"]
  <2>1. /\ j \in MessageSend!Job /\ j.step = "insert"
        /\ MessageSend!Idle \in MessageSend!Job /\ MessageSend!Idle.step = "idle"
    BY MessageJobs
  <2>2. /\ UNCHANGED <<rows, balance, answered>>
        /\ job' = [job EXCEPT ![r] = j] \/ job' = [job EXCEPT ![r] = MessageSend!Idle]
    BY <1>2 DEF MessageSend!CheckStation, MessageSend!Goes
  <2> HIDE DEF j
  <2> QED
    BY <2>1, <2>2, MessageQuiet
<1>3. CASE MessageSend!LookUp(r) \/ MessageSend!Fail(r)
  <2>1. /\ UNCHANGED <<rows, balance>> /\ job' = [job EXCEPT ![r] = MessageSend!Idle]
        /\ \/ answered' = answered
           \/ answered' = answered \cup {job[r].key} /\ rows[job[r].key] > 0
    BY <1>3 DEF MessageSend!LookUp, MessageSend!Fail, MessageSend!Goes, MessageSend!AlreadySent
  <2>2. job[r].key \in AllKeys
    BY MessageJobs DEF MessageSend!Job, AllKeys
  <2>3. /\ MessageSend!Idle \in MessageSend!Job
        /\ MessageSend!Idle.step \notin {"charge", "commit"}
    BY MessageJobs
  <2> QED
    BY <2>1, <2>2, <2>3, MessageQuiet
<1> QED
  BY <1>1, <1>2, <1>3

\* The message is inserted when its key is neither taken nor being taken.
LEMMA MessageCreate ==
  ASSUME MessageInv, NEW r \in Requests, MessageSend!CreateMessage(r)
  PROVE  MessageInv'
<1>1. UNCHANGED <<rows, balance, answered>>
  BY DEF MessageSend!CreateMessage
<1>2. CASE MessageSend!Duplicate(job[r].key)
  <2> DEFINE j == [job[r] EXCEPT !.step = "lookup"]
  <2>1. j \in MessageSend!Job /\ j.step = "lookup"
    BY MessageJobs
  <2>2. job' = [job EXCEPT ![r] = j]
    BY <1>2 DEF MessageSend!CreateMessage, MessageSend!Goes
  <2> HIDE DEF j
  <2> QED
    BY <1>1, <2>1, <2>2, MessageQuiet
<1>3. CASE ~ MessageSend!Duplicate(job[r].key) /\ MessageSend!KeyLocked(r, job[r].key)
  <2>1. MessageSend!Retry(r)
    BY <1>3 DEF MessageSend!CreateMessage
  <2> QED
    BY <1>1, <2>1, MessageRetry
<1>4. CASE ~ MessageSend!Duplicate(job[r].key) /\ ~ MessageSend!KeyLocked(r, job[r].key)
  <2> DEFINE j == [job[r] EXCEPT !.step = "charge"]
  <2>1. j \in MessageSend!Job /\ j.step = "charge" /\ j.key = job[r].key
    BY MessageJobs
  <2>2. job' = [job EXCEPT ![r] = j]
    BY <1>4 DEF MessageSend!CreateMessage, MessageSend!Goes
  <2> HIDE DEF j
  <2>3. ASSUME j.key \in Keys
        PROVE  /\ rows[j.key] = 0
               /\ \A q \in Requests \ {r} : ~ (Inserted(q) /\ job[q].key = j.key)
    <3>1. j.key # NoKey /\ rows[j.key] \in Nat
      BY <2>3, Constants, SentOnceHere DEF MessageInv, MessageTypes
    <3>2. rows[j.key] = 0
      BY <1>4, <2>1, <3>1 DEF MessageSend!Duplicate
    <3>3. \A q \in Requests \ {r} : ~ (Inserted(q) /\ job[q].key = j.key)
      BY <1>4, <2>1, <3>1 DEF MessageSend!KeyLocked, Inserted
    <3> QED
      BY <3>2, <3>3
  <2>4. /\ answered' \subseteq AllKeys /\ \A k \in answered' : rows[k] >= 1
        /\ j.step # "commit"
    BY <1>1, <2>1, SentOnceHere DEF MessageInv, MessageTypes
  <2>5. j.key \in Keys =>
            /\ rows[j.key] = 0
            /\ \A q \in Requests \ {r} : ~ (Inserted(q) /\ job[q].key = j.key)
    BY <2>3
  <2> QED
    BY <1>1, <2>1, <2>2, <2>4, <2>5, MessageGoes
<1> QED
  BY <1>2, <1>3, <1>4

\* The credit is taken when the balance holds one and no other transaction has written it.
LEMMA MessageCharge ==
  ASSUME MessageInv, NEW r \in Requests, MessageSend!ChargeMessage(r)
  PROVE  MessageInv'
<1>1. UNCHANGED <<rows, balance, answered>> /\ job[r].step = "charge"
  BY DEF MessageSend!ChargeMessage
<1>2. CASE MessageSend!Conflict(r)
  <2>1. MessageSend!Retry(r)
    BY <1>2 DEF MessageSend!ChargeMessage
  <2> QED
    BY <1>1, <2>1, MessageRetry
<1>3. CASE ~ MessageSend!Conflict(r) /\ balance < 1
  <2>1. job' = [job EXCEPT ![r] = MessageSend!Idle]
    BY <1>3 DEF MessageSend!ChargeMessage, MessageSend!Goes
  <2>2. MessageSend!Idle \in MessageSend!Job /\ MessageSend!Idle.step \notin {"charge", "commit"}
    BY MessageJobs
  <2> QED
    BY <1>1, <2>1, <2>2, MessageQuiet
<1>4. CASE ~ MessageSend!Conflict(r) /\ ~ (balance < 1)
  <2> DEFINE j == [job[r] EXCEPT !.step = "commit"]
  <2>1. j \in MessageSend!Job /\ j.step = "commit" /\ j.key = job[r].key
    BY MessageJobs
  <2>2. job' = [job EXCEPT ![r] = j]
    BY <1>4 DEF MessageSend!ChargeMessage, MessageSend!Goes
  <2> HIDE DEF j
  <2>3. j.key \in Keys =>
            /\ rows[j.key] = 0
            /\ \A q \in Requests \ {r} : ~ (Inserted(q) /\ job[q].key = j.key)
    BY <1>1, <2>1 DEF MessageInv, KeysAreExclusive, Inserted
  <2>4. balance > 0
    <3>1. balance \in Int
      BY DEF MessageInv, MessageTypes
    <3> QED
      BY <1>4, <3>1
  <2>5. \A q \in Requests \ {r} : job[q].step # "commit"
    BY <1>4 DEF MessageSend!Conflict, MessageSend!BalanceLocked
  <2>6. answered' \subseteq AllKeys /\ \A k \in answered' : rows[k] >= 1
    BY <1>1, SentOnceHere DEF MessageInv, MessageTypes
  <2> QED
    BY <1>1, <2>1, <2>2, <2>3, <2>4, <2>5, <2>6, MessageGoes
<1> QED
  BY <1>2, <1>3, <1>4

\* The commit: the first message of its key, and one credit.
LEMMA MessageCommits ==
  ASSUME MessageInv, NEW r \in Requests,
         MessageSend!Commit(r) \/ MessageSend!CommitUnconfirmed(r)
  PROVE  MessageInv'
<1> DEFINE k == job[r].key
<1>1. /\ job[r].step = "commit"
      /\ rows' = [rows EXCEPT ![k] = @ + 1]
      /\ balance' = balance - 1
      /\ job' = [q \in Requests |-> IF q = r THEN MessageSend!Idle
                    ELSE [job[q] EXCEPT !.stale = job[q].step = "charge"]]
      /\ answered' \in {answered, answered \cup {k}}
  BY DEF MessageSend!Commit, MessageSend!CommitUnconfirmed, MessageSend!Committed
<1>2. /\ rows \in [AllKeys -> Nat] /\ balance \in Int /\ answered \subseteq AllKeys
      /\ \A q \in Requests : job[q] \in MessageSend!Job
      /\ k \in AllKeys
  <2>1. job[r] \in MessageSend!Job
    BY DEF MessageInv, MessageTypes
  <2> QED
    BY <2>1 DEF MessageInv, MessageTypes, MessageSend!Job, AllKeys
<1>3. /\ balance > 0
      /\ \A q \in Requests : job[q].step = "commit" => q = r
      /\ k \in Keys =>
            /\ rows[k] = 0
            /\ \A q \in Requests : Inserted(q) /\ job[q].key = k => q = r
  BY <1>1 DEF MessageInv, ChargesAreExclusive, KeysAreExclusive, Inserted
<1> HIDE DEF k
<1>4. /\ job' \in [Requests -> MessageSend!Job]
      /\ job'[r].step = "idle"
      /\ \A q \in Requests \ {r} : job'[q].step = job[q].step /\ job'[q].key = job[q].key
  <2>1. ASSUME NEW q \in Requests
        PROVE  LET m == [job[q] EXCEPT !.stale = job[q].step = "charge"]
               IN  m \in MessageSend!Job /\ m.step = job[q].step /\ m.key = job[q].key
    <3> DEFINE stale == job[q].step = "charge"
    <3>1. stale \in BOOLEAN /\ job[q] \in MessageSend!Job
      BY <1>2
    <3> HIDE DEF stale
    <3>2. LET m == [job[q] EXCEPT !.stale = stale]
          IN  m \in MessageSend!Job /\ m.step = job[q].step /\ m.key = job[q].key
      BY <3>1 DEF MessageSend!Job
    <3> QED
      BY <3>2 DEF stale
  <2>2. MessageSend!Idle \in MessageSend!Job /\ MessageSend!Idle.step = "idle"
    BY MessageJobs
  <2> DEFINE Next(q) == [job[q] EXCEPT !.stale = job[q].step = "charge"]
  <2>3. \A q \in Requests : /\ Next(q) \in MessageSend!Job
                            /\ Next(q).step = job[q].step /\ Next(q).key = job[q].key
    BY <2>1
  <2>4. job' = [q \in Requests |-> IF q = r THEN MessageSend!Idle ELSE Next(q)]
    BY <1>1
  <2> HIDE DEF Next
  <2> QED
    BY <2>2, <2>3, <2>4
<1>5. /\ rows' \in [AllKeys -> Nat] /\ rows'[k] = rows[k] + 1
      /\ \A l \in AllKeys \ {k} : rows'[l] = rows[l]
      /\ rows[k] \in Nat
  BY <1>1, <1>2
<1>6. balance' \in Int /\ balance' >= 0
  BY <1>1, <1>2, <1>3
<1>7. answered' \subseteq AllKeys
  BY <1>1, <1>2
<1>8. MessageTypes'
  BY <1>4, <1>5, <1>6, <1>7 DEF MessageTypes, AllKeys
<1>9. MessageSend!SentOnce'
  <2>1. /\ \A l \in Keys : rows[l] <= 1
        /\ \A l \in answered : rows[l] >= 1
        /\ balance + Total(rows, AllKeys) = MessageCredits
        /\ AllKeys = Keys \cup {NoKey} /\ IsFiniteSet(AllKeys)
    BY SentOnceHere DEF MessageInv
  <2>2. \A l \in Keys : rows'[l] <= 1
    BY <1>3, <1>5, <2>1
  <2>3. \A l \in answered' : rows'[l] >= 1
    <3>1. rows'[k] >= 1
      BY <1>5
    <3> QED
      BY <1>1, <1>2, <1>5, <2>1, <3>1
  <2>4. balance' + Total(rows', AllKeys) = MessageCredits
    <3>1. \A l \in AllKeys : rows[l] \in Int /\ rows'[l] \in Int
      BY <1>2, <1>5
    <3>2. Total(rows', AllKeys) = Total(rows, AllKeys) - rows[k] + rows'[k]
      BY <1>2, <1>5, <2>1, <3>1, TotalChange
    <3>3. Total(rows, AllKeys) \in Int
      BY <2>1, <3>1, TotalType
    <3>4. Total(rows', AllKeys) = Total(rows, AllKeys) + 1
      BY <1>5, <3>2, <3>3
    <3>5. balance' = balance - 1
      BY <1>1
    <3> QED
      BY <1>2, <2>1, <3>3, <3>4, <3>5
  <2>5. MessageSend!Total(rows', MessageSend!AllKeys) = Total(rows', AllKeys)
    BY SameOperators DEF AllKeys
  <2> QED
    BY <1>6, <2>2, <2>3, <2>4, <2>5 DEF MessageSend!SentOnce
<1>10. KeysAreExclusive'
  <2>1. ASSUME NEW q \in Requests, Inserted(q)', job'[q].key \in Keys
        PROVE  /\ rows'[job'[q].key] = 0
               /\ \A p \in Requests : Inserted(p)' /\ job'[p].key = job'[q].key => p = q
    <3>1. q # r /\ Inserted(q) /\ job[q].key \in Keys /\ job'[q].key = job[q].key
      BY <1>4, <2>1 DEF Inserted
    <3>2. /\ rows[job[q].key] = 0
          /\ \A p \in Requests : Inserted(p) /\ job[p].key = job[q].key => p = q
      BY <3>1 DEF MessageInv, KeysAreExclusive
    <3>3. job[q].key # k /\ job[q].key \in AllKeys
      BY <1>3, <3>1, SentOnceHere
    <3>4. \A p \in Requests : Inserted(p)' => p # r /\ Inserted(p) /\ job'[p].key = job[p].key
      BY <1>4 DEF Inserted
    <3>5. rows'[job'[q].key] = 0
      BY <1>5, <3>1, <3>2, <3>3
    <3> QED
      BY <3>1, <3>2, <3>4, <3>5
  <2> QED
    BY <2>1 DEF KeysAreExclusive
<1>11. ChargesAreExclusive'
  BY <1>3, <1>4 DEF ChargesAreExclusive
<1> QED
  BY <1>8, <1>9, <1>10, <1>11 DEF MessageInv

\* Every step of the messages.
LEMMA MessageStays ==
  ASSUME MessageInv, MessageSend!Next
  PROVE  MessageInv'
<1>1. ASSUME MessageSend!SwitchStation PROVE MessageInv'
  <2>1. UNCHANGED <<rows, balance, job, answered>>
    BY <1>1 DEF MessageSend!SwitchStation
  <2> QED
    BY <2>1 DEF MessageInv, MessageTypes, MessageSend!SentOnce, KeysAreExclusive,
        ChargesAreExclusive, Inserted
<1> QED
  BY <1>1, MessageOutside, MessageCreate, MessageCharge, MessageCommits DEF MessageSend!Next

\* No message is there, and the balance is full.
LEMMA MessageStarts ==
  ASSUME MessageSend!Init
  PROVE  MessageInv
<1>1. /\ \A k \in AllKeys : rows[k] = 0
      /\ balance = MessageCredits /\ answered = {}
      /\ job = [r \in Requests |-> MessageSend!Idle]
      /\ rows \in [AllKeys -> Nat]
  BY DEF MessageSend!Init, AllKeys
<1>2. MessageSend!Idle \in MessageSend!Job /\ MessageSend!Idle.step = "idle"
  BY Constants DEF MessageSend!Idle, MessageSend!Job, MessageSend!AllKeys
<1>3. /\ job \in [Requests -> MessageSend!Job]
      /\ \A r \in Requests : job[r].step = "idle"
  BY <1>1, <1>2
<1>4. MessageTypes
  BY <1>1, <1>3, Constants DEF MessageTypes
<1>5. MessageSend!SentOnce
  <2>1. Total(rows, AllKeys) = 0
    BY <1>1, SentOnceHere, TotalZero
  <2> QED
    BY <1>1, <2>1, SentOnceHere, Constants
<1>6. KeysAreExclusive /\ ChargesAreExclusive
  BY <1>3 DEF KeysAreExclusive, ChargesAreExclusive, Inserted
<1> QED
  BY <1>4, <1>5, <1>6 DEF MessageInv

-----------------------------------------------------------------------------
(* All of them                                                              *)

\* What a step of any of them does.
Keeps ==
    /\ ParticipationInv'
    /\ Is("channel poll") => [ChannelPoll!AsBallot!Next]_(ChannelPoll!AsBallot!vars)
    /\ Is("show poll") => [ShowPoll!AsBallot!Next]_(ShowPoll!AsBallot!vars)
    /\ Is("channel poll") => ChannelPoll!LateReaderIfReopened

\* Each of the three starts in its invariant.
LEMMA ParticipationStarts == ParticipationInit => ParticipationInv
<1>1. ASSUME ParticipationInit PROVE ParticipationInv
  BY <1>1, ChannelPollStarts, ShowPollStarts, MessageStarts
     DEF ParticipationInit, ParticipationInv, Is
<1> QED
  BY <1>1

\* Every step of one of them, and none of the others' variables.
LEMMA ParticipationStays == ParticipationInv /\ [ParticipationNext]_all => Keeps
<1> SUFFICES ASSUME ParticipationInv, [ParticipationNext]_all PROVE Keeps
  OBVIOUS
<1>1. CASE ChannelPollStep
  <2>1. service = "channel poll" /\ service' = service /\ ChannelPoll!Next
    BY <1>1 DEF ChannelPollStep, Is
  <2>2. ChannelPollKeeps
    BY <2>1, ChannelPollStays DEF ParticipationInv, Is
  <2> QED
    BY <2>1, <2>2 DEF Keeps, ChannelPollKeeps, ParticipationInv, Is
<1>2. CASE ShowPollStep
  <2>1. service = "show poll" /\ service' = service /\ ShowPoll!Next
    BY <1>2 DEF ShowPollStep, Is
  <2>2. ShowPollKeeps
    BY <2>1, ShowPollStays DEF ParticipationInv, Is
  <2> QED
    BY <2>1, <2>2 DEF Keeps, ShowPollKeeps, ParticipationInv, Is
<1>3. CASE MessageStep
  <2>1. service = "message" /\ service' = service /\ MessageSend!Next
    BY <1>3 DEF MessageStep, Is
  <2>2. MessageInv'
    BY <2>1, MessageStays DEF ParticipationInv, Is
  <2> QED
    BY <2>1, <2>2 DEF Keeps, ParticipationInv, Is
<1>4. CASE UNCHANGED all
  <2>1. /\ UNCHANGED service
        /\ UNCHANGED <<rows, job, failures, poll, edits, now, spent, expired>>
        /\ UNCHANGED <<balance, open, answered, switches>>
    BY <1>4 DEF all, polls, channelPoll, message
  <2>2. ChannelPollInv => ChannelPollInv'
    BY <2>1 DEF ChannelPollInv, ChannelPoll!TypeOK
  <2>3. ShowPollInv => ShowPollInv'
    BY <2>1 DEF ShowPollInv, ShowPoll!TypeOK
  <2>4. MessageInv => MessageInv'
    BY <2>1 DEF MessageInv, MessageTypes, MessageSend!SentOnce, KeysAreExclusive,
        ChargesAreExclusive, Inserted
  <2>5. UNCHANGED ChannelPoll!AsBallot!vars
    BY <2>1 DEF ChannelPoll!AsBallot!vars, ChannelPoll!Counting
  <2>6. UNCHANGED ShowPoll!AsBallot!vars
    BY <2>1 DEF ShowPoll!AsBallot!vars, ShowPoll!Counting, ShowPoll!VotesOf
  <2>7. ChannelPoll!LateReaderIfReopened
    BY <2>1 DEF ChannelPoll!LateReaderIfReopened
  <2> QED
    BY <2>1, <2>2, <2>3, <2>4, <2>5, <2>6, <2>7 DEF Keeps, ParticipationInv, Is
<1> QED
  BY <1>1, <1>2, <1>3, <1>4 DEF ParticipationNext

\* The inductive invariant: types and, for messages, what the locks promise.
THEOREM ParticipationInvHolds == ParticipationSpec => []ParticipationInv
<1>1. ParticipationInv /\ [ParticipationNext]_all => ParticipationInv'
  BY ParticipationStays DEF Keeps
<1> QED
  BY <1>1, ParticipationStarts, PTL DEF ParticipationSpec

\* One message and one credit for each clientMessageId, for any number of sends of it at once,
\* attempts and unconfirmed commits (sendUserMessage).
THEOREM MessagesSentOnce == ParticipationSpec => []SentOnce
<1>1. ParticipationInv => SentOnce
  BY DEF ParticipationInv, MessageInv, SentOnce
<1> QED
  BY <1>1, ParticipationInvHolds, PTL

\* Both kinds of poll implement a Ballot, for any voters, options and categories: every step
\* of votePoll, of an administrator or of a reader is a step of the Ballot or none.
THEOREM PollsKeepBallot == ParticipationSpec => KeepsBallot
<1>1. ParticipationInit => /\ Is("channel poll") => ChannelPoll!AsBallot!Init
                           /\ Is("show poll") => ShowPoll!AsBallot!Init
  <2>1. ASSUME ParticipationInit, Is("channel poll") PROVE ChannelPoll!AsBallot!Init
    BY <2>1, ChannelPollStarts DEF ParticipationInit, Is
  <2>2. ASSUME ParticipationInit, Is("show poll") PROVE ShowPoll!AsBallot!Init
    BY <2>2, ShowPollStarts DEF ParticipationInit, Is
  <2> QED
    BY <2>1, <2>2
<1>2. ParticipationInv /\ [ParticipationNext]_all =>
         [/\ Is("channel poll") => [ChannelPoll!AsBallot!Next]_(ChannelPoll!AsBallot!vars)
          /\ Is("show poll") => [ShowPoll!AsBallot!Next]_(ShowPoll!AsBallot!vars)]_all
  BY ParticipationStays DEF Keeps
<1> QED
  BY <1>1, <1>2, ParticipationInvHolds, PTL DEF ParticipationSpec, KeepsBallot

\* A completed channel poll is active again only through an administrator or a late reader
\* (the status a read writes, by the poll's id alone).
THEOREM LateReadersReopen == ParticipationSpec => OnlyLateReadersReopen
<1>1. ParticipationInv /\ [ParticipationNext]_all =>
         [Is("channel poll") => ChannelPoll!LateReaderIfReopened]_all
  BY ParticipationStays DEF Keeps
<1> QED
  BY <1>1, ParticipationInvHolds, PTL DEF ParticipationSpec, OnlyLateReadersReopen
=============================================================================
