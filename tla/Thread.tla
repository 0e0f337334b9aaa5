-------------------------------- MODULE Thread --------------------------------
(***************************************************************************)
(* The conversation of one listener with one station (src/src/module/message): *)
(* the station's replies, stored in a transaction that marks what they answer, *)
(* and the two numbers that are computed from the rows when a list is asked    *)
(* for: messages waiting for an answer and replies the listener has not seen.  *)
(***************************************************************************)
EXTENDS Integers, Sequences, SequencesExt, FiniteSetsExt

CONSTANTS
    Shows,        \* shows the messages are tagged with; {NoShow} for a channel
    NoShow,
    Staff,        \* replies in flight at once
    Devices,      \* the listener's requests that mark the thread read
    MaxMessages,  \* bound: messages in the thread
    MaxClock      \* bound: the clock

BoundsAssumption == MaxMessages \in Nat /\ MaxClock \in Nat
WorkersAssumption == Staff \cap Devices = {}

VARIABLES
    thread,       \* the Message rows of the conversation, as committed
    clock,
    lastReadAt,   \* of the ThreadRead row
    job,          \* what each request does next
    seen          \* history: replies that were there when the listener opened the chat

vars == <<thread, clock, lastReadAt, job, seen>>

(* at: createdAt, of a reply the time its transaction began.  stored: when it *)
(* was committed.  answers: history, the messages a reply answers.             *)
Row  == [from : {"user", "station"}, show : Shows \cup {NoShow}, at : 0..MaxClock,
         stored : 0..MaxClock, isReplied : BOOLEAN, answers : SUBSET (1..MaxMessages)]
Job  == [step : {"idle", "open", "commit", "read"}, show : Shows \cup {NoShow},
         at : 0..MaxClock, marks : SUBSET (1..MaxMessages), answers : SUBSET (1..MaxMessages)]
Idle == [step |-> "idle", show |-> NoShow, at |-> 0, marks |-> {}, answers |-> {}]

TypeOK ==
    /\ thread     \in Seq(Row) /\ Len(thread) <= MaxMessages
    /\ clock      \in 0..MaxClock
    /\ lastReadAt \in -1..MaxClock
    /\ job        \in [Staff \cup Devices -> Job]
    /\ seen       \subseteq 1..MaxMessages

Init ==
    /\ thread     = << >>
    /\ clock      = 0
    /\ lastReadAt = -1
    /\ job        = [w \in Staff \cup Devices |-> Idle]
    /\ seen       = {}

Goes(w, j) == job' = [job EXCEPT ![w] = j]
Rows       == DOMAIN thread
FromUser   == {i \in Rows : thread[i].from = "user"}

Tick ==
    /\ clock < MaxClock
    /\ clock' = clock + 1
    /\ UNCHANGED <<thread, lastReadAt, job, seen>>

\* A message of the listener, tagged with the show on air.
ListenerWrites ==
    /\ Len(thread) < MaxMessages
    /\ \E show \in Shows :
          thread' = Append(thread, [from |-> "user", show |-> show, at |-> clock, stored |-> clock,
                                    isReplied |-> FALSE, answers |-> {}])
    /\ UNCHANGED <<clock, lastReadAt, job, seen>>

-----------------------------------------------------------------------------
(* sendStationReply                                                         *)

\* The reply goes to the show of the listener's latest message.
StartReply(s) ==
    /\ job[s].step = "idle"
    /\ LET show == IF FromUser = {} THEN NoShow ELSE thread[Max(FromUser)].show
       IN  Goes(s, [Idle EXCEPT !.step = "open", !.show = show])
    /\ UNCHANGED <<thread, clock, lastReadAt, seen>>

\* markAsReplied is about one show, when there is one.
Matches(i, show) == show = NoShow \/ thread[i].show = show

\* The transaction's snapshot: what is there now and waits is what it will mark.
OpenReply(s) ==
    /\ job[s].step = "open"
    /\ LET answers == {i \in FromUser : Matches(i, job[s].show)} IN
       Goes(s, [job[s] EXCEPT !.step = "commit", !.at = clock, !.answers = answers,
                              !.marks = {i \in answers : ~thread[i].isReplied}])
    /\ UNCHANGED <<thread, clock, lastReadAt, seen>>

Marked(marks) == [i \in Rows |-> IF i \in marks THEN [thread[i] EXCEPT !.isReplied = TRUE] ELSE thread[i]]

\* Another reply marked one of them since the snapshot.
Conflict(s) == \E i \in job[s].marks : thread[i].isReplied

CommitReply(s) ==
    LET j == job[s] IN
    /\ j.step = "commit"
    /\ ~Conflict(s)
    /\ Len(thread) < MaxMessages
    /\ thread' = Append(Marked(j.marks),
                        [from |-> "station", show |-> j.show, at |-> j.at, stored |-> clock,
                         isReplied |-> FALSE, answers |-> j.answers])
    /\ Goes(s, Idle)
    /\ UNCHANGED <<clock, lastReadAt, seen>>

RetryReply(s) ==
    /\ job[s].step = "commit"
    /\ Conflict(s)
    /\ Goes(s, [job[s] EXCEPT !.step = "open"])
    /\ UNCHANGED <<thread, clock, lastReadAt, seen>>

\* An error, or the end of the process: the transaction leaves nothing.
AbortReply(s) ==
    /\ job[s].step \in {"open", "commit"}
    /\ Goes(s, Idle)
    /\ UNCHANGED <<thread, clock, lastReadAt, seen>>

-----------------------------------------------------------------------------
(* The listener opens the chat: markThreadRead                              *)

Visible == {i \in Rows : thread[i].from = "station"}

StartRead(d) ==
    /\ job[d].step = "idle"
    /\ Goes(d, [Idle EXCEPT !.step = "read", !.at = clock, !.marks = Visible])
    /\ UNCHANGED <<thread, clock, lastReadAt, seen>>

\* Mutant: the time is set, whatever it was.
SetTo(at) == at

\* The later of the two: the time never moves backwards.
MovedTo(at) == IF at > lastReadAt THEN at ELSE lastReadAt

MarkThreadRead(d) ==
    /\ job[d].step = "read"
    /\ lastReadAt' = MovedTo(job[d].at)
    /\ seen' = seen \cup job[d].marks
    /\ Goes(d, Idle)
    /\ UNCHANGED <<thread, clock>>

-----------------------------------------------------------------------------
(* What the lists compute                                                   *)

\* Messages of the listener still waiting for an answer.
Unreplied == {i \in FromUser : ~thread[i].isReplied}

\* Replies counted for the listener's badge.
Unread == {i \in Visible : thread[i].at > lastReadAt}

Next ==
    \/ Tick \/ ListenerWrites
    \/ \E s \in Staff :
          \/ StartReply(s) \/ OpenReply(s)
          \/ CommitReply(s) \/ RetryReply(s) \/ AbortReply(s)
    \/ \E d \in Devices : StartRead(d) \/ MarkThreadRead(d)

Spec == Init /\ [][Next]_vars

-----------------------------------------------------------------------------
\* A message counts as answered exactly when a stored reply answers it: replies
\* of several members of staff at once, aborted ones and messages that arrive
\* meanwhile leave none marked without a reply and none waiting with one.
AnsweredByReply ==
    Unreplied = {i \in FromUser : \A r \in Visible : i \notin thread[r].answers}

\* A reply the listener had before them never counts as unread again, and one
\* they had not does count, unless the listener opened the chat while it was
\* being stored (createdAt is older than the commit; lastReadAt only grows).
UnreadIsUnseen ==
    /\ seen \cap Unread = {}
    /\ \A i \in Visible \ (seen \cup Unread) : lastReadAt \in thread[i].at..thread[i].stored

-----------------------------------------------------------------------------
(* Why                                                                      *)

\* A reply under way answers messages there are, and those it is not to mark were marked
\* before; its time, and that of a device that reads, is past.
RepliesAreOfMessages ==
    /\ \A w \in Staff \cup Devices :
          /\ job[w].at <= clock
          /\ job[w].step = "commit" =>
                /\ job[w].marks \subseteq job[w].answers /\ job[w].answers \subseteq FromUser
                /\ \A i \in job[w].answers \ job[w].marks : thread[i].isReplied
    /\ \A r \in Visible : thread[r].answers \subseteq FromUser

\* Rows are stored no sooner than they are made.
TimesAreInOrder ==
    /\ lastReadAt <= clock
    /\ \A i \in Rows : thread[i].at <= thread[i].stored /\ thread[i].stored <= clock

\* A device that reads has had the replies that were stored when it looked, and no others.
ReadersHaveHadReplies ==
    /\ \A d \in Devices : job[d].step = "read" =>
          /\ job[d].marks \subseteq Visible
          /\ \A i \in job[d].marks : thread[i].at <= job[d].at
          /\ \A i \in Visible \ job[d].marks : job[d].at <= thread[i].stored
    /\ seen \subseteq Visible
    /\ \A i \in seen : thread[i].at <= lastReadAt
    /\ \A i \in Visible \ seen : lastReadAt <= thread[i].stored

IInv ==
    /\ thread \in Seq([from : {"user", "station"}, show : Shows \cup {NoShow}, at : Nat, stored : Nat,
                       isReplied : BOOLEAN, answers : SUBSET Nat])
    /\ clock \in Nat /\ lastReadAt \in Int
    /\ job \in [Staff \cup Devices ->
             [step : {"idle", "open", "commit", "read"}, show : Shows \cup {NoShow}, at : Nat,
              marks : SUBSET Nat, answers : SUBSET Nat]]
    /\ RepliesAreOfMessages /\ AnsweredByReply
    /\ TimesAreInOrder /\ ReadersHaveHadReplies
=============================================================================
