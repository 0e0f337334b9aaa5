---------------------------- MODULE Participation ----------------------------
(***************************************************************************)
(* How listeners take part: votes in the polls of channels and of shows and   *)
(* messages to a station.  The three modules share no state, so a behaviour   *)
(* is one of one of them, as service says; the variables it does not have     *)
(* keep the value 0.  Variables of two modules that have one name are one.    *)
(***************************************************************************)
EXTENDS Integers, TLC

CONSTANTS
    Users, Requests, MaxFailures,
    Categories, Cost, VoteCredits,          \* channel polls
    Options,                                \* show polls
    MaxEdits,                               \* both kinds of poll
    Keys, NoKey, MessageCredits, MaxAttempts, MaxSwitches     \* messages

VARIABLES
    service,
    rows, job, failures,
    poll, edits,                            \* both kinds of poll
    now, spent,                             \* channel polls
    expired,                                \* show polls
    balance, open, answered, switches       \* messages

polls       == <<poll, edits>>
channelPoll == <<now, spent>>
message     == <<balance, open, answered, switches>>
all         == <<service, rows, job, failures, polls, channelPoll, expired, message>>

Is(name) == service = name

ChannelPoll == INSTANCE ChannelPoll WITH Credits <- VoteCredits
ShowPoll    == INSTANCE ShowPoll
MessageSend == INSTANCE MessageSend WITH Credits <- MessageCredits

ASSUME ParticipationAssumption ==
    /\ ChannelPoll!CostAssumption /\ ChannelPoll!BoundsAssumption /\ ChannelPoll!FiniteAssumption
    /\ ShowPoll!BoundsAssumption /\ ShowPoll!FiniteAssumption
    /\ MessageSend!KeysAssumption /\ MessageSend!BoundsAssumption

-----------------------------------------------------------------------------
NoPoll        == poll = 0 /\ edits = 0
NoChannelPoll == now = 0 /\ spent = 0
NoMessage     == balance = 0 /\ open = 0 /\ answered = 0 /\ switches = 0

ParticipationInit ==
    \/ Is("channel poll") /\ ChannelPoll!Init /\ expired = 0 /\ NoMessage
    \/ Is("show poll")    /\ ShowPoll!Init /\ NoChannelPoll /\ NoMessage
    \/ Is("message")      /\ MessageSend!Init /\ NoPoll /\ NoChannelPoll /\ expired = 0

ChannelPollStep == Is("channel poll") /\ ChannelPoll!Next /\ UNCHANGED <<service, expired, message>>
ShowPollStep == Is("show poll") /\ ShowPoll!Next /\ UNCHANGED <<service, channelPoll, message>>
MessageStep == Is("message") /\ MessageSend!Next /\ UNCHANGED <<service, polls, channelPoll, expired>>

ParticipationNext == ChannelPollStep \/ ShowPollStep \/ MessageStep

ParticipationSpec == ParticipationInit /\ [][ParticipationNext]_all

-----------------------------------------------------------------------------
\* Both kinds of poll implement a Ballot: one vote per listener (in a category),
\* charged in the same step, counted at most once.
KeepsBallot ==
    /\ Is("channel poll") => ChannelPoll!AsBallot!Init
    /\ Is("show poll") => ShowPoll!AsBallot!Init
    /\ [][/\ Is("channel poll") =>
                [ChannelPoll!AsBallot!Next]_(ChannelPoll!AsBallot!vars)
          /\ Is("show poll") =>
                [ShowPoll!AsBallot!Next]_(ShowPoll!AsBallot!vars)]_all

\* One message and one credit for each clientMessageId.
SentOnce == Is("message") => MessageSend!SentOnce

\* A completed channel poll is opened again only by an administrator or by a reader who
\* computed its status before it ended.
OnlyLateReadersReopen == [][Is("channel poll") => ChannelPoll!LateReaderIfReopened]_all

-----------------------------------------------------------------------------
\* For TLC: listeners, options, categories and requests are interchangeable, and so are the
\* keys of messages, for which the configuration takes the listeners' values - the two never
\* meet.
Symmetry ==
    Permutations(Users) \cup Permutations(Options) \cup Permutations(Requests)
    \cup Permutations(Categories)
=============================================================================
