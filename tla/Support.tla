------------------------------ MODULE Support ------------------------------
(* Support tickets of one listener: opening, claiming, answering and closing. *)
(* Every handler reads the ticket first and writes it later, by its id alone. *)
EXTENDS Naturals, FiniteSets

CONSTANTS
    Tickets,     \* ticket documents
    Agents,      \* customer care agents; each has one request under way at most
    Devices,     \* of the listener; each has one request under way at most
    None,
    MaxMessages  \* bound on the messages of a ticket, and of any two together

SupportAssumption == MaxMessages \in Nat /\ None \notin Tickets \union Agents

VARIABLES
    ticket,   \* the ticket documents, with the number of their messages
    request,  \* what each agent or device does, and what it read of the ticket
    mixed     \* tickets two messages were sent to at the same time

vars == <<ticket, request, mixed>>

Actors == Agents \union Devices
\* added: history, the listener added to the ticket after the last message of the chat.
Absent == [status |-> "NONE", agent |-> None, unreadAgent |-> 0, unreadUser |-> 0, messages |-> 0, answers |-> 0,
           added |-> FALSE]
Idle == [op |-> "idle", of |-> None, seen |-> [status |-> "NONE", unreadAgent |-> 0, unreadUser |-> 0]]

Docs == [status : {"NONE", "OPEN", "ASSIGNED", "CLOSED"}, agent : Agents \union {None},
         unreadAgent : 0 .. MaxMessages, unreadUser : 0 .. MaxMessages,
         messages : 0 .. MaxMessages, answers : 0 .. MaxMessages, added : BOOLEAN]

TypeOK ==
    /\ ticket \in [Tickets -> Docs]
    /\ \A x \in Actors :
        /\ request[x].op \in {"idle", "open", "claim", "close", "send", "count"}
        /\ request[x].of \in Tickets \union {None}
        /\ request[x].seen \in [status : {"NONE", "OPEN", "ASSIGNED"},
                                 unreadAgent : 0 .. MaxMessages, unreadUser : 0 .. MaxMessages]
    /\ mixed \subseteq Tickets

Init ==
    /\ ticket = [t \in Tickets |-> Absent]
    /\ request = [x \in Actors |-> Idle]
    /\ mixed = {}

Active(t) == ticket[t].status \in {"OPEN", "ASSIGNED"}
Set(x, op, t) ==
    request' = [request EXCEPT ![x] = [op |-> op, of |-> t, seen |->
        [status |-> ticket[t].status,
         unreadAgent |-> IF op = "send" THEN ticket[t].unreadAgent ELSE 0,
         unreadUser |-> IF op = "send" THEN ticket[t].unreadUser ELSE 0]]]
Done(x) == request' = [request EXCEPT ![x] = Idle]
\* The bound.
Room(t) ==
    /\ ticket[t].messages < MaxMessages
    /\ \A o \in Tickets \ {t} : ticket[t].messages + ticket[o].messages < MaxMessages
Counting(t) == {x \in Actors : request[x].op \in {"send", "count"} /\ request[x].of = t}

-----------------------------------------------------------------------------
(* createConversation: a listener with an active ticket adds to it, another   *)
(* gets a new one. Its counter is incremented, and only then is the message   *)
(* stored; the two writes are one step here, as nobody reads both.            *)

NoActive(d) ==
    /\ request[d] = Idle
    /\ \A t \in Tickets : ~ Active(t)
    /\ request' = [request EXCEPT ![d].op = "open"]
    /\ UNCHANGED <<ticket, mixed>>

CreateTicket(d, t) ==
    /\ request[d].op = "open"
    /\ ticket[t] = Absent
    /\ Room(t)
    /\ ticket' = [ticket EXCEPT ![t] = [@ EXCEPT !.status = "OPEN", !.unreadAgent = 1, !.messages = 1]]
    /\ Done(d)
    /\ UNCHANGED mixed

AddToActive(d, t) ==
    /\ request[d] = Idle
    /\ Active(t)
    /\ Room(t)
    /\ ticket' = [ticket EXCEPT ![t].unreadAgent = @ + 1, ![t].messages = @ + 1, ![t].added = TRUE]
    /\ mixed' = IF Counting(t) # {} THEN mixed \union {t} ELSE mixed
    /\ UNCHANGED request

(* claimTicket: refused unless the ticket is open when it is read.            *)

\* a bug: an assigned ticket can be taken over
ClaimableActive(t) == Active(t)
Claimable(t) == ticket[t].status = "OPEN"

StartClaim(a, t) ==
    /\ request[a] = Idle
    /\ Claimable(t)
    /\ Set(a, "claim", t)
    /\ UNCHANGED <<ticket, mixed>>

Claim(a) ==
    /\ request[a].op = "claim"
    /\ ticket' = [ticket EXCEPT ![request[a].of] = [@ EXCEPT !.status = "ASSIGNED", !.agent = a]]
    /\ Done(a)
    /\ UNCHANGED mixed

(* assertConversationAccess: the listener's own tickets, an agent's queue and *)
(* tickets. A super administrator, who may work on every ticket, is left out. *)
Accessible(x, t) ==
    x \in Devices \/ ticket[t].status = "OPEN" \/ ticket[t].agent = x

StartClose(x, t) ==
    /\ request[x] = Idle
    /\ Accessible(x, t)
    /\ Active(t)
    /\ Set(x, "close", t)
    /\ UNCHANGED <<ticket, mixed>>

Close(x) ==
    /\ request[x].op = "close"
    /\ ticket' = [ticket EXCEPT ![request[x].of].status = "CLOSED"]
    /\ Done(x)
    /\ UNCHANGED mixed

(* sendMessage: reads the ticket, stores the message, then writes counters    *)
(* computed from what it read.                                                *)

StartSend(x, t) ==
    /\ request[x] = Idle
    /\ Accessible(x, t)
    /\ Active(t)
    /\ Set(x, "send", t)
    /\ mixed' = IF Counting(t) # {} THEN mixed \union {t} ELSE mixed
    /\ UNCHANGED ticket

StoreMessage(x) ==
    LET t == request[x].of IN
    /\ request[x].op = "send"
    /\ Room(t)
    /\ ticket' = [ticket EXCEPT ![t].messages = @ + 1]
    /\ request' = [request EXCEPT ![x].op = "count"]
    /\ UNCHANGED mixed

\* a bug: an answer leaves the messages it answers unread
CountedKeeping(x, t) ==
    LET seen == request[x].seen IN
    IF x \in Agents
        THEN [ticket[t] EXCEPT !.unreadUser = seen.unreadUser + 1, !.answers = @ + 1, !.added = FALSE]
        ELSE [ticket[t] EXCEPT !.unreadAgent = seen.unreadAgent + 1, !.unreadUser = 0, !.added = FALSE]

Counted(x, t) ==
    LET seen == request[x].seen IN
    IF x \in Agents
        THEN [ticket[t] EXCEPT !.unreadUser = seen.unreadUser + 1, !.unreadAgent = 0, !.answers = @ + 1,
                                !.added = FALSE]
        ELSE [ticket[t] EXCEPT !.unreadAgent = seen.unreadAgent + 1, !.unreadUser = 0, !.added = FALSE]

Count(x) ==
    /\ request[x].op = "count"
    /\ ticket' = [ticket EXCEPT ![request[x].of] = Counted(x, request[x].of)]
    /\ Done(x)
    /\ UNCHANGED mixed

Next ==
    \/ \E d \in Devices : NoActive(d) \/ (\E t \in Tickets : CreateTicket(d, t) \/ AddToActive(d, t))
    \/ \E a \in Agents : (\E t \in Tickets : StartClaim(a, t)) \/ Claim(a)
    \/ \E x \in Actors :
        \/ \E t \in Tickets : StartClose(x, t) \/ StartSend(x, t)
        \/ Close(x) \/ StoreMessage(x) \/ Count(x)

Spec == Init /\ [][Next]_vars

-----------------------------------------------------------------------------
LateClaim(t) == \E a \in Agents : Claim(a) /\ request[a].of = t /\ request[a].seen.status = "OPEN"

(* An assigned ticket keeps its agent until it is closed, and a closed one    *)
(* stays closed, but for a claim that read the ticket while it was open       *)
(* (claimTicket writes by id alone; closeTicket).                             *)
LateClaimIfTakenOver ==
    \A t \in Tickets :
        /\ ticket[t].status = "CLOSED" /\ ticket'[t].status # "CLOSED" => LateClaim(t)
        /\ ticket[t].status = "ASSIGNED" /\ ticket'[t].agent # ticket[t].agent => LateClaim(t)

OnlyLateClaimsTakeOver == [][LateClaimIfTakenOver]_vars

(* What is unread is never more than was sent, and one side only has unread   *)
(* messages, unless the listener added to the ticket since (createConversation *)
(* leaves the answers unread), or two messages were under way at once          *)
(* (sendMessage).                                                             *)
UnreadAreSent ==
    \A t \in Tickets \ mixed :
        Counting(t) = {} =>
            /\ ticket[t].unreadUser <= ticket[t].answers
            /\ ticket[t].unreadAgent <= ticket[t].messages - ticket[t].answers
            /\ ticket[t].unreadUser = 0 \/ ticket[t].unreadAgent = 0 \/ ticket[t].added

-----------------------------------------------------------------------------
(* Why: a claim has read an open ticket, and who is alone in sending knows     *)
(* the ticket's counters.                                                     *)
\* A message that was stored and is yet to be counted.
Stored(t) == IF \E x \in Counting(t) : request[x].op = "count" THEN 1 ELSE 0

SendersAreAlone ==
    \A t \in Tickets \ mixed :
        /\ \A x, y \in Counting(t) : x = y
        /\ \A x \in Counting(t) : /\ request[x].seen.unreadUser = ticket[t].unreadUser
                                  /\ request[x].seen.unreadAgent = ticket[t].unreadAgent
        /\ ticket[t].unreadUser <= ticket[t].answers
        /\ ticket[t].unreadAgent + ticket[t].answers + Stored(t) <= ticket[t].messages
        /\ ticket[t].unreadUser = 0 \/ ticket[t].unreadAgent = 0 \/ ticket[t].added

\* A request is about a ticket there is, and a claim read it while it was open.
RequestsAreOfTickets ==
    /\ ticket \in [Tickets -> [status : {"NONE", "OPEN", "ASSIGNED", "CLOSED"}, agent : Agents \union {None},
                               unreadAgent : Nat, unreadUser : Nat, messages : Nat, answers : Nat, added : BOOLEAN]]
    /\ request \in [Actors -> [op : {"idle", "open", "claim", "close", "send", "count"},
                               of : Tickets \union {None},
                               seen : [status : {"NONE", "OPEN", "ASSIGNED"}, unreadAgent : Nat, unreadUser : Nat]]]
    /\ \A x \in Actors :
          /\ request[x].op \in {"claim", "close", "send", "count"} =>
                request[x].of \in Tickets /\ ticket[request[x].of].status # "NONE"
          /\ request[x].op = "claim" => request[x].seen.status = "OPEN"

IInv == RequestsAreOfTickets /\ SendersAreAlone
=============================================================================
