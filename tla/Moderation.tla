------------------------------ MODULE Moderation ------------------------------
(***************************************************************************)
(* One listener's message to a TV station on its way to the screen (the "TV   *)
(* approval flow" of src/src/module/message): moderators approve, reject and  *)
(* send to output; the listener may edit the text within a window or delete   *)
(* it for everyone; staff may delete it.  Each of them reads the message,     *)
(* decides, and writes its own fields by the message's id.                    *)
(***************************************************************************)
EXTENDS Integers

CONSTANTS
    Moderators,   \* requests of the station's staff in flight at once
    Author,       \* the listener's request
    MaxEdits      \* bound: edits of the text

AuthorAssumption == Author \notin Moderators
BoundsAssumption == MaxEdits \in Nat

VARIABLES
    msg,          \* the Message document; content is the number of the edit
    inWindow,     \* the message is no older than the edit window
    job,          \* what each request does next
    approved,     \* history: the contents a moderator approved, as they were read
    onScreen      \* history: the contents the message was sent to output with

vars == <<msg, inWindow, job, approved, onScreen>>

Statuses == {"pending", "approved", "rejected", "sent_to_output"}
People   == Moderators \cup {Author}

\* content: what a moderator who is about to approve has read.
Message == [status : Statuses, content : 0..MaxEdits, isDeleted : BOOLEAN, forEveryone : BOOLEAN]
Posted  == [status |-> "pending", content |-> 0, isDeleted |-> FALSE, forEveryone |-> FALSE]
Job     == [step : {"idle", "approve", "reject", "output", "delete", "edit", "withdraw"}, content : 0..MaxEdits]
Idle    == [step |-> "idle", content |-> 0]

TypeOK ==
    /\ msg      \in Message
    /\ inWindow \in BOOLEAN
    /\ job      \in [People -> Job]
    /\ approved \subseteq 0..MaxEdits
    /\ onScreen \subseteq 0..MaxEdits

Init ==
    /\ msg      = Posted
    /\ inWindow = TRUE
    /\ job      = [p \in People |-> Idle]
    /\ approved = {}
    /\ onScreen = {}

Goes(p, step) ==
    job' = [job EXCEPT ![p] = [step |-> step, content |-> IF step = "approve" THEN msg.content ELSE 0]]
Done(p) == job' = [job EXCEPT ![p] = Idle]

\* findMessageById finds what staff have not deleted.
Finds(p) == job[p].step = "idle" /\ ~msg.isDeleted

-----------------------------------------------------------------------------
(* Moderators                                                               *)

\* Mutant: any status but the wanted one will do.
AnyOther(from) == TRUE

\* "Only pending messages can be approved", and so on.
MayLeave(from) == msg.status = from

Decide(m, step, from) ==
    /\ Finds(m)
    /\ MayLeave(from)
    /\ Goes(m, step)
    /\ UNCHANGED <<msg, inWindow, approved, onScreen>>

StartApprove(m) == Decide(m, "approve", "pending")
StartReject(m)  == Decide(m, "reject", "pending")
StartOutput(m)  == Decide(m, "output", "approved")

ApproveMessage(m) ==
    /\ job[m].step = "approve"
    /\ msg' = [msg EXCEPT !.status = "approved"]
    /\ approved' = approved \cup {job[m].content}
    /\ Done(m)
    /\ UNCHANGED <<inWindow, onScreen>>

RejectMessage(m) ==
    /\ job[m].step = "reject"
    /\ msg' = [msg EXCEPT !.status = "rejected"]
    /\ Done(m)
    /\ UNCHANGED <<inWindow, approved, onScreen>>

\* The screen gets the message as the update returns it, and nothing of one that
\* was deleted for everyone.
SendToOutput(m) ==
    /\ job[m].step = "output"
    /\ msg' = [msg EXCEPT !.status = "sent_to_output"]
    /\ onScreen' = IF msg.forEveryone THEN onScreen ELSE onScreen \cup {msg.content}
    /\ Done(m)
    /\ UNCHANGED <<inWindow, approved>>

StartDelete(m) ==
    /\ Finds(m)
    /\ Goes(m, "delete")
    /\ UNCHANGED <<msg, inWindow, approved, onScreen>>

DeleteMessage(m) ==
    /\ job[m].step = "delete"
    /\ msg' = [msg EXCEPT !.isDeleted = TRUE]
    /\ Done(m)
    /\ UNCHANGED <<inWindow, approved, onScreen>>

-----------------------------------------------------------------------------
(* The listener                                                             *)

CanEditMessage == ~msg.forEveryone

\* A text, whatever its status.
StartEdit ==
    /\ Finds(Author)
    /\ CanEditMessage /\ inWindow
    /\ msg.content < MaxEdits
    /\ Goes(Author, "edit")
    /\ UNCHANGED <<msg, inWindow, approved, onScreen>>

EditMessage ==
    /\ job[Author].step = "edit"
    /\ msg' = [msg EXCEPT !.content = @ + 1]
    /\ Done(Author)
    /\ UNCHANGED <<inWindow, approved, onScreen>>

StartDeleteForEveryone ==
    /\ Finds(Author)
    /\ CanEditMessage
    /\ Goes(Author, "withdraw")
    /\ UNCHANGED <<msg, inWindow, approved, onScreen>>

DeleteMessageForEveryone ==
    /\ job[Author].step = "withdraw"
    /\ msg' = [msg EXCEPT !.forEveryone = TRUE]
    /\ Done(Author)
    /\ UNCHANGED <<inWindow, approved, onScreen>>

CloseWindow ==
    /\ inWindow
    /\ inWindow' = FALSE
    /\ UNCHANGED <<msg, job, approved, onScreen>>

-----------------------------------------------------------------------------
Next ==
    \/ CloseWindow
    \/ StartEdit \/ EditMessage
    \/ StartDeleteForEveryone \/ DeleteMessageForEveryone
    \/ \E m \in Moderators :
          \/ StartApprove(m) \/ ApproveMessage(m)
          \/ StartReject(m)  \/ RejectMessage(m)
          \/ StartOutput(m)  \/ SendToOutput(m)
          \/ StartDelete(m)  \/ DeleteMessage(m)

Spec == Init /\ [][Next]_vars

-----------------------------------------------------------------------------
\* What reaches the screen is what a moderator approved, or an edit the listener
\* made after the moderator had read it, which nothing prevents within the window
\* (approveMessage and sendToOutput do not look at the content, nor editMessage
\* at the status).
ScreenShowsApproved ==
    \A c \in onScreen : \E d \in approved : d <= c

\* Moderators who disagree about a message do not go on for ever: a decision is
\* undone only by those who read the message before it, so in the end one of
\* them stands ("Only pending messages can be approved" and its like).
DecisionsSettle == \E s \in Statuses : <>[](msg.status = s)

-----------------------------------------------------------------------------
\* Why: a decision to approve is about a text there was, and a message that is approved, or
\* about to be sent to output, has one that was approved before the text it has now.
IInv ==
    /\ msg \in [status : Statuses, content : Nat, isDeleted : BOOLEAN, forEveryone : BOOLEAN]
    /\ job \in [People -> [step : {"idle", "approve", "reject", "output", "delete", "edit", "withdraw"}, content : Nat]]
    /\ approved \subseteq Nat /\ onScreen \subseteq Nat
    /\ \A p \in People : job[p].step = "approve" => job[p].content <= msg.content
    /\ msg.status = "approved" \/ (\E p \in People : job[p].step = "output")
          => \E d \in approved : d <= msg.content
    /\ ScreenShowsApproved
=============================================================================
