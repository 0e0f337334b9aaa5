-------------------------------- MODULE Ballot --------------------------------
(***************************************************************************)
(* What a poll promises to its voters: a voter has at most one vote (for a    *)
(* channel poll, one in each category), every accepted vote is charged once,  *)
(* together with it, and is counted at most once.  The total can lag behind   *)
(* the votes, and stays behind when the count of one is lost.  ChannelPoll    *)
(* and ShowPoll implement it.                                                 *)
(***************************************************************************)
EXTENDS Naturals

CONSTANTS
    Voters,     \* who votes once: a listener, or a listener in a category
    Price       \* what a vote costs

PriceAssumption == Price \in Nat

VARIABLES
    votes,      \* how many votes each voter has
    uncounted,  \* accepted votes the total does not have yet, and may never have
    total,      \* the total shown with the poll
    charged     \* credits charged for votes

vars == <<votes, uncounted, total, charged>>

Init ==
    /\ votes     = [v \in Voters |-> 0]
    /\ uncounted = 0
    /\ total     = 0
    /\ charged   = 0

Vote(v) ==
    /\ votes[v] = 0
    /\ votes'     = [votes EXCEPT ![v] = 1]
    /\ uncounted' = uncounted + 1
    /\ charged'   = charged + Price
    /\ UNCHANGED total

Count ==
    /\ uncounted > 0
    /\ uncounted' = uncounted - 1
    /\ total' = total + 1
    /\ UNCHANGED <<votes, charged>>

LoseCount ==
    /\ uncounted > 0
    /\ uncounted' = uncounted - 1
    /\ UNCHANGED <<votes, total, charged>>

\* The poll is deleted, and its votes with it; nobody gets the price back.
Discard ==
    /\ votes' = [v \in Voters |-> 0]
    /\ UNCHANGED <<uncounted, total, charged>>

Next ==
    \/ \E v \in Voters : Vote(v)
    \/ Count \/ LoseCount \/ Discard

Spec == Init /\ [][Next]_vars
=============================================================================
