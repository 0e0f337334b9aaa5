------------------------------- MODULE Statuses -------------------------------
(* Views and likes of one status of a station. A view or a like is a row,     *)
(* unique per person; the status document carries a count of each. The view   *)
(* count is incremented after a new row, the like count is overwritten by a   *)
(* recount. The status is deleted by staff, with its rows, or by the TTL      *)
(* index, which leaves them.                                                  *)
EXTENDS Naturals, FiniteSets

CONSTANTS
    People,
    Requests,  \* views and likes being recorded
    MaxStops   \* bound: requests cut off between two of their steps

VARIABLES
    live,      \* the status document exists
    views,     \* people with a StatusView
    likes,     \* people with a StatusLike
    viewCount, \* fields of the status
    likeCount,
    job,       \* what each request does next
    deletion,  \* deletions the request of staff has yet to make
    uncounted, \* views whose request was cut off before it counted them
    stops

vars == <<live, views, likes, viewCount, likeCount, job, deletion, uncounted, stops>>

Number == 0 .. Cardinality(People)
Steps  == {"idle", "view", "countView", "like", "recount", "write"}
\* A request that has stored its row no longer says whose it is.
Jobs   == [step : Steps, who : SUBSET People, count : Number]
Idle   == [step |-> "idle", who |-> {}, count |-> 0]
Parts  == {"status", "views", "likes"}

TypeOK ==
    /\ live \in BOOLEAN
    /\ views \subseteq People /\ likes \subseteq People
    /\ viewCount \in Nat /\ likeCount \in Number
    /\ job \in [Requests -> Jobs]
    /\ deletion \subseteq Parts
    /\ uncounted \in Nat
    /\ stops \in 0 .. MaxStops

Init ==
    /\ live = TRUE
    /\ views = {} /\ likes = {}
    /\ viewCount = 0 /\ likeCount = 0
    /\ job = [r \in Requests |-> Idle]
    /\ deletion = {}
    /\ uncounted = 0
    /\ stops = 0

Goes(r, j) == job' = [job EXCEPT ![r] = j]
At(r, step) == job[r].step = step

-----------------------------------------------------------------------------
(* recordView                                                                 *)

RecordView(r, p) ==
    /\ At(r, "idle") /\ live
    /\ Goes(r, [Idle EXCEPT !.step = "view", !.who = {p}])
    /\ UNCHANGED <<live, views, likes, viewCount, likeCount, deletion, uncounted, stops>>

\* Not refused by the unique index (status, user).
NewView(p) == p \notin views

CreateView(r) ==
    /\ At(r, "view")
    /\ \E p \in job[r].who :
          /\ views' = views \union {p}
          /\ Goes(r, IF NewView(p) THEN [Idle EXCEPT !.step = "countView"] ELSE Idle)
    /\ UNCHANGED <<live, likes, viewCount, likeCount, deletion, uncounted, stops>>

\* $inc on the document, if it is still there.
IncrementViewCount(r) ==
    /\ At(r, "countView")
    /\ viewCount' = IF live THEN viewCount + 1 ELSE viewCount
    /\ Goes(r, Idle)
    /\ UNCHANGED <<live, views, likes, likeCount, deletion, uncounted, stops>>

-----------------------------------------------------------------------------
(* toggleLike: once liked, always liked                                       *)

ToggleLike(r, p) ==
    /\ At(r, "idle") /\ live
    /\ p \notin likes   \* else nothing is written
    /\ Goes(r, [Idle EXCEPT !.step = "like", !.who = {p}])
    /\ UNCHANGED <<live, views, likes, viewCount, likeCount, deletion, uncounted, stops>>

CreateLike(r) ==
    /\ At(r, "like")
    /\ likes' = likes \union job[r].who
    /\ Goes(r, [Idle EXCEPT !.step = "recount"])
    /\ UNCHANGED <<live, views, viewCount, likeCount, deletion, uncounted, stops>>

CountLikes(r) ==
    /\ At(r, "recount")
    /\ Goes(r, [Idle EXCEPT !.step = "write", !.count = Cardinality(likes)])
    /\ UNCHANGED <<live, views, likes, viewCount, likeCount, deletion, uncounted, stops>>

\* Mutant: the like of the request itself is counted once more.
OneMore(r) == IF live THEN (job[r].count + 1) % (Cardinality(People) + 1) ELSE likeCount

NewCount(r) == IF live THEN job[r].count ELSE likeCount

WriteCount(r) ==
    /\ At(r, "write")
    /\ likeCount' = NewCount(r)
    /\ Goes(r, Idle)
    /\ UNCHANGED <<live, views, likes, viewCount, deletion, uncounted, stops>>

-----------------------------------------------------------------------------
(* deleteStatus: three deletions sent together                                *)

DeleteStatus ==
    /\ live /\ deletion = {}
    /\ deletion' = Parts
    /\ UNCHANGED <<live, views, likes, viewCount, likeCount, job, uncounted, stops>>

DeletePart(part) ==
    /\ part \in deletion
    /\ deletion' = deletion \ {part}
    /\ live'  = (live /\ part # "status")
    /\ views' = IF part = "views" THEN {} ELSE views
    /\ likes' = IF part = "likes" THEN {} ELSE likes
    /\ UNCHANGED <<viewCount, likeCount, job, uncounted, stops>>

\* The TTL index removes the document when expiresAt has passed.
Expire ==
    /\ live
    /\ live' = FALSE
    /\ UNCHANGED <<views, likes, viewCount, likeCount, job, deletion, uncounted, stops>>

\* The process stops, or the next command fails.
Stop(r) ==
    /\ ~At(r, "idle") /\ stops < MaxStops
    /\ stops' = stops + 1
    /\ uncounted' = IF At(r, "countView") THEN uncounted + 1 ELSE uncounted
    /\ Goes(r, Idle)
    /\ UNCHANGED <<live, views, likes, viewCount, likeCount, deletion>>

Next ==
    \/ DeleteStatus \/ Expire
    \/ \E part \in Parts : DeletePart(part)
    \/ \E r \in Requests :
          \/ \E p \in People : RecordView(r, p) \/ ToggleLike(r, p)
          \/ CreateView(r) \/ IncrementViewCount(r)
          \/ CreateLike(r) \/ CountLikes(r) \/ WriteCount(r) \/ Stop(r)

Spec == Init /\ [][Next]_vars

-----------------------------------------------------------------------------
Untouched == live /\ deletion = {}
Counting  == Cardinality({r \in Requests : At(r, "countView")})

(* While the status is up and nobody deletes it, its view count is the people *)
(* who viewed it, short only of those being counted and of those a request    *)
(* cut off never counted; and it never shows more likes than people gave.     *)
CountsFollowRows ==
    Untouched => /\ viewCount + Counting + uncounted = Cardinality(views)
                 /\ likeCount <= Cardinality(likes)

(* "Exact distinct like count from StatusLike collection to prevent any       *)
(* counter drift": once every like is recorded, the count is exact.           *)
LikesDoNotDrift ==
    Untouched /\ stops = 0 /\ (\A r \in Requests : At(r, "idle"))
        => likeCount = Cardinality(likes)

-----------------------------------------------------------------------------
(* Why: what a request is about to write was counted, and rows only grow in   *)
(* number, unless a deletion takes the document with them.                    *)
Counters == {r \in Requests : At(r, "countView")}

ViewsAreCounted == Untouched => viewCount + Counting + uncounted = Cardinality(views)
LikesAreGiven ==
    Untouched => /\ likeCount <= Cardinality(likes)
                 /\ \A r \in Requests : At(r, "write") => job[r].count <= Cardinality(likes)

IInv ==
    /\ live \in BOOLEAN
    /\ IsFiniteSet(views) /\ IsFiniteSet(likes) /\ IsFiniteSet(Counters)
    /\ {viewCount, likeCount, uncounted} \subseteq Nat
    /\ job \in [Requests -> [step : Steps, who : SUBSET People, count : Nat]]
    /\ \A r \in Requests : IsFiniteSet(job[r].who)
    /\ deletion \subseteq Parts
    /\ live => deletion = {} \/ "status" \in deletion
    /\ ViewsAreCounted /\ LikesAreGiven
=============================================================================
