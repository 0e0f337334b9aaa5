----------------------------- MODULE WeeklyPosts -----------------------------
(* The posts that congratulate a station's top fans of a week: the scheduler, *)
(* every 15 minutes around the chosen time and at each start, and an          *)
(* administrator's button each look whether the week has a post, rank the     *)
(* fans by what they spent, and insert one post per rank, best first. The     *)
(* fans go on spending meanwhile. A unique index holds one post per rank.     *)
(* A week is known by the day it starts on, which a run works out from the    *)
(* weekday where the station is and the date in UTC: while these are of two   *)
(* days it is a day off, so that one week may have posts of two starts.       *)
EXTENDS Naturals, Sequences, FiniteSets

CONSTANTS
    Runs,      \* runs of the scheduler and of the button
    Weeks,     \* what getWeekStart gives of one week
    Fans,
    None,      \* no fan, no week
    MaxRemoved \* bound: posts deleted or expired while their week's runs go on

FansAssumption == None \notin Fans /\ IsFiniteSet(Fans)

VARIABLES
    post,     \* under each start of the week, the fan of the post of each rank
    ranking,  \* the fans by what they have spent from each start on
    run,      \* what each run holds and does next
    removed   \* posts that were removed

vars == <<post, ranking, run, removed>>

Ranks == 1 .. Cardinality(Fans)

\* Every ranking of some of the fans.
Rankings == UNION {{f \in [1 .. n -> Fans] : \A i, j \in 1 .. n : f[i] = f[j] => i = j} : n \in 0 .. Cardinality(Fans)}
Idle == [step |-> "idle", week |-> None, fans |-> <<>>, next |-> 1]
RunState == [step : {"idle", "rank", "insert"}, week : Weeks \cup {None}, fans : Rankings,
             next : 1 .. Cardinality(Fans) + 1]

TypeOK ==
    /\ post \in [Weeks -> [Ranks -> Fans \union {None}]]
    /\ ranking \in [Weeks -> Rankings]
    /\ run \in [Runs -> RunState]
    /\ removed \in 0 .. MaxRemoved

Init ==
    /\ post = [w \in Weeks |-> [k \in Ranks |-> None]]
    /\ ranking = [w \in Weeks |-> <<>>]
    /\ run = [r \in Runs |-> Idle]
    /\ removed = 0

Goes(r, j) == run' = [run EXCEPT ![r] = j]

\* A fan spends: he enters the ranking, or passes the fan before him. The days of two
\* starts are not the same, so neither need be the rankings.
Spend(w) ==
    LET fans == ranking[w] IN
    /\ \/ \E f \in Fans : /\ \A k \in DOMAIN fans : fans[k] # f
                          /\ ranking' = [ranking EXCEPT ![w] = Append(fans, f)]
       \/ \E k \in DOMAIN fans \ {1} :
             ranking' = [ranking EXCEPT ![w] = [fans EXCEPT ![k] = fans[k - 1], ![k - 1] = fans[k]]]
    /\ UNCHANGED <<post, run, removed>>

\* findByStationAndWeek: a post of any rank.
Posted(w) == \E k \in Ranks : post[w][k] # None

\* getWeekStart
Look(r) ==
    /\ run[r].step = "idle"
    /\ \E w \in Weeks : ~Posted(w) /\ Goes(r, [Idle EXCEPT !.step = "rank", !.week = w])
    /\ UNCHANGED <<post, ranking, removed>>

\* calculateTopFans; without any fan the run is over.
Rank(r) ==
    LET fans == ranking[run[r].week] IN
    /\ run[r].step = "rank"
    /\ Goes(r, IF fans = <<>> THEN Idle ELSE [run[r] EXCEPT !.step = "insert", !.fans = fans])
    /\ UNCHANGED <<post, ranking, removed>>

\* Mutant: the inserts go on after a duplicate.
GoesOn(j) == [j EXCEPT !.next = @ + 1]

\* insertMany is ordered: the first duplicate ends it, and counts as handled.
OnDuplicate(j) == Idle

Insert(r) ==
    LET j == run[r] IN
    /\ j.step = "insert" /\ j.next <= Len(j.fans)
    /\ IF post[j.week][j.next] = None
       THEN /\ post' = [post EXCEPT ![j.week][j.next] = j.fans[j.next]]
            /\ Goes(r, [j EXCEPT !.next = @ + 1])
       ELSE /\ Goes(r, OnDuplicate(j))
            /\ UNCHANGED post
    /\ UNCHANGED <<ranking, removed>>

Done(r) ==
    /\ run[r].step = "insert" /\ run[r].next > Len(run[r].fans)
    /\ Goes(r, Idle)
    /\ UNCHANGED <<post, ranking, removed>>

\* An insert fails, or the process stops: the posts made so far stay.
Cut(r) ==
    /\ run[r].step = "insert"
    /\ Goes(r, Idle)
    /\ UNCHANGED <<post, ranking, removed>>

\* An administrator deletes a post, or it expires before its week is over.
Remove ==
    /\ removed < MaxRemoved
    /\ removed' = removed + 1
    /\ \E w \in Weeks, k \in Ranks : post[w][k] # None /\ post' = [post EXCEPT ![w][k] = None]
    /\ UNCHANGED <<ranking, run>>

Next ==
    \/ \E w \in Weeks : Spend(w)
    \/ Remove
    \/ \E r \in Runs : Look(r) \/ Rank(r) \/ Insert(r) \/ Done(r) \/ Cut(r)

Spec == Init /\ [][Next]_vars

-----------------------------------------------------------------------------
(* However the runs overlap and the fans overtake one another, the posts of a *)
(* week under one of its starts are those of one ranking: no fan is           *)
(* congratulated on two ranks, and none is missing below a rank that is       *)
(* there. It holds because the inserts are in the order of the ranks, and     *)
(* only until a post is removed.                                              *)
OneRanking ==
    removed = 0 => \A w \in Weeks :
        /\ \A k, m \in Ranks : post[w][k] = post[w][m] /\ post[w][k] # None => k = m
        /\ \A k \in Ranks \ {1} : post[w][k] # None => post[w][k - 1] # None

-----------------------------------------------------------------------------
(* Why: whoever has inserted the first post inserts the others, as everybody   *)
(* else begins with a duplicate.                                               *)
Distinct(fans) == \A i, j \in DOMAIN fans : fans[i] = fans[j] => i = j

\* Below a post there is another, down to the first.
PostsAreInOrder ==
    removed = 0 => \A w \in Weeks :
        \A k, m \in Ranks : m < k /\ post[w][k] # None => post[w][m] # None

\* A run that has inserted a post has inserted all there are.
Inserts(r, w) == run[r].step = "insert" /\ run[r].next > 1 /\ run[r].week = w
OneRunInserts ==
    removed = 0 => \A w \in Weeks :
        /\ \A r \in Runs : Inserts(r, w) =>
              \A k \in Ranks : post[w][k] = IF k < run[r].next THEN run[r].fans[k] ELSE None
        /\ \A r, q \in Runs : Inserts(r, w) /\ Inserts(q, w) => r = q

IInv ==
    /\ post \in [Weeks -> [Ranks -> Fans \union {None}]]
    /\ ranking \in [Weeks -> Seq(Fans)] /\ \A w \in Weeks : Distinct(ranking[w])
    /\ run \in [Runs -> [step : {"idle", "rank", "insert"}, week : Weeks \cup {None},
                         fans : Seq(Fans), next : Nat \ {0}]]
    /\ \A r \in Runs : /\ Distinct(run[r].fans)
                       /\ run[r].step = "insert" => run[r].next <= Len(run[r].fans) + 1
                       /\ run[r].step # "idle" => run[r].week \in Weeks
                       /\ run[r].step = "rank" => run[r].next = 1
    /\ removed \in Nat
    /\ PostsAreInOrder /\ OneRunInserts /\ OneRanking
=============================================================================
