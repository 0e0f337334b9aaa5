------------------------------- MODULE ReadCache -------------------------------
(* The cached balance of a listener: read from Redis, else from the database  *)
(* and then stored for TTL seconds. Writers delete the entry: before their    *)
(* transaction commits where the deletion is part of it, after it elsewhere.  *)
(* A Redis command that fails is ignored, a restart of the process loses no   *)
(* entry. cacheService.getOrSet, which caches other reads, has the same form. *)
EXTENDS Naturals

CONSTANTS
    Readers,
    Writers,
    TTL,        \* ticks an entry lives
    MaxWrites   \* bound: changes of the balance

VARIABLES
    balance,  \* committed; counted up with every change, so that no two are equal
    entry,    \* the cached value and the ticks it has left
    reader,   \* the value each read took from the database and has yet to store
    writer,   \* what each change of the balance does next
    redis     \* Redis answers

vars == <<balance, entry, reader, writer, redis>>

Gone == [value |-> 0, left |-> 0]   \* left = 0: there is no entry
Idle == [step |-> "idle", value |-> 0]

TypeOK ==
    /\ balance \in 0 .. MaxWrites
    /\ entry \in [value : 0 .. MaxWrites, left : 0 .. TTL]
    /\ reader \in [Readers -> [step : {"idle", "store"}, value : 0 .. MaxWrites]]
    /\ writer \in [Writers -> {"idle", "drop", "commit", "commitLast", "dropLast"}]
    /\ redis \in BOOLEAN

Init ==
    /\ balance = 0
    /\ entry = Gone
    /\ reader = [r \in Readers |-> Idle]
    /\ writer = [w \in Writers |-> "idle"]
    /\ redis = TRUE

Cached == entry.left > 0

\* Mutant: a hit prolongs the entry.
Prolonged == [entry EXCEPT !.left = TTL]

\* A hit leaves the entry as it is.
AfterHit == entry

Hit ==
    /\ redis /\ Cached
    /\ entry' = AfterHit
    /\ UNCHANGED <<balance, reader, writer, redis>>

\* A miss, or a Redis that does not answer.
Miss(r) ==
    /\ reader[r].step = "idle"
    /\ ~(redis /\ Cached)
    /\ reader' = [reader EXCEPT ![r] = [step |-> "store", value |-> balance]]
    /\ UNCHANGED <<balance, entry, writer, redis>>

Store(r) ==
    /\ reader[r].step = "store"
    /\ entry' = IF redis THEN [value |-> reader[r].value, left |-> TTL] ELSE entry
    /\ reader' = [reader EXCEPT ![r] = Idle]
    /\ UNCHANGED <<balance, writer, redis>>

-----------------------------------------------------------------------------
\* deductCredits and the rewards given inside a caller's transaction delete
\* the entry before that transaction commits, and nothing deletes it again.
\* Completed payments, refunds and deductions by an admin commit first.
StartWrite(w) ==
    /\ writer[w] = "idle" /\ balance < MaxWrites
    /\ \E first \in {"drop", "commit"} : writer' = [writer EXCEPT ![w] = first]
    /\ UNCHANGED <<balance, entry, reader, redis>>

\* A deletion that fails is caught: the entry stays.
Drops == entry' = IF redis THEN Gone ELSE entry

DropThenCommit(w) ==
    /\ writer[w] = "drop"
    /\ Drops
    /\ writer' = [writer EXCEPT ![w] = "commitLast"]
    /\ UNCHANGED <<balance, reader, redis>>

CommitThenDrop(w) ==
    /\ writer[w] = "commit" /\ balance < MaxWrites
    /\ balance' = balance + 1
    /\ writer' = [writer EXCEPT ![w] = "dropLast"]
    /\ UNCHANGED <<entry, reader, redis>>

CommitLast(w) ==
    /\ writer[w] = "commitLast" /\ balance < MaxWrites
    /\ balance' = balance + 1
    /\ writer' = [writer EXCEPT ![w] = "idle"]
    /\ UNCHANGED <<entry, reader, redis>>

DropLast(w) ==
    /\ writer[w] = "dropLast"
    /\ Drops
    /\ writer' = [writer EXCEPT ![w] = "idle"]
    /\ UNCHANGED <<balance, reader, redis>>

-----------------------------------------------------------------------------
\* Redis counts the seconds itself, whether or not the process reaches it.
Tick ==
    /\ Cached
    /\ entry' = IF entry.left = 1 THEN Gone ELSE [entry EXCEPT !.left = entry.left - 1]
    /\ UNCHANGED <<balance, reader, writer, redis>>

Redis ==
    /\ redis' = ~redis
    /\ UNCHANGED <<balance, entry, reader, writer>>

Next ==
    \/ Hit \/ Tick \/ Redis
    \/ \E r \in Readers : Miss(r) \/ Store(r)
    \/ \E w \in Writers :
          \/ StartWrite(w)
          \/ DropThenCommit(w) \/ CommitLast(w)
          \/ CommitThenDrop(w) \/ DropLast(w)

Spec == Init /\ [][Next]_vars

\* Time passes; a read or a change of the balance may stop anywhere.
FairSpec == Spec /\ WF_vars(Tick)

-----------------------------------------------------------------------------
Stale == Cached /\ entry.value # balance

\* Once the balance has changed for the last time (MaxWrites changes, or fewer),
\* what is shown becomes the balance for good: an entry stored before a change,
\* or between the deletion and the commit, expires however often it is read.
\* invalidateBalanceCache before the commit, set(cacheKey, balance, 20).
ShownBalanceSettles == <>[]~Stale
=============================================================================
