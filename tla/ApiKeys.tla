------------------------------- MODULE ApiKeys -------------------------------
(* The keys with which a station's displays fetch messages for the screen.    *)
(* Keys are created, replaced and deactivated by administrators, and all of   *)
(* them are deactivated with the station. A fetch that was answered is logged *)
(* and counted on its key, by a read and a write that nobody waits for.       *)
EXTENDS Naturals, FiniteSets

CONSTANTS
    Keys,      \* key documents, each created once
    Admins,    \* requests that replace a key
    Displays,  \* fetches under way
    None,
    MaxHits    \* bound: fetches answered under each key

KeysAssumption == None \notin Keys

VARIABLES
    key,       \* "none" before it is created, then "active" or "inactive"
    before,    \* regeneratedFrom
    hits,      \* totalHits
    served,    \* fetches answered under a key
    open,      \* the station is active
    closing,   \* the station's deactivation has yet to reach its keys
    spared,    \* keys a deactivation of the station missed: made since it, or it failed
    admin,     \* the key each request is replacing
    display    \* the key of each fetch, and the count it read

vars == <<key, before, hits, served, open, closing, spared, admin, display>>

Idle == [step |-> "idle", key |-> None, count |-> 0]
Fetch == [step : {"idle", "answered", "write"}, key : Keys \union {None}, count : 0 .. MaxHits]

TypeOK ==
    /\ key \in [Keys -> {"none", "active", "inactive"}]
    /\ before \in [Keys -> Keys \union {None}]
    /\ hits \in [Keys -> Nat]
    /\ served \in [Keys -> 0 .. MaxHits]
    /\ open \in BOOLEAN /\ closing \in BOOLEAN
    /\ spared \subseteq Keys
    /\ admin \in [Admins -> Keys \union {None}]
    /\ display \in [Displays -> Fetch]

Init ==
    /\ key = [k \in Keys |-> "none"]
    /\ before = [k \in Keys |-> None]
    /\ hits = [k \in Keys |-> 0]
    /\ served = [k \in Keys |-> 0]
    /\ open = TRUE /\ closing = FALSE
    /\ spared = {}
    /\ admin = [a \in Admins |-> None]
    /\ display = [d \in Displays |-> Idle]

Active == {k \in Keys : key[k] = "active"}

-----------------------------------------------------------------------------
(* Keys                                                                       *)

\* A new key; neither request looks whether the station is active.
Creates(k, from) ==
    /\ key[k] = "none"
    /\ key' = [key EXCEPT ![k] = "active"]
    /\ before' = [before EXCEPT ![k] = from]
    /\ spared' = IF open THEN spared ELSE spared \union {k}

CreateKey ==
    /\ \E k \in Keys : Creates(k, None)
    /\ UNCHANGED <<hits, served, open, closing, admin, display>>

Deactivated(k) == [key EXCEPT ![k] = "inactive"]

\* regenerateKey: the old key, which may be inactive already, is deactivated ...
StartRegenerate(a) ==
    /\ admin[a] = None
    /\ \E k \in Keys : /\ key[k] # "none"
                       /\ key' = Deactivated(k)
                       /\ admin' = [admin EXCEPT ![a] = k]
    /\ UNCHANGED <<before, hits, served, open, closing, spared, display>>

\* ... and its replacement created.
FinishRegenerate(a) ==
    /\ admin[a] # None
    /\ \E k \in Keys : Creates(k, admin[a])
    /\ admin' = [admin EXCEPT ![a] = None]
    /\ UNCHANGED <<hits, served, open, closing, display>>

DeactivateKey(k) ==
    /\ key[k] # "none"
    /\ key' = [key EXCEPT ![k] = "inactive"]
    /\ UNCHANGED <<before, hits, served, open, closing, spared, admin, display>>

\* deactivateStation: isActive first, then the keys, best effort.
DeactivateStation ==
    /\ open' = FALSE /\ closing' = TRUE
    /\ UNCHANGED <<key, before, hits, served, spared, admin, display>>

DeactivateByStation ==
    /\ closing
    /\ closing' = FALSE
    /\ \/ /\ key' = [k \in Keys |-> IF k \in Active THEN "inactive" ELSE key[k]]
          /\ UNCHANGED spared
       \/ spared' = spared \union Active /\ UNCHANGED key
    /\ UNCHANGED <<before, hits, served, open, admin, display>>

\* reactivateStation leaves the keys as they are; deactivations do not overlap it.
ReactivateStation ==
    /\ ~open /\ ~closing
    /\ open' = TRUE
    /\ spared' = {}
    /\ UNCHANGED <<key, before, hits, served, closing, admin, display>>

-----------------------------------------------------------------------------
(* Fetches                                                                    *)

GetMessagesForOutput(d) ==
    /\ display[d].step = "idle"
    /\ \E k \in Active :
          /\ served[k] < MaxHits
          /\ served' = [served EXCEPT ![k] = @ + 1]
          /\ display' = [display EXCEPT ![d] = [step |-> "answered", key |-> k, count |-> 0]]
    /\ UNCHANGED <<key, before, hits, open, closing, spared, admin>>

ReadHits(d) ==
    /\ display[d].step = "answered"
    /\ display' = [display EXCEPT ![d].step = "write", ![d].count = hits[display[d].key]]
    /\ UNCHANGED <<key, before, hits, served, open, closing, spared, admin>>

NewTotal(n) == n + 1

\* An error is ignored.
WriteHits(d) ==
    /\ display[d].step = "write"
    /\ \/ hits' = [hits EXCEPT ![display[d].key] = NewTotal(display[d].count)]
       \/ UNCHANGED hits
    /\ display' = [display EXCEPT ![d] = Idle]
    /\ UNCHANGED <<key, before, served, open, closing, spared, admin>>

Next ==
    \/ CreateKey \/ DeactivateStation \/ DeactivateByStation \/ ReactivateStation
    \/ \E k \in Keys : DeactivateKey(k)
    \/ \E a \in Admins : StartRegenerate(a) \/ FinishRegenerate(a)
    \/ \E d \in Displays : GetMessagesForOutput(d) \/ ReadHits(d) \/ WriteHits(d)

Spec == Init /\ [][Next]_vars

-----------------------------------------------------------------------------
(* A key that was replaced answers nobody, a closed station's keys answer     *)
(* nobody unless they were made since it closed or its deactivation failed on *)
(* them, and no key shows more fetches than it answered, whatever requests    *)
(* and fetches overlap.                                                       *)
KeysAnswerFor ==
    /\ \A k \in Keys : before[k] # None => key[before[k]] = "inactive"
    /\ ~open /\ ~closing => Active \subseteq spared
    /\ \A k \in Keys : hits[k] <= served[k]

-----------------------------------------------------------------------------
(* Why: a key being replaced is inactive, and what is left to count under a   *)
(* key, and was counted when a fetch read the total, was answered under it.   *)
ReplacedAreInactive ==
    /\ \A k \in Keys : before[k] # None => key[before[k]] = "inactive"
    /\ \A a \in Admins : admin[a] # None => key[admin[a]] = "inactive"

Uncounted(k) == {d \in Displays : display[d].step # "idle" /\ display[d].key = k}

HitsWereServed ==
    \A k \in Keys :
        /\ IsFiniteSet(Uncounted(k))
        /\ hits[k] + Cardinality(Uncounted(k)) <= served[k]
        /\ \A d \in Uncounted(k) :
              display[d].step = "write" => display[d].count + Cardinality(Uncounted(k)) <= served[k]

IInv ==
    /\ key \in [Keys -> {"none", "active", "inactive"}]
    /\ before \in [Keys -> Keys \union {None}]
    /\ hits \in [Keys -> Nat] /\ served \in [Keys -> Nat]
    /\ admin \in [Admins -> Keys \union {None}]
    /\ display \in [Displays -> [step : {"idle", "answered", "write"}, key : Keys \union {None}, count : Nat]]
    /\ \A d \in Displays : display[d].step # "idle" => display[d].key \in Keys
    /\ ReplacedAreInactive /\ HitsWereServed
    /\ ~open /\ ~closing => Active \subseteq spared
=============================================================================
