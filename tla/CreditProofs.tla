----------------------------- MODULE CreditProofs -----------------------------
(***************************************************************************)
(* Proofs about the ledger and a challenge, for any tasks, amounts, users,   *)
(* prizes and bounds.  First the ledger: the sum of what is still to be       *)
(* recorded changes with one task at a time, so that balance and rows can be  *)
(* followed write by write; a transaction that is not stale has a current     *)
(* reading of the split.                                                      *)
(***************************************************************************)
EXTENDS Credits, TLAPS

\* A transaction whose snapshot still holds has read the split as it is.
PinnedReadingsHold ==
    \A t \in Tasks :
        job[t].step = "charge" /\ job[t].pinned /\ ~job[t].stale => Fresh(job[t]) = job[t]

\* No more is owed or lost than was given.
OwedWithinGiven == Owed + unrecorded <= given

LedgerInv == TypeOK /\ BalanceIsExplained /\ PinnedReadingsHold /\ OwedWithinGiven

-----------------------------------------------------------------------------
(* What is owed                                                             *)

\* What a task owes is a natural number, and so is the sum.
LEMMA OwedType ==
  ASSUME TypeOK
  PROVE  (\A t \in Tasks : OwedBy(t) \in Nat) /\ Owed \in Nat
<1>1. \A t \in Tasks : OwedBy(t) \in Nat
  BY DEF TypeOK, OwedBy, Workers, Job
<1> QED
  BY <1>1, TasksAssumption, TotalType DEF Owed

\* A step of one task changes the sum by what it owes afterwards.
LEMMA OwedStep ==
  ASSUME TypeOK, NEW t \in Tasks, OwedBy(t)' \in Nat,
         \A v \in Tasks \ {t} : OwedBy(v)' = OwedBy(v)
  PROVE  Owed' = Owed - OwedBy(t) + OwedBy(t)'
<1> DEFINE f == [v \in Tasks |-> OwedBy(v)]
           g == [v \in Tasks |-> OwedBy(v)']
<1>1. \A v \in Tasks : f[v] \in Int /\ g[v] \in Int
  BY OwedType
<1>2. \A v \in Tasks \ {t} : g[v] = f[v]
  OBVIOUS
<1> HIDE DEF f, g
<1>3. Total(g, Tasks) = Total(f, Tasks) - f[t] + g[t]
  BY <1>1, <1>2, TasksAssumption, TotalChange
<1> QED
  BY <1>3 DEF f, g, Owed

\* A step that changes what no task owes leaves the sum.
LEMMA OwedStays ==
  ASSUME TypeOK, \A v \in Tasks : OwedBy(v)' = OwedBy(v)
  PROVE  Owed' = Owed
BY TasksAssumption, TotalSame DEF Owed

-----------------------------------------------------------------------------
(* Steps of the ledger                                                      *)

\* The common part of the steps that only move one worker on: nothing is owed by it
\* before or after, and what it has read holds.
LEMMA WorkerMoves ==
  ASSUME LedgerInv, NEW w \in Workers, NEW j \in Job, Goes(w, j),
         UNCHANGED <<doc, ledger, unrecorded, sources, skewed, given, restarts>>,
         job[w].step # "record", j.step # "record",
         j.step = "charge" /\ j.pinned /\ ~j.stale => Fresh(j) = j
  PROVE  LedgerInv'
<1>1. job' \in [Workers -> Job] /\ \A v \in Workers : job'[v] = IF v = w THEN j ELSE job[v]
  BY DEF LedgerInv, TypeOK, Goes
<1>2. TypeOK'
  BY <1>1 DEF LedgerInv, TypeOK
<1>3. \A v \in Tasks : OwedBy(v)' = OwedBy(v)
  BY <1>1 DEF OwedBy, Workers
<1>4. Owed' = Owed
  BY <1>3, OwedStays DEF LedgerInv
<1>5. PinnedReadingsHold'
  BY <1>1 DEF LedgerInv, PinnedReadingsHold, Workers, Fresh
<1> QED
  BY <1>2, <1>4, <1>5
     DEF LedgerInv, BalanceIsExplained, BalanceNeverNegative, LedgerExplainsBalance,
         SplitIsBalance, OwedWithinGiven

\* After a change of the document no snapshot holds, so that nothing is claimed of
\* what was read.
LEMMA ChangeOutdates ==
  ASSUME TypeOK, NEW w \in Workers, NEW j \in Job, AfterChange(w, j), j.step # "charge"
  PROVE  /\ job' \in [Workers -> Job]
         /\ PinnedReadingsHold'
         /\ \A v \in Tasks \ {w} : OwedBy(v)' = OwedBy(v)
         /\ job'[w] = j
<1>1. \A v \in Workers : /\ job[v] \in Job /\ Outdated(v) \in Job
                         /\ Outdated(v).step = job[v].step /\ Outdated(v).amount = job[v].amount
                         /\ Outdated(v).pinned => Outdated(v).stale
  BY DEF TypeOK, Job, Outdated
<1>2. \A v \in Workers : job'[v] = IF v = w THEN j ELSE Outdated(v)
  BY DEF AfterChange
<1>3. job' \in [Workers -> Job]
  BY <1>1 DEF AfterChange
<1>4. PinnedReadingsHold'
  BY <1>1, <1>2 DEF PinnedReadingsHold, Workers
<1>5. \A v \in Tasks \ {w} : OwedBy(v)' = OwedBy(v)
  BY <1>1, <1>2 DEF OwedBy, Workers
<1> QED
  BY <1>2, <1>3, <1>4, <1>5

\* Init establishes the ledger's invariant.
LEMMA InitLedger == Init => LedgerInv
<1> SUFFICES ASSUME Init PROVE LedgerInv
  OBVIOUS
<1>1. TypeOK
  <2>1. Idle \in Job
    BY DEF Job, Idle
  <2>2. job \in [Workers -> Job]
    BY <2>1 DEF Init
  <2>3. doc \in [balance : Int, free : Int, paid : Int] /\ ledger \in Int
    BY DEF Init
  <2>5. sources \subseteq {"admin_grant", "purchase"} /\ skewed \in BOOLEAN
    BY DEF Init
  <2>4. unrecorded \in 0..MaxGiven /\ given \in 0..MaxGiven /\ restarts \in 0..MaxRestarts
    BY BoundsAssumption DEF Init
  <2> QED
    BY <2>2, <2>3, <2>4, <2>5 DEF TypeOK
<1>2. \A t \in Tasks : job[t] = Idle
  BY DEF Init, Workers
<1>3. Owed = 0
  <2>1. \A t \in Tasks : OwedBy(t) = 0
    BY <1>2 DEF OwedBy, Idle
  <2> QED
    BY <2>1, TasksAssumption, TotalZero DEF Owed
<1>4. PinnedReadingsHold
  BY <1>2 DEF PinnedReadingsHold, Idle
<1> QED
  BY <1>1, <1>3, <1>4
     DEF Init, LedgerInv, BalanceIsExplained, BalanceNeverNegative, LedgerExplainsBalance,
         SplitIsBalance, OwedWithinGiven

\* The charge itself: what it takes of the split it read is its amount when that is
\* the split there is, and the update's condition covers it.
LEMMA StepCharge ==
  ASSUME LedgerInv, NEW t \in Tasks, Charge(t)
  PROVE  LedgerInv'
<1> DEFINE j == job[t]
<1>1. t \in Workers /\ j \in Job /\ Idle \in Job /\ Idle.step # "charge"
  BY DEF LedgerInv, TypeOK, Workers, Job, Idle
<1>2. /\ job' \in [Workers -> Job] /\ PinnedReadingsHold' /\ job'[t] = Idle
      /\ \A v \in Tasks \ {t} : OwedBy(v)' = OwedBy(v)
  BY <1>1, ChangeOutdates DEF LedgerInv, Charge
<1>3. OwedBy(t) = 0 /\ OwedBy(t)' = 0
  BY <1>2 DEF Charge, OwedBy, Idle
<1>4. Owed' = Owed /\ Owed \in Nat
  BY <1>2, <1>3, OwedStep, OwedType DEF LedgerInv
<1>5. /\ j.amount \in Nat /\ j.free \in Nat /\ j.paid \in Nat
      /\ FreeShare(j) \in Nat /\ PaidShare(j) \in Nat
  <2>1. j.amount \in Nat /\ j.free \in Nat /\ j.paid \in Nat
    BY <1>1 DEF Job
  <2>2. FreeShare(j) \in Nat /\ FreeShare(j) <= j.amount
    BY <2>1 DEF FreeShare, Least
  <2>3. PaidShare(j) \in Nat
    BY <2>1, <2>2 DEF PaidShare, Least
  <2> QED
    BY <2>1, <2>2, <2>3
<1> DEFINE free == FreeShare(j)  paid == PaidShare(j)
<1>6. /\ doc.balance \in Int /\ doc.free \in Int /\ doc.paid \in Int /\ ledger \in Int
      /\ doc' = [balance |-> doc.balance + (-j.amount), free |-> doc.free + (-free),
                 paid |-> doc.paid + (-paid)]
      /\ doc.balance >= j.amount /\ ledger' = ledger - j.amount
      /\ skewed' = (skewed \/ Skews(j))
      /\ UNCHANGED <<unrecorded, sources, given, restarts>>
  BY DEF LedgerInv, TypeOK, Charge, Changed, Affordable
<1> HIDE DEF free, paid
<1>7. doc' \in [balance : Int, free : Int, paid : Int] /\ ledger' \in Int
  BY <1>5, <1>6 DEF free, paid
<1>8. TypeOK'
  BY <1>2, <1>6, <1>7 DEF LedgerInv, TypeOK
<1>9. BalanceNeverNegative' /\ LedgerExplainsBalance'
  BY <1>4, <1>5, <1>6
     DEF LedgerInv, BalanceIsExplained, BalanceNeverNegative, LedgerExplainsBalance, TypeOK
<1>10. SplitIsBalance'
  <2> SUFFICES ASSUME ~skewed'
               PROVE  (doc.free + doc.paid = doc.balance /\ doc.free >= 0 /\ doc.paid >= 0)'
    BY DEF SplitIsBalance
  <2>1. ~skewed /\ free = FreeShare(Fresh(j)) /\ paid = PaidShare(Fresh(j))
    BY <1>6 DEF Skews, free, paid, LedgerInv, TypeOK
  <2>2. doc.free + doc.paid = doc.balance /\ doc.free >= 0 /\ doc.paid >= 0
    BY <2>1 DEF LedgerInv, BalanceIsExplained, SplitIsBalance
  <2>3. Fresh(j).free = doc.free /\ Fresh(j).paid = doc.paid /\ Fresh(j).amount = j.amount
    BY <1>1, <1>6, <2>2 DEF Fresh, NotNegative, Job
  <2>4. free = Least(doc.free, j.amount) /\ paid = Least(doc.paid, j.amount - free)
    BY <2>1, <2>3 DEF FreeShare, PaidShare
  <2>5. free + paid = j.amount /\ free <= doc.free /\ paid <= doc.paid
    BY <1>5, <1>6, <2>2, <2>4 DEF Least
  <2> QED
    BY <1>5, <1>6, <2>2, <2>5 DEF free, paid
<1> QED
  BY <1>2, <1>4, <1>6, <1>8, <1>9, <1>10 DEF LedgerInv, BalanceIsExplained, OwedWithinGiven

\* A grant or a refund is owed to the ledger from its increment on.
LEMMA StepIncrement ==
  ASSUME LedgerInv, NEW t \in Tasks, NEW n \in Amounts, NEW isFree \in BOOLEAN,
         Increment(t, n, isFree)
  PROVE  LedgerInv'
<1> DEFINE j == [Idle EXCEPT !.step = "record", !.amount = n]
<1>1. n \in Nat /\ t \in Workers /\ j \in Job /\ j.step = "record" /\ j.amount = n
  BY AmountAssumption DEF Workers, Job, Idle
<1> HIDE DEF j
<1>2. /\ job' \in [Workers -> Job] /\ PinnedReadingsHold' /\ job'[t] = j
      /\ \A v \in Tasks \ {t} : OwedBy(v)' = OwedBy(v)
  BY <1>1, ChangeOutdates DEF LedgerInv, Increment, j
<1>3. OwedBy(t) = 0 /\ OwedBy(t)' = n
  BY <1>1, <1>2 DEF Increment, OwedBy
<1>4. Owed' = Owed + n /\ Owed \in Nat
  BY <1>1, <1>2, <1>3, OwedStep, OwedType DEF LedgerInv
<1> DEFINE free == IF isFree THEN n ELSE 0
           paid == IF isFree THEN 0 ELSE n
<1>5. free \in Nat /\ paid \in Nat /\ free + paid = n
  BY <1>1
<1>6. /\ doc.balance \in Int /\ doc.free \in Int /\ doc.paid \in Int /\ given \in Nat
      /\ doc' = [balance |-> doc.balance + n, free |-> doc.free + free, paid |-> doc.paid + paid]
      /\ given' = given + n /\ given' <= MaxGiven
      /\ UNCHANGED <<ledger, unrecorded, sources, skewed, restarts>>
  BY DEF LedgerInv, TypeOK, Increment, Changed
<1> HIDE DEF free, paid
<1>7. doc' \in [balance : Int, free : Int, paid : Int] /\ given' \in 0..MaxGiven
  BY <1>1, <1>5, <1>6, BoundsAssumption
<1>8. TypeOK'
  BY <1>2, <1>6, <1>7 DEF LedgerInv, TypeOK
<1>9. BalanceIsExplained'
  BY <1>1, <1>4, <1>5, <1>6
     DEF LedgerInv, BalanceIsExplained, BalanceNeverNegative, LedgerExplainsBalance,
         SplitIsBalance, TypeOK
<1>10. OwedWithinGiven'
  BY <1>1, <1>4, <1>6 DEF LedgerInv, OwedWithinGiven, TypeOK
<1> QED
  BY <1>2, <1>8, <1>9, <1>10 DEF LedgerInv

\* The row is written, or lost for good: either way it is owed no longer.
LEMMA StepRecord ==
  ASSUME LedgerInv, NEW t \in Tasks, Record(t) \/ RecordThrows(t)
  PROVE  LedgerInv'
<1> DEFINE n == job[t].amount
<1>1. n \in Nat /\ job' = [job EXCEPT ![t] = Idle] /\ Idle \in Job /\ t \in Workers
  BY DEF LedgerInv, TypeOK, Record, RecordThrows, Goes, Workers, Job, Idle
<1>2. job' \in [Workers -> Job] /\ \A v \in Workers : job'[v] = IF v = t THEN Idle ELSE job[v]
  BY <1>1 DEF LedgerInv, TypeOK
<1>3. /\ OwedBy(t) = n /\ OwedBy(t)' = 0
      /\ \A v \in Tasks \ {t} : OwedBy(v)' = OwedBy(v)
  BY <1>2 DEF Record, RecordThrows, OwedBy, Workers, Idle
<1>4. Owed' = Owed - n /\ Owed \in Nat /\ Owed' \in Nat
  <2>1. OwedBy(t)' \in Nat
    BY <1>3
  <2>2. Owed' = Owed - n + 0
    BY <1>3, <2>1, OwedStep DEF LedgerInv
  <2>3. Owed \in Nat /\ n <= Owed
    <3>1. \A v \in Tasks : OwedBy(v) \in Nat
      BY OwedType DEF LedgerInv
    <3> DEFINE f == [v \in Tasks |-> OwedBy(v)]
    <3>2. f[t] <= Total(f, Tasks)
      <4>1. \A v \in Tasks : f[v] \in Nat
        BY <3>1
      <4> HIDE DEF f
      <4> QED
        BY <4>1, TasksAssumption, TotalAtLeast
    <3> QED
      BY <1>3, <3>2, OwedType DEF LedgerInv, Owed
  <2> QED
    BY <1>1, <2>2, <2>3
<1>5. PinnedReadingsHold'
  <2>1. UNCHANGED doc
    BY DEF Record, RecordThrows
  <2>2. Idle.step # "charge"
    BY DEF Idle
  <2> QED
    BY <1>2, <2>1, <2>2 DEF LedgerInv, PinnedReadingsHold, Workers, Fresh
<1>6. /\ unrecorded \in Nat /\ given \in 0..MaxGiven /\ ledger \in Int /\ doc.balance \in Int
      /\ \/ ledger' = ledger + n /\ UNCHANGED unrecorded
         \/ unrecorded' = unrecorded + n /\ UNCHANGED ledger
      /\ sources' \subseteq {"admin_grant", "purchase"}
      /\ UNCHANGED <<doc, skewed, given, restarts>>
  <2>1. unrecorded \in Nat /\ given \in 0..MaxGiven /\ ledger \in Int /\ doc.balance \in Int
    BY BoundsAssumption DEF LedgerInv, TypeOK
  <2>2. sources' \subseteq {"admin_grant", "purchase"}
    BY DEF LedgerInv, TypeOK, Record, RecordThrows
  <2>3. /\ \/ ledger' = ledger + n /\ UNCHANGED unrecorded
           \/ unrecorded' = unrecorded + n /\ UNCHANGED ledger
        /\ UNCHANGED <<doc, skewed, given, restarts>>
    BY DEF Record, RecordThrows
  <2> QED
    BY <2>1, <2>2, <2>3
<1>7. OwedWithinGiven'
  BY <1>1, <1>4, <1>6 DEF LedgerInv, OwedWithinGiven
<1>8. TypeOK'
  <2>1. unrecorded' \in 0..MaxGiven
    BY <1>1, <1>4, <1>6, <1>7, BoundsAssumption DEF OwedWithinGiven
  <2>2. ledger' \in Int
    BY <1>1, <1>6
  <2> QED
    BY <1>2, <1>6, <2>1, <2>2 DEF LedgerInv, TypeOK
<1>9. BalanceIsExplained'
  BY <1>1, <1>4, <1>6
     DEF LedgerInv, BalanceIsExplained, BalanceNeverNegative, LedgerExplainsBalance,
         SplitIsBalance
<1> QED
  BY <1>5, <1>7, <1>8, <1>9 DEF LedgerInv

\* A purchase or a reward moves the balance and the ledger together.
LEMMA StepPurchase ==
  ASSUME LedgerInv, NEW n \in Amounts, Purchase(n)
  PROVE  LedgerInv'
<1>1. n \in Nat
  BY AmountAssumption
<1>2. \A v \in Workers : /\ job[v] \in Job /\ Outdated(v) \in Job
                         /\ Outdated(v).step = job[v].step /\ Outdated(v).amount = job[v].amount
                         /\ Outdated(v).pinned => Outdated(v).stale
  BY DEF LedgerInv, TypeOK, Job, Outdated
<1>3. job' \in [Workers -> Job] /\ \A v \in Workers : job'[v] = Outdated(v)
  BY <1>2 DEF Purchase
<1>4. Owed' = Owed /\ Owed \in Nat
  <2>1. \A v \in Tasks : OwedBy(v)' = OwedBy(v)
    BY <1>2, <1>3 DEF OwedBy, Workers
  <2> QED
    BY <2>1, OwedStays, OwedType DEF LedgerInv
<1>5. PinnedReadingsHold'
  BY <1>2, <1>3 DEF PinnedReadingsHold, Workers
<1>6. PICK free \in Nat, paid \in Nat :
         /\ free + paid = n
         /\ doc' = [balance |-> doc.balance + n, free |-> doc.free + free, paid |-> doc.paid + paid]
  BY <1>1 DEF Purchase, Changed
<1>7. /\ doc.balance \in Int /\ doc.free \in Int /\ doc.paid \in Int /\ given \in Nat
      /\ ledger \in Int /\ unrecorded \in Nat
      /\ ledger' = ledger + n /\ given' = given + n /\ given' <= MaxGiven
      /\ sources' \subseteq {"admin_grant", "purchase"}
      /\ UNCHANGED <<unrecorded, skewed, restarts>>
  <2>1. /\ doc.balance \in Int /\ doc.free \in Int /\ doc.paid \in Int /\ given \in Nat
        /\ ledger \in Int /\ unrecorded \in Nat
    BY BoundsAssumption DEF LedgerInv, TypeOK
  <2>2. sources' \subseteq {"admin_grant", "purchase"}
    BY DEF LedgerInv, TypeOK, Purchase
  <2>3. /\ ledger' = ledger + n /\ given' = given + n /\ given' <= MaxGiven
        /\ UNCHANGED <<unrecorded, skewed, restarts>>
    BY DEF Purchase
  <2> QED
    BY <2>1, <2>2, <2>3
<1>8. TypeOK'
  <2>1. doc' \in [balance : Int, free : Int, paid : Int]
    BY <1>1, <1>6, <1>7
  <2>2. given' \in 0..MaxGiven /\ ledger' \in Int
    BY <1>1, <1>7, BoundsAssumption
  <2> QED
    BY <1>3, <1>7, <2>1, <2>2 DEF LedgerInv, TypeOK
<1>9. BalanceIsExplained'
  BY <1>1, <1>4, <1>6, <1>7
     DEF LedgerInv, BalanceIsExplained, BalanceNeverNegative, LedgerExplainsBalance,
         SplitIsBalance
<1>10. OwedWithinGiven'
  BY <1>1, <1>4, <1>7 DEF LedgerInv, OwedWithinGiven
<1> QED
  BY <1>5, <1>8, <1>9, <1>10 DEF LedgerInv

\* The repair writes the balance it read as free credits; only if the balance has
\* changed since then do the two not agree.
LEMMA StepResetSplit ==
  ASSUME LedgerInv, ResetSplit
  PROVE  LedgerInv'
<1> DEFINE n == job[Sync].amount
<1>1. Sync \in Workers /\ n \in Nat /\ Idle \in Job /\ Idle.step # "charge"
  BY DEF LedgerInv, TypeOK, Workers, Job, Idle
<1>2. /\ job' \in [Workers -> Job] /\ PinnedReadingsHold'
      /\ \A v \in Tasks \ {Sync} : OwedBy(v)' = OwedBy(v)
  BY <1>1, ChangeOutdates DEF LedgerInv, ResetSplit
<1>3. Owed' = Owed /\ Owed \in Nat
  BY <1>2, TasksAssumption, OwedStays, OwedType DEF LedgerInv
<1>4. /\ doc.balance \in Int
      /\ doc' \in [balance : Int, free : Int, paid : Int]
      /\ doc'.balance = doc.balance /\ doc'.free = n /\ doc'.paid = 0
      /\ skewed' = (skewed \/ n # doc.balance)
      /\ UNCHANGED <<ledger, unrecorded, sources, given, restarts>>
  <2>1. doc \in [balance : Int, free : Int, paid : Int]
    BY DEF LedgerInv, TypeOK
  <2> DEFINE none == 0
  <2>2. doc' = [doc EXCEPT !.free = n, !.paid = none] /\ none \in Int
    BY DEF ResetSplit
  <2> HIDE DEF n, none
  <2>3. doc.balance \in Int /\ doc'.balance = doc.balance /\ doc'.free = n /\ doc'.paid = none
    BY <2>1, <2>2
  <2>4. doc' \in [balance : Int, free : Int, paid : Int]
    <3>1. ASSUME NEW f \in Int, NEW p \in Int
          PROVE  [doc EXCEPT !.free = f, !.paid = p] \in [balance : Int, free : Int, paid : Int]
      BY <2>1
    <3>2. n \in Int
      BY <1>1
    <3> QED
      BY <2>2, <3>1, <3>2
  <2> QED
    BY <2>3, <2>4 DEF ResetSplit, n, none
<1> HIDE DEF n
<1>5. TypeOK'
  <2>1. skewed' \in BOOLEAN
    BY <1>4 DEF LedgerInv, TypeOK
  <2> QED
    BY <1>2, <1>4, <2>1 DEF LedgerInv, TypeOK
<1>6. BalanceIsExplained'
  <2>1. /\ doc.balance \in Int /\ n \in Nat
        /\ doc'.balance = doc.balance /\ doc'.free = n /\ doc'.paid = 0
        /\ ~skewed' => n = doc.balance
    BY <1>1, <1>4 DEF LedgerInv, TypeOK
  <2> QED
    BY <1>3, <1>4, <2>1
       DEF LedgerInv, BalanceIsExplained, BalanceNeverNegative, LedgerExplainsBalance,
           SplitIsBalance
<1> QED
  BY <1>2, <1>3, <1>4, <1>5, <1>6 DEF LedgerInv, OwedWithinGiven

\* What was owed when the process stopped is lost, and nothing is owed after it.
LEMMA StepRestart ==
  ASSUME LedgerInv, Restart
  PROVE  LedgerInv'
<1>1. Owed \in Nat /\ unrecorded \in Nat /\ given \in 0..MaxGiven /\ restarts \in 0..MaxRestarts
  BY OwedType, BoundsAssumption DEF LedgerInv, TypeOK
<1>2. /\ \A t \in Tasks : job'[t] = Idle
      /\ job' \in [Workers -> Job]
  <2>1. Idle \in Job /\ [Idle EXCEPT !.step = "check"] \in Job
    BY DEF Idle, Job
  <2> QED
    BY <2>1, TasksAssumption DEF Restart, Workers
<1>3. Owed' = 0
  <2>1. \A t \in Tasks : OwedBy(t)' = 0
    BY <1>2 DEF OwedBy, Idle
  <2> DEFINE f == [t \in Tasks |-> OwedBy(t)']
  <2>2. Total(f, Tasks) = 0
    <3>1. \A t \in Tasks : f[t] = 0
      BY <2>1
    <3> HIDE DEF f
    <3> QED
      BY <3>1, TasksAssumption, TotalZero
  <2> QED
    BY <2>2 DEF Owed
<1>4. PinnedReadingsHold'
  BY <1>2 DEF PinnedReadingsHold, Idle
<1>5. /\ unrecorded' = unrecorded + Owed /\ restarts' = restarts + 1 /\ restarts < MaxRestarts
      /\ UNCHANGED <<doc, ledger, sources, skewed, given>>
  BY DEF Restart
<1>6. OwedWithinGiven'
  BY <1>1, <1>3, <1>5 DEF LedgerInv, OwedWithinGiven
<1>7. TypeOK'
  <2>1. unrecorded' \in 0..MaxGiven
    BY <1>1, <1>3, <1>5, <1>6, BoundsAssumption DEF OwedWithinGiven
  <2>2. restarts' \in 0..MaxRestarts
    BY <1>1, <1>5, BoundsAssumption
  <2> QED
    BY <1>2, <1>5, <2>1, <2>2 DEF LedgerInv, TypeOK
<1>8. BalanceIsExplained'
  <2>1. ledger \in Int
    BY DEF LedgerInv, TypeOK
  <2> QED
    BY <1>1, <1>3, <1>5, <2>1
       DEF LedgerInv, BalanceIsExplained, BalanceNeverNegative, LedgerExplainsBalance,
           SplitIsBalance
<1> QED
  BY <1>4, <1>6, <1>7, <1>8 DEF LedgerInv

\* Every step of the ledger preserves its invariant.
LEMMA NextLedger ==
  ASSUME LedgerInv, Next
  PROVE  LedgerInv'
<1>0. Idle \in Job /\ Tasks \subseteq Workers /\ Sync \in Workers /\ Idle.step = "idle"
  BY DEF Idle, Job, Workers
<1>1. ASSUME NEW t \in Tasks, StartCharge(t) PROVE LedgerInv'
  <2>1. PICK pinned \in BOOLEAN, cost \in Amounts :
           Goes(t, [Idle EXCEPT !.step = "read", !.pinned = pinned, !.amount = cost])
    BY <1>1 DEF StartCharge
  <2> DEFINE j == [Idle EXCEPT !.step = "read", !.pinned = pinned, !.amount = cost]
  <2>2. j \in Job /\ j.step = "read"
    BY AmountAssumption DEF Idle, Job
  <2> HIDE DEF j
  <2> QED
    BY <1>0, <1>1, <2>1, <2>2, WorkerMoves DEF StartCharge, j
<1>2. ASSUME NEW t \in Tasks, ReadSplit(t) PROVE LedgerInv'
  <2> DEFINE j == [Fresh(job[t]) EXCEPT !.step = "charge"]
  <2>1. job[t] \in Job /\ doc.free \in Int /\ doc.paid \in Int
    BY <1>0 DEF LedgerInv, TypeOK
  <2>2. NotNegative(doc.free) \in Nat /\ NotNegative(doc.paid) \in Nat
    BY <2>1 DEF NotNegative
  <2>3. j \in Job /\ j.step = "charge" /\ Fresh(j) = j
    BY <2>1, <2>2 DEF Fresh, Job
  <2> HIDE DEF j
  <2> QED
    BY <1>0, <1>2, <2>3, WorkerMoves DEF ReadSplit, j
<1>3. ASSUME NEW t \in Tasks, RetryCharge(t) PROVE LedgerInv'
  <2> DEFINE j == [Idle EXCEPT !.step = "read", !.pinned = TRUE, !.amount = job[t].amount]
  <2>1. job[t].amount \in Nat
    BY <1>0 DEF LedgerInv, TypeOK, Job
  <2>2. j \in Job /\ j.step = "read"
    BY <2>1 DEF Idle, Job
  <2> HIDE DEF j
  <2> QED
    BY <1>0, <1>3, <2>2, WorkerMoves DEF RetryCharge, j
<1>4. ASSUME NEW t \in Tasks, AbortCharge(t) PROVE LedgerInv'
  BY <1>0, <1>4, WorkerMoves DEF AbortCharge
<1>5. ASSUME CheckSources PROVE LedgerInv'
  <2> DEFINE j == IF sources = {"admin_grant"} THEN [Idle EXCEPT !.step = "repair"] ELSE Idle
  <2>1. j \in Job /\ j.step \in {"repair", "idle"}
    BY DEF Idle, Job
  <2> HIDE DEF j
  <2> QED
    BY <1>0, <1>5, <2>1, WorkerMoves DEF CheckSources, j
<1>6. ASSUME ReadBalance PROVE LedgerInv'
  <2> DEFINE j == [Idle EXCEPT !.step = "reset", !.amount = doc.balance]
  <2>1. doc.balance \in Nat
    BY DEF LedgerInv, TypeOK, BalanceIsExplained, BalanceNeverNegative
  <2>2. j \in Job /\ j.step = "reset"
    BY <2>1 DEF Idle, Job
  <2> HIDE DEF j
  <2> QED
    BY <1>0, <1>6, <2>2, WorkerMoves DEF ReadBalance, j
<1> QED
  BY <1>1, <1>2, <1>3, <1>4, <1>5, <1>6, StepCharge, StepIncrement, StepRecord, StepPurchase,
     StepResetSplit, StepRestart DEF Next

\* A commit that skews the split was made by a charge that had no snapshot before it
\* read the split, or by the repair.
LEMMA SkewIsLate ==
  ASSUME LedgerInv, Next, ~skewed, skewed'
  PROVE  \/ \E t \in Tasks : job[t].step = "charge" /\ ~job[t].pinned /\ job'[t].step = "idle"
         \/ job[Sync].step = "reset"
<1>1. (\E t \in Tasks : Charge(t)) \/ ResetSplit
  BY DEF Next, StartCharge, ReadSplit, RetryCharge, AbortCharge, Record, RecordThrows, Increment,
         Purchase, CheckSources, ReadBalance, Restart
<1>2. ASSUME NEW t \in Tasks, Charge(t)
      PROVE  job[t].step = "charge" /\ ~job[t].pinned /\ job'[t].step = "idle"
  <2>1. job[t].step = "charge" /\ Skews(job[t]) /\ ~(job[t].pinned /\ job[t].stale)
    BY <1>2 DEF Charge, Conflicts
  <2>2. ~job[t].pinned
    BY <2>1 DEF LedgerInv, PinnedReadingsHold, Skews
  <2>3. job'[t] = Idle
    BY <1>2 DEF Charge, AfterChange, Workers
  <2> QED
    BY <2>1, <2>2, <2>3 DEF Idle
<1> QED
  BY <1>1, <1>2 DEF ResetSplit

-----------------------------------------------------------------------------
(* A challenge                                                              *)

Completing == {"list", "begin", "insert"}
Refunding  == {"players", "refund"}
Unrefunded == \A u \in Users : refunded[u] = 0

\* A submission is of one user, and a loop has somebody left to see to.
TodoFits ==
    \A w \in Challenge!Workers :
        /\ run[w].step = "play" => \E u \in Users : run[w].todo = {u}
        /\ run[w].step \in {"begin", "insert", "grant", "fail", "refund"} => run[w].todo # {}

\* Until an ended challenge is made active again, one worker at most ends it, and what it
\* does is done for the first time.
OneEnding ==
    ~reopened =>
        /\ status \notin Challenge!Ended =>
              /\ \A w \in Challenge!Workers : run[w].step \notin Completing \cup Refunding
              /\ Challenge!Winners = {} /\ Unrefunded
        /\ \A v, w \in Challenge!Workers :
              {run[v].step, run[w].step} \subseteq Completing \cup Refunding => v = w
        /\ \A w \in Challenge!Workers :
              /\ run[w].step \in Completing \cup Refunding => Challenge!Winners = {}
              /\ run[w].step \in Completing \cup {"players"} => Unrefunded
              /\ run[w].step \in {"begin", "insert"} =>
                    IsFiniteSet(run[w].todo) /\ Cardinality(run[w].todo) <= NumberOfWinners
              /\ run[w].step = "refund" => \A u \in run[w].todo : refunded[u] = 0
        /\ Unrefunded \/ Challenge!Winners = {}
        /\ \A u \in Users : refunded[u] <= 1
        /\ IsFiniteSet(Challenge!Winners)
        /\ Cardinality(Challenge!Winners) <= NumberOfWinners

ChallengeInv ==
    /\ Challenge!TypeOK /\ TodoFits
    /\ Challenge!ChargedIffPlaying /\ Challenge!GrantedIffSuccessful
    /\ Challenge!PendingPrizeIsInHand /\ OneEnding

\* The user a loop sees to next is one of its own.
LEMMA NowIsOne ==
  ASSUME Challenge!TypeOK, NEW w \in Challenge!Workers, run[w].todo # {}
  PROVE  Challenge!Now(w) \in run[w].todo
<1>1. run[w].todo \in SUBSET Nat
  BY ChallengeAssumption DEF Challenge!TypeOK, Challenge!UsersAssumption
<1>2. \E u \in run[w].todo : \A v \in run[w].todo : u <= v
  BY <1>1, LeastNumber
<1> QED
  BY <1>2 DEF Challenge!Now, Challenge!First

\* One worker moves on, the others stay where they are.
LEMMA Goes1 ==
  ASSUME Challenge!TypeOK, NEW w \in Challenge!Workers,
         NEW s \in Challenge!Steps, NEW T \in SUBSET Users, Challenge!Go(w, s, T)
  PROVE  /\ run' \in [Challenge!Workers -> [step : Challenge!Steps, todo : SUBSET Users]]
         /\ run'[w].step = s /\ run'[w].todo = T
         /\ \A v \in Challenge!Workers \ {w} : run'[v] = run[v]
BY DEF Challenge!TypeOK, Challenge!Go

\* Stopping is going nowhere.
LEMMA StopGoes ==
  ASSUME NEW w, Challenge!Stop(w)
  PROVE  Challenge!Go(w, "idle", {})
BY DEF Challenge!Stop, Challenge!Go, Challenge!Idle

\* A loop goes on without the user it has seen to, or is over when there is no other.
LEMMA AdvanceGoes ==
  ASSUME Challenge!TypeOK, NEW w \in Challenge!Workers, run[w].todo # {}, NEW step,
         Challenge!Advance(w, step)
  PROVE  \E s \in {"idle", step}, T \in SUBSET Users :
            /\ Challenge!Go(w, s, T)
            /\ T = run[w].todo \ {Challenge!Now(w)}
            /\ T # {} => s = step
            /\ T = {} => s = "idle"
<1> DEFINE T == run[w].todo \ {Challenge!Now(w)}
<1>1. T \in SUBSET Users
  BY DEF Challenge!TypeOK
<1>2. CASE run[w].todo = {Challenge!Now(w)}
  <2>1. T = {} /\ Challenge!Go(w, "idle", T)
    BY <1>2, StopGoes DEF Challenge!Advance
  <2> QED
    BY <1>1, <2>1
<1>3. CASE run[w].todo # {Challenge!Now(w)}
  <2>1. T # {} /\ Challenge!Go(w, step, T)
    BY <1>3, NowIsOne DEF Challenge!Advance
  <2> QED
    BY <1>1, <2>1
<1> QED
  BY <1>2, <1>3

\* The number of elements is the same for both modules.
LEMMA SameCardinality == \A S : Challenge!Cardinality(S) = Cardinality(S)
BY DEF Challenge!Cardinality, Cardinality

\* The best players are among the players, no more than there are prizes, and somebody.
LEMMA TopFits ==
  ASSUME NEW S \in SUBSET Users
  PROVE  /\ Challenge!Top(S) \subseteq S
         /\ IsFiniteSet(Challenge!Top(S)) /\ Cardinality(Challenge!Top(S)) <= NumberOfWinners
         /\ S # {} => Challenge!Top(S) # {}
<1> DEFINE N == NumberOfWinners
           Below(u) == {v \in S : v < u}
           T == Challenge!Top(S)
<1>1. N \in Nat \ {0} /\ \A u \in S : u \in Nat
  BY ChallengeAssumption DEF Challenge!BoundsAssumption, Challenge!UsersAssumption
<1>2. T = {u \in S : Cardinality(Below(u)) < N}
  BY SameCardinality DEF Challenge!Top
<1>3. \A u \in Nat : IsFiniteSet(Below(u)) /\ Cardinality(Below(u)) \in Nat
  <2> TAKE u \in Nat
  <2>1. IsFiniteSet(0..u)
    BY FS_Interval
  <2>2. Below(u) \subseteq 0..u
    BY <1>1
  <2> QED
    BY <2>1, <2>2, FS_Subset, FS_CardinalityType
<1>4. ASSUME NEW u \in S, NEW v \in S, u < v
      PROVE  Cardinality(Below(u)) < Cardinality(Below(v))
  <2>1. Below(u) \subseteq Below(v) /\ u \in Below(v) /\ u \notin Below(u)
    BY <1>1, <1>4
  <2> QED
    BY <1>1, <1>3, <2>1, FS_Subset
<1> DEFINE rank == [u \in T |-> Cardinality(Below(u))]
<1>5. \A u \in T : rank[u] \in 0..(N - 1)
  <2>1. \A u \in T : Cardinality(Below(u)) \in Nat /\ Cardinality(Below(u)) < N
    BY <1>1, <1>2, <1>3
  <2> HIDE DEF Below, T, N
  <2> QED
    BY <1>1, <2>1
<1>6. \A u, v \in T : rank[u] = rank[v] => u = v
  <2> SUFFICES ASSUME NEW u \in T, NEW v \in T, rank[u] = rank[v], u # v PROVE FALSE
    OBVIOUS
  <2>1. u \in S /\ v \in S /\ (u < v \/ v < u)
    BY <1>1, <1>2
  <2> QED
    BY <1>1, <1>3, <1>4, <2>1
<1> HIDE DEF rank
<1>7. rank \in Injection(T, 0..(N - 1))
  <2>1. rank \in [T -> 0..(N - 1)]
    BY <1>5 DEF rank
  <2> HIDE DEF T
  <2> QED
    BY <2>1, <1>6 DEF Injection, IsInjective
<1>8. IsFiniteSet(0..(N - 1)) /\ Cardinality(0..(N - 1)) = N
  BY <1>1, FS_Interval
<1>9. IsFiniteSet(T) /\ Cardinality(T) <= N
  BY <1>7, <1>8, FS_Injection
<1>10. ASSUME S # {} PROVE T # {}
  <2>1. PICK u \in S : \A v \in S : u <= v
    <3>1. S \in SUBSET Nat
      BY <1>1
    <3> QED
      BY <1>10, <3>1, LeastNumber
  <2>2. Below(u) = {}
    BY <1>1, <2>1
  <2> QED
    BY <1>1, <1>2, <2>2, FS_EmptySet
<1> QED
  BY <1>2, <1>9, <1>10

-----------------------------------------------------------------------------
(* Steps of a challenge                                                     *)

\* The part of the invariant that follows from where the workers go.
LEMMA RunMoves ==
  ASSUME Challenge!TypeOK, TodoFits, NEW w \in Challenge!Workers,
         NEW s \in Challenge!Steps, NEW T \in SUBSET Users, Challenge!Go(w, s, T),
         s = "play" => \E u \in Users : T = {u},
         s \in {"begin", "insert", "grant", "fail", "refund"} => T # {}
  PROVE  TodoFits'
BY Goes1 DEF TodoFits

\* A worker that settles no prize and takes none up leaves every pending one in hand.
LEMMA HandsKeep ==
  ASSUME Challenge!TypeOK, Challenge!PendingPrizeIsInHand, NEW w \in Challenge!Workers,
         NEW s \in Challenge!Steps, NEW T \in SUBSET Users, Challenge!Go(w, s, T),
         run[w].step \notin {"grant", "fail"} \/ (s \in {"grant", "fail"} /\ T = run[w].todo),
         UNCHANGED <<row, faults>>
  PROVE  Challenge!PendingPrizeIsInHand'
<1> SUFFICES ASSUME faults = 0, NEW u \in Users, row[u] = "pending"
             PROVE  \E v \in Challenge!Workers :
                       run'[v].step \in {"grant", "fail"} /\ u \in run'[v].todo
  BY DEF Challenge!PendingPrizeIsInHand
<1>1. PICK v \in Challenge!Workers : run[v].step \in {"grant", "fail"} /\ u \in run[v].todo
  BY DEF Challenge!PendingPrizeIsInHand
<1> QED
  BY <1>1, Goes1

\* The common part of the steps that change nothing but what one worker does, and neither
\* end the challenge nor pay: what an ending worker goes on to has been ruled out for
\* every other one before.
LEMMA WorkerTurns ==
  ASSUME ChallengeInv, NEW w \in Challenge!Workers,
         NEW s \in Challenge!Steps, NEW T \in SUBSET Users, Challenge!Go(w, s, T),
         UNCHANGED <<status, phase, players, charged, refunded, row, granted, reopened, edits,
                     faults>>,
         s = "play" => \E u \in Users : T = {u},
         s \in {"begin", "insert", "refund"} => T # {},
         run[w].step \notin {"grant", "fail"}, s \notin {"grant", "fail", "list", "players"},
         s \in Completing /\ ~reopened =>
             run[w].step \in Completing /\ IsFiniteSet(T) /\ Cardinality(T) <= NumberOfWinners,
         s = "refund" => run[w].step = "players"
  PROVE  ChallengeInv'
<1>1. Challenge!TypeOK'
  BY Goes1 DEF ChallengeInv, Challenge!TypeOK
<1>2. TodoFits'
  BY RunMoves DEF ChallengeInv
<1>3. Challenge!PendingPrizeIsInHand'
  BY HandsKeep DEF ChallengeInv
<1>4. Challenge!ChargedIffPlaying' /\ Challenge!GrantedIffSuccessful'
  BY DEF ChallengeInv, Challenge!ChargedIffPlaying, Challenge!GrantedIffSuccessful
<1>5. OneEnding'
  <2>1. Challenge!Winners' = Challenge!Winners /\ (Unrefunded' <=> Unrefunded)
    BY DEF Challenge!Winners, Unrefunded
  <2>2. \A v \in Challenge!Workers :
           /\ v # w => run'[v] = run[v]
           /\ run'[w].step = s /\ run'[w].todo = T
    BY Goes1 DEF ChallengeInv
  <2> QED
    BY <2>1, <2>2 DEF ChallengeInv, OneEnding, Completing, Refunding, Unrefunded
<1> QED
  BY <1>1, <1>2, <1>3, <1>4, <1>5 DEF ChallengeInv

\* The steps that WorkerTurns covers.
LEMMA TurningSteps ==
  ASSUME ChallengeInv, NEW w \in Challenge!Workers,
         \/ \E u \in Users : Challenge!CheckPlay(w, u)
         \/ Challenge!RejectPlay(w) \/ Challenge!StartScan(w)
         \/ Challenge!ListWinners(w) \/ Challenge!BeginRows(w) \/ Challenge!ListPlayers(w)
  PROVE  ChallengeInv'
<1>0. Challenge!TypeOK /\ TodoFits /\ run[w].todo \in SUBSET Users /\ players \in SUBSET Users
  BY DEF ChallengeInv, Challenge!TypeOK
<1>1. ASSUME NEW u \in Users, Challenge!CheckPlay(w, u) PROVE ChallengeInv'
  BY <1>1, WorkerTurns DEF Challenge!CheckPlay, Challenge!Does, Challenge!Steps, Completing
<1>2. ASSUME Challenge!RejectPlay(w) PROVE ChallengeInv'
  BY <1>2, StopGoes, WorkerTurns
     DEF Challenge!RejectPlay, Challenge!Does, Challenge!Steps, Completing
<1>3. ASSUME Challenge!StartScan(w) PROVE ChallengeInv'
  <2>1. Challenge!DueStep \in {"activate", "complete"}
    BY <1>3 DEF Challenge!StartScan, Challenge!DueStep
  <2> QED
    BY <1>3, <2>1, WorkerTurns DEF Challenge!StartScan, Challenge!Does, Challenge!Steps, Completing
<1>4. ASSUME Challenge!ListWinners(w) PROVE ChallengeInv'
  <2>1. CASE players = {}
    BY <1>4, <2>1, StopGoes, WorkerTurns
       DEF Challenge!ListWinners, Challenge!Does, Challenge!Steps, Completing
  <2>2. CASE players # {}
    <3> DEFINE T == Challenge!Top(players)
    <3>1. /\ T \in SUBSET Users /\ T # {}
          /\ IsFiniteSet(T) /\ Cardinality(T) <= NumberOfWinners
      BY <1>0, <2>2, TopFits
    <3>2. /\ Challenge!Go(w, "begin", T) /\ run[w].step = "list"
          /\ UNCHANGED <<status, phase, players, charged, refunded, row, granted, reopened, edits,
                         faults>>
      BY <1>4, <2>2 DEF Challenge!ListWinners, Challenge!Does
    <3> HIDE DEF T
    <3> QED
      BY <3>1, <3>2, WorkerTurns DEF Challenge!Steps, Completing
  <2> QED
    BY <2>1, <2>2
<1>5. ASSUME Challenge!BeginRows(w) PROVE ChallengeInv'
  <2>1. CASE Challenge!Winners # {}
    BY <1>5, <2>1, StopGoes, WorkerTurns
       DEF Challenge!BeginRows, Challenge!Does, Challenge!Steps, Completing
  <2>2. CASE Challenge!Winners = {}
    <3>1. run[w].step = "begin" /\ Challenge!Go(w, "insert", run[w].todo)
      BY <1>5, <2>2 DEF Challenge!BeginRows, Challenge!Does
    <3>2. run[w].todo # {}
      BY <1>0, <3>1 DEF TodoFits
    <3>3. ~reopened => IsFiniteSet(run[w].todo) /\ Cardinality(run[w].todo) <= NumberOfWinners
      BY <3>1 DEF ChallengeInv, OneEnding
    <3> QED
      BY <1>0, <1>5, <3>1, <3>2, <3>3, WorkerTurns
         DEF Challenge!BeginRows, Challenge!Steps, Completing
  <2> QED
    BY <2>1, <2>2
<1>6. ASSUME Challenge!ListPlayers(w) PROVE ChallengeInv'
  <2>1. CASE players = {}
    BY <1>6, <2>1, StopGoes, WorkerTurns
       DEF Challenge!ListPlayers, Challenge!Does, Challenge!Steps, Completing
  <2>2. CASE players # {}
    BY <1>0, <1>6, <2>2, WorkerTurns
       DEF Challenge!ListPlayers, Challenge!Does, Challenge!Steps, Completing
  <2> QED
    BY <2>1, <2>2
<1> QED
  BY <1>1, <1>2, <1>3, <1>4, <1>5, <1>6

\* Charge and participation commit together, and the unique index lets only one in.
LEMMA StepCommitPlay ==
  ASSUME ChallengeInv, NEW q \in Challenge!Workers, Challenge!CommitPlay(q)
  PROVE  ChallengeInv'
<1> DEFINE u == Challenge!Now(q)
<1>1. /\ run[q].step = "play" /\ run[q].todo # {} /\ u \in Users /\ u \notin players
      /\ players' = players \cup {u} /\ charged' = [charged EXCEPT ![u] = @ + 1]
      /\ Challenge!Go(q, "idle", {})
      /\ UNCHANGED <<status, phase, refunded, row, granted, reopened, edits, faults>>
  <2>1. run[q].step = "play" /\ run[q].todo # {}
    BY DEF ChallengeInv, TodoFits, Challenge!CommitPlay, Challenge!Does
  <2>2. u \in run[q].todo /\ run[q].todo \in SUBSET Users
    BY <2>1, NowIsOne DEF ChallengeInv, Challenge!TypeOK
  <2> QED
    BY <2>1, <2>2, StopGoes DEF Challenge!CommitPlay
<1> HIDE DEF u
<1>2. charged \in [Users -> Nat] /\ charged' \in [Users -> Nat]
  BY <1>1 DEF ChallengeInv, Challenge!TypeOK
<1>3. Challenge!TypeOK'
  BY <1>1, <1>2, Goes1 DEF ChallengeInv, Challenge!TypeOK, Challenge!Steps
<1>4. TodoFits' /\ Challenge!PendingPrizeIsInHand'
  BY <1>1, RunMoves, HandsKeep DEF ChallengeInv, Challenge!Steps
<1>5. Challenge!ChargedIffPlaying' /\ Challenge!GrantedIffSuccessful'
  BY <1>1, <1>2 DEF ChallengeInv, Challenge!ChargedIffPlaying, Challenge!GrantedIffSuccessful
<1>6. OneEnding'
  <2>1. Challenge!Winners' = Challenge!Winners /\ (Unrefunded' <=> Unrefunded)
    BY <1>1 DEF Challenge!Winners, Unrefunded
  <2>2. \A v \in Challenge!Workers : v # q => run'[v] = run[v]
    BY <1>1, Goes1 DEF ChallengeInv, Challenge!Steps
  <2>3. run'[q].step = "idle"
    BY <1>1, Goes1 DEF ChallengeInv, Challenge!Steps
  <2> QED
    BY <1>1, <2>1, <2>2, <2>3 DEF ChallengeInv, OneEnding, Completing, Refunding, Unrefunded
<1> QED
  BY <1>3, <1>4, <1>5, <1>6 DEF ChallengeInv

\* What the ending of a challenge relies on, when the status changes: that it was not ended
\* before, or that the history says it was made active again.
LEMMA StatusMoves ==
  ASSUME ChallengeInv, NEW w \in Challenge!Workers,
         NEW s \in Challenge!Steps, Challenge!Go(w, s, {}),
         NEW to \in Challenge!Statuses, Challenge!SetStatus(to),
         UNCHANGED <<phase, players, charged, refunded, row, granted, edits, faults>>,
         run[w].step \notin {"grant", "fail"} \cup Completing \cup Refunding,
         \/ s = "idle"
         \/ s \in {"list", "players"} /\ status \notin Challenge!Ended /\ to \in Challenge!Ended
  PROVE  ChallengeInv'
<1>1. Challenge!TypeOK'
  BY Goes1 DEF ChallengeInv, Challenge!TypeOK, Challenge!SetStatus
<1>2. TodoFits' /\ Challenge!PendingPrizeIsInHand'
  BY RunMoves, HandsKeep DEF ChallengeInv
<1>3. Challenge!ChargedIffPlaying' /\ Challenge!GrantedIffSuccessful'
  BY DEF ChallengeInv, Challenge!ChargedIffPlaying, Challenge!GrantedIffSuccessful
<1>4. OneEnding'
  <2>1. Challenge!Winners' = Challenge!Winners /\ (Unrefunded' <=> Unrefunded)
    BY DEF Challenge!Winners, Unrefunded
  <2>2. \A v \in Challenge!Workers : v # w => run'[v] = run[v]
    BY Goes1 DEF ChallengeInv
  <2>3. run'[w].step = s
    BY Goes1 DEF ChallengeInv
  <2>4. status' = to /\ reopened' = (reopened \/ (status \in Challenge!Ended /\ to \notin Challenge!Ended))
    BY DEF Challenge!SetStatus
  <2>5. reopened \in BOOLEAN
    BY DEF ChallengeInv, Challenge!TypeOK
  <2> SUFFICES ASSUME ~reopened' PROVE OneEnding'
    BY DEF OneEnding
  <2>6. ~reopened /\ (status \in Challenge!Ended => to \in Challenge!Ended)
    BY <2>4, <2>5
  <2>7. CASE s = "idle"
    BY <2>1, <2>2, <2>3, <2>4, <2>6, <2>7
       DEF ChallengeInv, OneEnding, Completing, Refunding, Unrefunded
  <2>8. CASE s # "idle"
    <3>1. /\ \A v \in Challenge!Workers : run[v].step \notin Completing \cup Refunding
          /\ Challenge!Winners = {} /\ Unrefunded
      BY <2>6, <2>8 DEF ChallengeInv, OneEnding
    <3> QED
      BY <2>1, <2>2, <2>3, <2>4, <2>6, <2>8, <3>1
         DEF ChallengeInv, OneEnding, Completing, Refunding, Unrefunded
  <2> QED
    BY <2>7, <2>8
<1> QED
  BY <1>1, <1>2, <1>3, <1>4 DEF ChallengeInv

\* Activation, completion and cancellation.
LEMMA StatusSteps ==
  ASSUME ChallengeInv, NEW w \in Challenge!Workers,
         Challenge!Activate(w) \/ Challenge!Complete(w) \/ Challenge!CancelChallenge(w)
  PROVE  ChallengeInv'
<1>1. CASE Challenge!Activate(w)
  BY <1>1, StopGoes, StatusMoves
     DEF Challenge!Activate, Challenge!Does, Challenge!Steps, Challenge!Statuses, Completing, Refunding
<1>2. CASE Challenge!Complete(w) /\ status = "active"
  BY <1>2, StatusMoves
     DEF Challenge!Complete, Challenge!Completable, Challenge!Does, Challenge!Steps,
         Challenge!Statuses, Challenge!Ended, Completing, Refunding
<1>3. CASE Challenge!Complete(w) /\ status # "active"
  BY <1>3, StopGoes, WorkerTurns
     DEF Challenge!Complete, Challenge!Completable, Challenge!Does, Challenge!Steps, Completing
<1>4. CASE Challenge!CancelChallenge(w)
  BY <1>4, StatusMoves
     DEF Challenge!CancelChallenge, Challenge!Cancellable, Challenge!Does, Challenge!Steps,
         Challenge!Statuses, Challenge!Ended, Completing, Refunding
<1> QED
  BY <1>1, <1>2, <1>3, <1>4

\* What an insert makes of the rows: a pending prize for each of the winners listed.
LEMMA Inserting ==
  ASSUME ChallengeInv, NEW w \in Challenge!Workers, Challenge!Insertable(w),
         row' = Challenge!Inserted(w), UNCHANGED granted
  PROVE  /\ row' \in [Users -> {"none", "pending", "successful", "failed"}]
         /\ \A u \in run[w].todo : row'[u] = "pending"
         /\ \A u \in Users \ run[w].todo : row'[u] = row[u]
         /\ Challenge!Winners' = Challenge!Winners \cup run[w].todo
         /\ Challenge!GrantedIffSuccessful'
<1>1. /\ row \in [Users -> {"none", "pending", "successful", "failed"}]
      /\ run[w].todo \in SUBSET Users
  BY DEF ChallengeInv, Challenge!TypeOK
<1>2. \A u \in run[w].todo : row[u] = "none"
  BY <1>1 DEF Challenge!Insertable, Challenge!Winners
<1>3. /\ row' \in [Users -> {"none", "pending", "successful", "failed"}]
      /\ \A u \in run[w].todo : row'[u] = "pending"
      /\ \A u \in Users \ run[w].todo : row'[u] = row[u]
  BY <1>1 DEF Challenge!Inserted
<1>4. Challenge!Winners' = Challenge!Winners \cup run[w].todo
  BY <1>1, <1>3 DEF Challenge!Winners
<1>5. Challenge!GrantedIffSuccessful'
  BY <1>2, <1>3 DEF ChallengeInv, Challenge!GrantedIffSuccessful
<1> QED
  BY <1>3, <1>4, <1>5

\* The insert, with its answer or without: until a challenge is reopened the winners listed
\* are the only ones.
LEMMA StepInsert ==
  ASSUME ChallengeInv, NEW w \in Challenge!Workers,
         Challenge!InsertRows(w) \/ Challenge!InsertThrows(w)
  PROVE  ChallengeInv'
<1> DEFINE T == run[w].todo
<1>0. /\ run[w].step = "insert" /\ T # {} /\ T \in SUBSET Users
      /\ Challenge!TypeOK /\ TodoFits /\ faults \in 0..MaxFaults /\ MaxFaults \in Nat
  BY ChallengeAssumption
     DEF ChallengeInv, TodoFits, Challenge!TypeOK, Challenge!InsertRows, Challenge!InsertThrows,
         Challenge!Insertable, Challenge!Does, Challenge!BoundsAssumption
<1>1. CASE Challenge!InsertThrows(w) /\ row' = row /\ faults' = faults
  BY <1>0, <1>1, StopGoes, WorkerTurns
     DEF Challenge!InsertThrows, Challenge!Steps, Completing
<1>2. CASE /\ Challenge!Insertable(w) /\ row' = Challenge!Inserted(w)
           /\ UNCHANGED <<status, phase, players, charged, refunded, granted, reopened, edits>>
           /\ \/ Challenge!Go(w, "grant", T) /\ UNCHANGED faults
              \/ Challenge!Go(w, "idle", {}) /\ faults' = faults + 1 /\ faults' <= MaxFaults
  <2>1. PICK s \in {"grant", "idle"}, S \in SUBSET Users :
           /\ Challenge!Go(w, s, S)
           /\ s = "grant" => S = T /\ UNCHANGED faults
           /\ s = "idle" => S = {} /\ faults' = faults + 1 /\ faults' <= MaxFaults
    BY <1>0, <1>2
  <2>2. s \in Challenge!Steps
    BY DEF Challenge!Steps
  <2>3. /\ run' \in [Challenge!Workers -> [step : Challenge!Steps, todo : SUBSET Users]]
        /\ run'[w].step = s /\ run'[w].todo = S
        /\ \A v \in Challenge!Workers \ {w} : run'[v] = run[v]
    BY <1>0, <2>1, <2>2, Goes1
  <2>4. /\ row' \in [Users -> {"none", "pending", "successful", "failed"}]
        /\ \A u \in T : row'[u] = "pending"
        /\ \A u \in Users \ T : row'[u] = row[u]
        /\ Challenge!Winners' = Challenge!Winners \cup T
        /\ Challenge!GrantedIffSuccessful'
    BY <1>2, Inserting
  <2>5. faults' \in 0..MaxFaults
    BY <1>0, <2>1
  <2>6. Challenge!TypeOK'
    BY <1>2, <2>3, <2>4, <2>5 DEF ChallengeInv, Challenge!TypeOK
  <2>7. TodoFits'
    BY <1>0, <2>3, <2>1 DEF TodoFits
  <2>8. Challenge!ChargedIffPlaying'
    BY <1>2 DEF ChallengeInv, Challenge!ChargedIffPlaying
  <2>9. Challenge!PendingPrizeIsInHand'
    <3>1. CASE s = "idle"
      <4>1. faults' # 0
        BY <1>0, <2>1, <3>1
      <4> QED
        BY <4>1 DEF Challenge!PendingPrizeIsInHand
    <3>2. CASE s = "grant"
      <4> SUFFICES ASSUME faults = 0, NEW u \in Users, row'[u] = "pending"
                   PROVE  \E v \in Challenge!Workers :
                             run'[v].step \in {"grant", "fail"} /\ u \in run'[v].todo
        BY <2>1, <3>2 DEF Challenge!PendingPrizeIsInHand
      <4>1. CASE u \in T
        BY <2>1, <2>3, <3>2, <4>1
      <4>2. CASE u \notin T
        <5>1. PICK v \in Challenge!Workers :
                 run[v].step \in {"grant", "fail"} /\ u \in run[v].todo
          BY <2>4, <4>2 DEF ChallengeInv, Challenge!PendingPrizeIsInHand
        <5> QED
          BY <1>0, <2>3, <5>1
      <4> QED
        BY <4>1, <4>2
    <3> QED
      BY <3>1, <3>2
  <2>10. OneEnding'
    <3> SUFFICES ASSUME ~reopened PROVE OneEnding'
      BY <1>2 DEF OneEnding
    <3>1. /\ Challenge!Winners = {} /\ Unrefunded
          /\ IsFiniteSet(T) /\ Cardinality(T) <= NumberOfWinners
          /\ status \in Challenge!Ended
          /\ \A v \in Challenge!Workers \ {w} : run[v].step \notin Completing \cup Refunding
      BY <1>0 DEF ChallengeInv, OneEnding, Completing
    <3>2. /\ Challenge!Winners' = T /\ Unrefunded' /\ status' \in Challenge!Ended
      BY <1>2, <2>4, <3>1 DEF Unrefunded
    <3>3. \A v \in Challenge!Workers : run'[v].step \notin Completing \cup Refunding
      BY <2>3, <3>1 DEF Completing, Refunding
    <3> QED
      BY <3>1, <3>2, <3>3 DEF OneEnding, Completing, Refunding, Unrefunded
  <2> QED
    BY <2>4, <2>6, <2>7, <2>8, <2>9, <2>10 DEF ChallengeInv
<1>3. CASE Challenge!InsertRows(w)
  BY <1>2, <1>3 DEF Challenge!InsertRows
<1>4. CASE Challenge!InsertThrows(w) /\ ~(row' = row /\ faults' = faults)
  BY <1>0, <1>2, <1>4, StopGoes DEF Challenge!InsertThrows
<1> QED
  BY <1>1, <1>3, <1>4

\* Steps that settle a prize or take one up: who has a row keeps one.
LEMMA PrizeMoves ==
  ASSUME ChallengeInv, NEW w \in Challenge!Workers,
         NEW s \in {"idle", "grant", "fail"}, NEW T \in SUBSET Users, Challenge!Go(w, s, T),
         s # "idle" => T # {},
         row' \in [Users -> {"none", "pending", "successful", "failed"}],
         granted' \in [Users -> Nat], faults' \in 0..MaxFaults,
         \A u \in Users : row'[u] = "none" <=> row[u] = "none",
         UNCHANGED <<status, phase, players, charged, refunded, reopened, edits>>,
         Challenge!PendingPrizeIsInHand', Challenge!GrantedIffSuccessful'
  PROVE  ChallengeInv'
<1>1. Challenge!TypeOK'
  BY Goes1 DEF ChallengeInv, Challenge!TypeOK, Challenge!Steps
<1>2. TodoFits'
  BY RunMoves DEF ChallengeInv, Challenge!Steps
<1>3. Challenge!ChargedIffPlaying'
  BY DEF ChallengeInv, Challenge!ChargedIffPlaying
<1>4. OneEnding'
  <2>1. Challenge!Winners' = Challenge!Winners /\ (Unrefunded' <=> Unrefunded)
    BY DEF Challenge!Winners, Unrefunded
  <2>2. \A v \in Challenge!Workers : v # w => run'[v] = run[v]
    BY Goes1 DEF ChallengeInv, Challenge!Steps
  <2>3. run'[w].step = s
    BY Goes1 DEF ChallengeInv, Challenge!Steps
  <2> QED
    BY <2>1, <2>2, <2>3 DEF ChallengeInv, OneEnding, Completing, Refunding, Unrefunded
<1> QED
  BY <1>1, <1>2, <1>3, <1>4 DEF ChallengeInv

\* A pending prize that no step has settled is still in hand.
LEMMA OthersInHand ==
  ASSUME ChallengeInv, NEW w \in Challenge!Workers, NEW x \in Users,
         NEW s \in {"idle", "grant", "fail"}, NEW T \in SUBSET Users, Challenge!Go(w, s, T),
         \A u \in Users \ {x} : row'[u] = "pending" => row[u] = "pending",
         row'[x] = "pending" => x \in T,
         T \in {run[w].todo, run[w].todo \ {x}} \/ run[w].step = "idle", T # {} => s # "idle",
         UNCHANGED faults
  PROVE  Challenge!PendingPrizeIsInHand'
<1> SUFFICES ASSUME faults = 0, NEW u \in Users, row'[u] = "pending"
             PROVE  \E v \in Challenge!Workers :
                       run'[v].step \in {"grant", "fail"} /\ u \in run'[v].todo
  BY DEF Challenge!PendingPrizeIsInHand
<1>0. /\ run'[w].step = s /\ run'[w].todo = T
      /\ \A v \in Challenge!Workers \ {w} : run'[v] = run[v]
  BY Goes1 DEF ChallengeInv, Challenge!Steps
<1>1. CASE u = x
  BY <1>0, <1>1
<1>2. CASE u # x
  <2>1. PICK v \in Challenge!Workers : run[v].step \in {"grant", "fail"} /\ u \in run[v].todo
    BY <1>2 DEF ChallengeInv, Challenge!PendingPrizeIsInHand
  <2>2. CASE v = w
    BY <1>0, <1>2, <2>1, <2>2
  <2>3. CASE v # w
    BY <1>0, <2>1, <2>3
  <2> QED
    BY <2>2, <2>3
<1> QED
  BY <1>1, <1>2

\* Claim and grant are one: the row says so and the bonus is there.
LEMMA Paying ==
  ASSUME ChallengeInv, NEW u \in Users, Challenge!Pay(u)
  PROVE  /\ row' \in [Users -> {"none", "pending", "successful", "failed"}]
         /\ granted' \in [Users -> Nat]
         /\ \A v \in Users : row'[v] = IF v = u THEN "successful" ELSE row[v]
         /\ row[u] = "pending"
         /\ Challenge!GrantedIffSuccessful'
BY DEF ChallengeInv, Challenge!TypeOK, Challenge!Pay, Challenge!GrantedIffSuccessful

\* dispatchBonusCredits and the retry of a failed prize.
LEMMA DispatchSteps ==
  ASSUME ChallengeInv, NEW w \in Challenge!Workers,
         Challenge!Dispatch(w) \/ \E u \in Users : Challenge!RetryDisbursement(w, u)
  PROVE  ChallengeInv'
<1> DEFINE x == Challenge!Now(w)
           T == run[w].todo
<1>0. /\ Challenge!TypeOK /\ TodoFits /\ Challenge!GrantedIffSuccessful
      /\ row \in [Users -> {"none", "pending", "successful", "failed"}]
      /\ granted \in [Users -> Nat] /\ faults \in 0..MaxFaults /\ MaxFaults \in Nat
      /\ T \in SUBSET Users
  BY ChallengeAssumption DEF ChallengeInv, Challenge!TypeOK, Challenge!BoundsAssumption
<1>1. T # {} => x \in T /\ x \in Users
  BY <1>0, NowIsOne
<1>2. run[w].step \in {"grant", "fail"} => T # {}
  BY <1>0 DEF TodoFits
<1>3. CASE Challenge!GrantCredits(w)
  <2>1. run[w].step = "grant" /\ T # {} /\ x \in T /\ x \in Users
    BY <1>1, <1>2, <1>3 DEF Challenge!GrantCredits, Challenge!Does
  <2>2. PICK s \in {"idle", "grant"}, S \in SUBSET Users :
           Challenge!Go(w, s, S) /\ S = T \ {x} /\ (S # {} => s = "grant") /\ (S = {} => s = "idle")
    BY <1>0, <1>3, <2>1, AdvanceGoes DEF Challenge!GrantCredits
  <2>3. /\ row' \in [Users -> {"none", "pending", "successful", "failed"}]
        /\ granted' \in [Users -> Nat] /\ Challenge!GrantedIffSuccessful'
        /\ row'[x] # "pending"
        /\ \A u \in Users : row'[u] = row[u] \/ (u = x /\ row[x] = "pending" /\ row'[x] = "successful")
    <3>1. CASE Challenge!Pay(x)
      BY <2>1, <3>1, Paying
    <3>2. CASE ~Challenge!Pay(x)
      BY <1>0, <1>3, <3>2 DEF Challenge!GrantCredits, Challenge!GrantedIffSuccessful
    <3> QED
      BY <3>1, <3>2
  <2>4. UNCHANGED <<status, phase, players, charged, refunded, reopened, edits, faults>>
    BY <1>3 DEF Challenge!GrantCredits
  <2>5. Challenge!PendingPrizeIsInHand'
    BY <2>1, <2>2, <2>3, <2>4, OthersInHand
  <2> HIDE DEF x, T
  <2> QED
    BY <1>0, <2>1, <2>2, <2>3, <2>4, <2>5, PrizeMoves
<1>4. CASE Challenge!GrantThrows(w)
  <2>1. run[w].step = "grant" /\ T # {} /\ x \in T /\ x \in Users /\ Challenge!Go(w, "fail", T)
    BY <1>1, <1>2, <1>4 DEF Challenge!GrantThrows, Challenge!Does
  <2>2. UNCHANGED <<status, phase, players, charged, refunded, reopened, edits>>
    BY <1>4 DEF Challenge!GrantThrows
  <2>3. CASE Challenge!Pay(x) /\ faults < MaxFaults /\ faults' = faults + 1
    <3>1. /\ row' \in [Users -> {"none", "pending", "successful", "failed"}]
          /\ granted' \in [Users -> Nat] /\ Challenge!GrantedIffSuccessful'
          /\ \A u \in Users : row'[u] = "none" <=> row[u] = "none"
      BY <2>1, <2>3, Paying
    <3>2. faults' \in 0..MaxFaults /\ faults' # 0
      BY <1>0, <2>3
    <3>3. Challenge!PendingPrizeIsInHand'
      BY <3>2 DEF Challenge!PendingPrizeIsInHand
    <3> QED
      BY <1>0, <2>1, <2>2, <3>1, <3>2, <3>3, PrizeMoves
  <2>4. CASE UNCHANGED <<row, granted, faults>>
    <3>1. Challenge!PendingPrizeIsInHand'
      BY <1>0, <2>1, <2>4, HandsKeep DEF ChallengeInv, Challenge!Steps
    <3>2. Challenge!GrantedIffSuccessful'
      BY <1>0, <2>4 DEF Challenge!GrantedIffSuccessful
    <3> QED
      BY <1>0, <2>1, <2>2, <2>4, <3>1, <3>2, PrizeMoves
  <2> QED
    BY <1>4, <2>3, <2>4 DEF Challenge!GrantThrows
<1>5. CASE Challenge!RecordGrantFailure(w)
  <2>1. run[w].step = "fail" /\ T # {} /\ x \in T /\ x \in Users
    BY <1>1, <1>2, <1>5 DEF Challenge!RecordGrantFailure, Challenge!Does
  <2>2. PICK s \in {"idle", "grant"}, S \in SUBSET Users :
           Challenge!Go(w, s, S) /\ S = T \ {x} /\ (S # {} => s = "grant") /\ (S = {} => s = "idle")
    BY <1>0, <1>5, <2>1, AdvanceGoes DEF Challenge!RecordGrantFailure
  <2>3. /\ row' \in [Users -> {"none", "pending", "successful", "failed"}]
        /\ row'[x] # "pending"
        /\ \A u \in Users : row'[u] = row[u] \/ (u = x /\ row[x] = "pending" /\ row'[x] = "failed")
    BY <1>0, <1>5, <2>1 DEF Challenge!RecordGrantFailure, Challenge!Failable
  <2>4. UNCHANGED <<status, phase, players, charged, refunded, granted, reopened, edits, faults>>
    BY <1>5 DEF Challenge!RecordGrantFailure
  <2>5. Challenge!PendingPrizeIsInHand'
    BY <2>1, <2>2, <2>3, <2>4, OthersInHand
  <2>6. Challenge!GrantedIffSuccessful'
    BY <1>0, <2>3, <2>4 DEF Challenge!GrantedIffSuccessful
  <2> HIDE DEF x, T
  <2> QED
    BY <1>0, <2>1, <2>2, <2>3, <2>4, <2>5, <2>6, PrizeMoves
<1>6. ASSUME NEW u \in Users, Challenge!RetryDisbursement(w, u) PROVE ChallengeInv'
  <2>1. /\ run[w].step = "idle" /\ row[u] = "failed" /\ row' = [row EXCEPT ![u] = "pending"]
        /\ Challenge!Go(w, "grant", {u})
        /\ UNCHANGED <<status, phase, players, charged, refunded, granted, reopened, edits, faults>>
    BY <1>6 DEF Challenge!RetryDisbursement, Challenge!Does
  <2>2. /\ row' \in [Users -> {"none", "pending", "successful", "failed"}]
        /\ \A v \in Users : row'[v] = IF v = u THEN "pending" ELSE row[v]
    BY <1>0, <2>1
  <2>3. Challenge!PendingPrizeIsInHand'
    BY <2>1, <2>2, OthersInHand
  <2>4. Challenge!GrantedIffSuccessful'
    BY <1>0, <2>1, <2>2 DEF Challenge!GrantedIffSuccessful
  <2> QED
    BY <1>0, <2>1, <2>2, <2>3, <2>4, PrizeMoves
<1> QED
  BY <1>3, <1>4, <1>5, <1>6 DEF Challenge!Dispatch

\* The refunds: until a challenge is reopened the cancel that gives back is the only one,
\* gives back to nobody twice, and there are no prizes beside it.
LEMMA RefundSteps ==
  ASSUME ChallengeInv, NEW w \in Challenge!Workers,
         Challenge!RefundPlayer(w) \/ Challenge!RefundThrows(w)
  PROVE  ChallengeInv'
<1> DEFINE x == Challenge!Now(w)
           T == run[w].todo
<1>0. /\ run[w].step = "refund" /\ T # {} /\ T \in SUBSET Users
      /\ Challenge!TypeOK /\ TodoFits /\ refunded \in [Users -> Nat]
  BY DEF ChallengeInv, TodoFits, Challenge!TypeOK, Challenge!RefundPlayer,
         Challenge!RefundThrows, Challenge!Does
<1>1. x \in T /\ x \in Users
  BY <1>0, NowIsOne
<1>2. /\ UNCHANGED <<status, phase, players, charged, row, granted, reopened, edits, faults>>
      /\ refunded' = refunded \/ refunded' = [refunded EXCEPT ![x] = @ + 1]
  BY DEF Challenge!RefundPlayer, Challenge!RefundThrows
<1>3. PICK s \in {"idle", "refund"}, S \in SUBSET Users :
         /\ Challenge!Go(w, s, S) /\ (S # {} => s = "refund") /\ (S = {} => s = "idle")
         /\ S \subseteq T \ {x}
  <2>1. CASE Challenge!RefundPlayer(w)
    BY <1>0, <2>1, AdvanceGoes DEF Challenge!RefundPlayer
  <2>2. CASE Challenge!RefundThrows(w)
    BY <2>2, StopGoes DEF Challenge!RefundThrows
  <2> QED
    BY <2>1, <2>2
<1> HIDE DEF x, T
<1>4. refunded' \in [Users -> Nat]
  BY <1>0, <1>1, <1>2
<1>5. Challenge!TypeOK'
  BY <1>2, <1>3, <1>4, Goes1 DEF ChallengeInv, Challenge!TypeOK, Challenge!Steps
<1>6. TodoFits' /\ Challenge!PendingPrizeIsInHand'
  BY <1>0, <1>2, <1>3, RunMoves, HandsKeep DEF ChallengeInv, Challenge!Steps
<1>7. Challenge!ChargedIffPlaying' /\ Challenge!GrantedIffSuccessful'
  BY <1>2 DEF ChallengeInv, Challenge!ChargedIffPlaying, Challenge!GrantedIffSuccessful
<1>8. OneEnding'
  <2> SUFFICES ASSUME ~reopened PROVE OneEnding'
    BY <1>2 DEF OneEnding
  <2>1. /\ Challenge!Winners = {} /\ status \in Challenge!Ended
        /\ \A u \in T : refunded[u] = 0
        /\ \A u \in Users : refunded[u] <= 1
        /\ \A v \in Challenge!Workers \ {w} : run[v].step \notin Completing \cup Refunding
        /\ IsFiniteSet(Challenge!Winners) /\ Cardinality(Challenge!Winners) <= NumberOfWinners
    BY <1>0 DEF ChallengeInv, OneEnding, Completing, Refunding, T
  <2>2. Challenge!Winners' = Challenge!Winners
    BY <1>2 DEF Challenge!Winners
  <2>3. \A v \in Challenge!Workers : v # w => run'[v] = run[v]
    BY <1>3, Goes1 DEF ChallengeInv, Challenge!Steps
  <2>4. run'[w].step = s /\ run'[w].todo = S
    BY <1>3, Goes1 DEF ChallengeInv, Challenge!Steps
  <2>5. \A u \in Users : refunded'[u] = refunded[u] \/ (u = x /\ refunded'[u] = refunded[u] + 1)
    BY <1>0, <1>1, <1>2
  <2>6. \A u \in Users : refunded'[u] <= 1
    BY <1>0, <1>1, <2>1, <2>5
  <2>7. \A u \in S : refunded'[u] = 0
    BY <1>0, <1>3, <2>1, <2>5
  <2> QED
    BY <1>2, <2>1, <2>2, <2>3, <2>4, <2>6, <2>7
       DEF OneEnding, Completing, Refunding, Unrefunded
<1> QED
  BY <1>5, <1>6, <1>7, <1>8 DEF ChallengeInv

\* A PATCH, the clock, a restart.
LEMMA OtherSteps ==
  ASSUME ChallengeInv,
         \/ \E s \in (Challenge!Statuses \ {"cancelled"}) \cup {status}, ph \in Challenge!Phases :
               Challenge!UpdateChallenge(s, ph)
         \/ Challenge!TimePasses \/ Challenge!Crash
  PROVE  ChallengeInv'
<1>0. Challenge!TypeOK /\ MaxEdits \in Nat /\ MaxFaults \in Nat /\ reopened \in BOOLEAN
  BY ChallengeAssumption DEF ChallengeInv, Challenge!TypeOK, Challenge!BoundsAssumption
<1>1. /\ UNCHANGED <<players, charged, refunded, row, granted>>
      /\ status' \in Challenge!Statuses /\ reopened' \in BOOLEAN
      /\ ~reopened' => ~reopened /\ (status \in Challenge!Ended => status' \in Challenge!Ended)
      /\ phase' \in Challenge!Phases /\ edits' \in 0..MaxEdits
  <2>1. ASSUME NEW s \in (Challenge!Statuses \ {"cancelled"}) \cup {status},
               NEW ph \in Challenge!Phases, Challenge!UpdateChallenge(s, ph)
        PROVE  /\ UNCHANGED <<players, charged, refunded, row, granted>>
               /\ status' \in Challenge!Statuses /\ reopened' \in BOOLEAN
               /\ ~reopened' => ~reopened /\ (status \in Challenge!Ended => status' \in Challenge!Ended)
               /\ phase' \in Challenge!Phases /\ edits' \in 0..MaxEdits
    <3>1. s \in Challenge!Statuses /\ edits \in 0..MaxEdits
      BY <1>0 DEF Challenge!TypeOK
    <3>2. edits < MaxEdits /\ edits' = edits + 1
      BY <2>1 DEF Challenge!UpdateChallenge
    <3>3. edits' \in 0..MaxEdits
      BY <1>0, <3>1, <3>2
    <3>4. /\ UNCHANGED <<players, charged, refunded, row, granted>> /\ phase' = ph
          /\ status' = s
          /\ reopened' = (reopened \/ (status \in Challenge!Ended /\ s \notin Challenge!Ended))
      BY <2>1 DEF Challenge!UpdateChallenge, Challenge!SetStatus
    <3> QED
      BY <1>0, <3>1, <3>3, <3>4
  <2>2. CASE Challenge!TimePasses
    BY <1>0, <2>2 DEF Challenge!TypeOK, Challenge!TimePasses, Challenge!Phases
  <2>3. CASE Challenge!Crash
    BY <1>0, <2>3 DEF Challenge!TypeOK, Challenge!Crash
  <2> QED
    BY <2>1, <2>2, <2>3
<1>2. /\ faults' \in 0..MaxFaults
      /\ \/ UNCHANGED <<run, faults>>
         \/ run' = [w \in Challenge!Workers |-> Challenge!Idle] /\ faults' # 0
  BY <1>0 DEF Challenge!TypeOK, Challenge!UpdateChallenge, Challenge!TimePasses, Challenge!Crash
<1>3. /\ run' \in [Challenge!Workers -> [step : Challenge!Steps, todo : SUBSET Users]]
      /\ \A w \in Challenge!Workers : run'[w] = run[w] \/ run'[w].step = "idle"
  BY <1>0, <1>2 DEF Challenge!TypeOK, Challenge!Idle, Challenge!Steps
<1>4. Challenge!TypeOK'
  BY <1>0, <1>1, <1>2, <1>3 DEF Challenge!TypeOK
<1>5. TodoFits'
  BY <1>3 DEF ChallengeInv, TodoFits
<1>6. Challenge!ChargedIffPlaying' /\ Challenge!GrantedIffSuccessful'
  BY <1>1 DEF ChallengeInv, Challenge!ChargedIffPlaying, Challenge!GrantedIffSuccessful
<1>7. Challenge!PendingPrizeIsInHand'
  BY <1>1, <1>2 DEF ChallengeInv, Challenge!PendingPrizeIsInHand
<1>8. OneEnding'
  <2>1. Challenge!Winners' = Challenge!Winners /\ (Unrefunded' <=> Unrefunded)
    BY <1>1 DEF Challenge!Winners, Unrefunded
  <2> QED
    BY <1>1, <1>3, <2>1 DEF ChallengeInv, OneEnding, Completing, Refunding, Unrefunded
<1> QED
  BY <1>4, <1>5, <1>6, <1>7, <1>8 DEF ChallengeInv

\* Every step of a challenge preserves its invariant.
LEMMA NextChallenge ==
  ASSUME ChallengeInv, Challenge!Next
  PROVE  ChallengeInv'
<1>1. ASSUME NEW w \in Scans, Challenge!Scan(w) PROVE ChallengeInv'
  <2>1. w \in Challenge!Workers
    BY DEF Challenge!Workers
  <2> QED
    BY <1>1, <2>1, TurningSteps, StatusSteps, StepInsert, DispatchSteps DEF Challenge!Scan
<1>2. ASSUME NEW w \in Requests, Challenge!Request(w) PROVE ChallengeInv'
  <2>1. w \in Challenge!Workers
    BY DEF Challenge!Workers
  <2> QED
    BY <1>2, <2>1, TurningSteps, StepCommitPlay, StatusSteps, DispatchSteps, RefundSteps
       DEF Challenge!Request
<1> QED
  BY <1>1, <1>2, OtherSteps DEF Challenge!Next

\* A challenge starts with it.
LEMMA InitChallenge == Challenge!Init => ChallengeInv
<1> SUFFICES ASSUME Challenge!Init PROVE ChallengeInv
  OBVIOUS
<1>1. MaxEdits \in Nat /\ MaxFaults \in Nat /\ NumberOfWinners \in Nat
  BY ChallengeAssumption DEF Challenge!BoundsAssumption
<1>2. /\ \A u \in Users : charged[u] = 0 /\ refunded[u] = 0 /\ row[u] = "none" /\ granted[u] = 0
      /\ \A w \in Challenge!Workers : run[w].step = "idle"
      /\ players = {} /\ Challenge!Winners = {}
  BY DEF Challenge!Init, Challenge!Idle, Challenge!Winners
<1>3. Challenge!TypeOK
  <2>1. run \in [Challenge!Workers -> [step : Challenge!Steps, todo : SUBSET Users]]
    BY DEF Challenge!Init, Challenge!Idle, Challenge!Steps
  <2>2. edits \in 0..MaxEdits /\ faults \in 0..MaxFaults
    BY <1>1 DEF Challenge!Init
  <2>3. /\ charged \in [Users -> Nat] /\ refunded \in [Users -> Nat] /\ granted \in [Users -> Nat]
        /\ row \in [Users -> {"none", "pending", "successful", "failed"}]
    BY DEF Challenge!Init
  <2> QED
    BY <2>1, <2>2, <2>3 DEF Challenge!Init, Challenge!TypeOK
<1>4. TodoFits
  BY <1>2 DEF TodoFits
<1>5. /\ Challenge!ChargedIffPlaying /\ Challenge!GrantedIffSuccessful
      /\ Challenge!PendingPrizeIsInHand
  BY <1>2 DEF Challenge!ChargedIffPlaying, Challenge!GrantedIffSuccessful,
              Challenge!PendingPrizeIsInHand
<1>6. OneEnding
  BY <1>1, <1>2, FS_EmptySet DEF OneEnding, Completing, Refunding, Unrefunded
<1> QED
  BY <1>3, <1>4, <1>5, <1>6 DEF ChallengeInv

-----------------------------------------------------------------------------
(* Theorems                                                                 *)

CreditsInv ==
    /\ LedgerInv
    /\ Is("challenge") => ChallengeInv

\* Whichever of the two a behaviour is about, its invariant holds.
THEOREM CreditsInvHolds == CreditsSpec => []CreditsInv
<1>1. CreditsInit => CreditsInv
  BY InitLedger, InitChallenge DEF CreditsInit, CreditsInv, Is
<1>2. CreditsInv /\ [CreditsNext]_all => CreditsInv'
  <2> SUFFICES ASSUME CreditsInv, [CreditsNext]_all PROVE CreditsInv'
    OBVIOUS
  <2>1. CASE LedgerStep
    BY <2>1, NextLedger DEF CreditsInv, LedgerStep, Is
  <2>2. CASE ChallengeStep
    <3>1. LedgerInv'
      <4>1. LedgerInv /\ UNCHANGED vars
        BY <2>2 DEF CreditsInv, ChallengeStep
      <4> QED
        BY <4>1 DEF LedgerInv, vars, TypeOK, BalanceIsExplained, BalanceNeverNegative,
                    LedgerExplainsBalance, SplitIsBalance, PinnedReadingsHold, Fresh,
                    OwedWithinGiven, Owed, OwedBy
    <3>2. ChallengeInv'
      BY <2>2, NextChallenge DEF CreditsInv, ChallengeStep
    <3> QED
      BY <3>1, <3>2 DEF CreditsInv
  <2>3. CASE UNCHANGED all
    <3>1. LedgerInv'
      <4>1. LedgerInv /\ UNCHANGED vars
        BY <2>3 DEF CreditsInv, all
      <4> QED
        BY <4>1 DEF LedgerInv, vars, TypeOK, BalanceIsExplained, BalanceNeverNegative,
                    LedgerExplainsBalance, SplitIsBalance, PinnedReadingsHold, Fresh,
                    OwedWithinGiven, Owed, OwedBy
    <3>2. Is("challenge")' => ChallengeInv'
      BY <2>3 DEF CreditsInv, all, challenge, Is, ChallengeInv, Challenge!TypeOK, TodoFits,
                  Challenge!ChargedIffPlaying, Challenge!GrantedIffSuccessful,
                  Challenge!PendingPrizeIsInHand, OneEnding, Challenge!Winners, Unrefunded
    <3> QED
      BY <3>1, <3>2 DEF CreditsInv
  <2> QED
    BY <2>1, <2>2, <2>3 DEF CreditsNext
<1> QED
  BY <1>1, <1>2, PTL DEF CreditsSpec

\* The balance is never negative, the ledger explains it, and until a stale reading is
\* acted on free and paid credits are what it consists of.
THEOREM BalanceExplained == CreditsSpec => []BalanceIsExplained
<1>1. CreditsInv => BalanceIsExplained
  BY DEF CreditsInv, LedgerInv
<1> QED
  BY <1>1, CreditsInvHolds, PTL

\* Who plays has been charged once, and nobody else.
THEOREM PlayersCharged == CreditsSpec => []ChargedIffPlaying
<1>1. CreditsInv => ChargedIffPlaying
  BY DEF CreditsInv, ChallengeInv, ChargedIffPlaying
<1> QED
  BY <1>1, CreditsInvHolds, PTL

\* What winners hold is what the rows say, and there are no more of them than prizes.
THEOREM PrizesFollow == CreditsSpec => []PrizesFollowRows
<1>1. CreditsInv => PrizesFollowRows
  BY SameCardinality
     DEF CreditsInv, ChallengeInv, PrizesFollowRows, Challenge!PrizesFollowRows,
         Challenge!PrizesWithinLimit, OneEnding
<1> QED
  BY <1>1, CreditsInvHolds, PTL

\* Nobody is refunded twice, or beside a prize, unless an ended challenge was reopened.
THEOREM RefundedOnce == CreditsSpec => []RefundedOnceUnlessReopened
<1>1. CreditsInv => RefundedOnceUnlessReopened
  BY DEF CreditsInv, ChallengeInv, RefundedOnceUnlessReopened,
         Challenge!RefundedOnceUnlessReopened, OneEnding, Unrefunded, Challenge!Winners
<1> QED
  BY <1>1, CreditsInvHolds, PTL

\* A challenge that is over changes its status only by a PATCH or by a run that read it
\* while it was scheduled.
LEMMA EndedStays ==
  ASSUME ChallengeInv, Challenge!Next
  PROVE  Challenge!OnlyStaleScanIfChanged
<1> SUFFICES ASSUME status \in Challenge!Ended, status' # status
             PROVE  edits' # edits \/ \E s \in Scans : Challenge!Does(s, "activate") /\ status' = "active"
  BY DEF Challenge!OnlyStaleScanIfChanged
<1>1. edits \in Nat
  BY ChallengeAssumption DEF ChallengeInv, Challenge!TypeOK, Challenge!BoundsAssumption
<1>2. ASSUME NEW s \in Scans, Challenge!Scan(s)
      PROVE  Challenge!Does(s, "activate") /\ status' = "active"
  <2>1. status # "active"
    BY DEF Challenge!Ended
  <2> QED
    BY <1>2, <2>1
       DEF Challenge!Scan, Challenge!StartScan, Challenge!Activate, Challenge!SetStatus,
           Challenge!Complete, Challenge!Completable, Challenge!ListWinners,
           Challenge!BeginRows, Challenge!InsertRows, Challenge!InsertThrows,
           Challenge!Dispatch, Challenge!GrantCredits, Challenge!GrantThrows,
           Challenge!RecordGrantFailure
<1>3. ASSUME NEW q \in Requests, Challenge!Request(q) PROVE FALSE
  BY <1>3
     DEF Challenge!Request, Challenge!CheckPlay, Challenge!CommitPlay, Challenge!RejectPlay,
         Challenge!Dispatch, Challenge!GrantCredits, Challenge!GrantThrows,
         Challenge!RecordGrantFailure, Challenge!RetryDisbursement,
         Challenge!CancelChallenge, Challenge!Cancellable, Challenge!ListPlayers,
         Challenge!RefundPlayer, Challenge!RefundThrows
<1>4. ASSUME NEW s, NEW ph, Challenge!UpdateChallenge(s, ph) PROVE edits' # edits
  BY <1>1, <1>4 DEF Challenge!UpdateChallenge
<1> QED
  BY <1>2, <1>3, <1>4 DEF Challenge!Next, Challenge!TimePasses, Challenge!Crash

\* Only who had read before overtakes: of the split, and of the end of a challenge.
THEOREM OnlyStaleOvertake == CreditsSpec => OnlyStaleReadersOvertake
<1>1. CreditsInv /\ [CreditsNext]_all =>
          [(~skewed /\ skewed') =>
              \/ \E t \in Tasks : job[t].step = "charge" /\ ~job[t].pinned /\ job'[t].step = "idle"
              \/ job[Sync].step = "reset"]_vars
  BY SkewIsLate DEF CreditsInv, CreditsNext, LedgerStep, ChallengeStep, all
<1>2. CreditsInv /\ [CreditsNext]_all =>
          [Is("challenge") => Challenge!OnlyStaleScanIfChanged]_all
  <2>1. ASSUME LedgerStep PROVE ~Is("challenge")
    BY <2>1 DEF LedgerStep, Is
  <2> QED
    BY <2>1, EndedStays DEF CreditsInv, CreditsNext, ChallengeStep
<1> QED
  BY <1>1, <1>2, CreditsInvHolds, PTL
     DEF CreditsSpec, OnlyStaleReadersOvertake, OnlyLateReadersSkew
=============================================================================
