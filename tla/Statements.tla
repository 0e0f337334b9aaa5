------------------------------ MODULE Statements ------------------------------
(***************************************************************************)
(* One listener's statements (src/src/module/listenerStatement): each message *)
(* sent and each call answered is charged by a row of the ledger, and booked  *)
(* by a statement that nobody waits for; a repair after each start turns both *)
(* free for a listener who never bought a credit.  Staff, partners and the    *)
(* listener read the statements as a list, as totals and one by one.          *)
(***************************************************************************)
EXTENDS Naturals, FiniteSets

CONSTANTS
    Messages, Calls,     \* what the listener sends, and the calls that get answered
    StationOf, ShowOf,   \* [sources -> the station and the show each was for]
    PartnerOf,           \* [stations -> the partner each belongs to]
    Viewers,             \* who asks: [role, id], id the listener's, station's, partner's or show's
    Anywhere,            \* a query that names no station, the id of who has no station
    MaxRestarts          \* bound: restarts of the process

Sources  == Messages \cup Calls
Stations == DOMAIN PartnerOf

StatementsAssumption ==
    /\ Messages \cap Calls = {} /\ IsFiniteSet(Sources)
    /\ Anywhere \notin Stations
    /\ StationOf \in [Sources -> Stations]
    /\ DOMAIN ShowOf = Sources
    /\ MaxRestarts \in Nat

VARIABLES
    row,          \* the ledger's row of each charge: "none", "paid" or "free"
    statement,    \* its statement, likewise
    booking,      \* what is left to do for it, and with which isFree
    given,        \* which of "grant" and "purchase" rows exist
    sync,         \* the repair's next step
    late,         \* history: the first purchase came during a repair
    cut,          \* history: a repair ended between the rows and the statements
    held,         \* history: charges being booked as paid while their rows were turned free
    restarts

vars == <<row, statement, booking, given, sync, late, cut, held, restarts>>

Granted == "grant" \in given
Bought  == "purchase" \in given

Booked == {"none", "paid", "free"}
Idle   == [step |-> "idle", as |-> "none"]

TypeOK ==
    /\ row       \in [Sources -> Booked]
    /\ statement \in [Sources -> Booked]
    /\ booking   \in [Sources -> [step : {"idle", "look up", "create"}, as : Booked]]
    /\ given     \subseteq {"grant", "purchase"}
    /\ sync      \in {"find", "check", "rows", "statements", "done"}
    /\ late      \in BOOLEAN /\ cut \in BOOLEAN
    /\ held      \subseteq Sources
    /\ restarts  \in 0..MaxRestarts

Init ==
    /\ row       = [s \in Sources |-> "none"]
    /\ statement = [s \in Sources |-> "none"]
    /\ booking   = [s \in Sources |-> Idle]
    /\ given     = {}
    /\ sync      = "find"
    /\ late      = FALSE /\ cut = FALSE
    /\ held      = {}
    /\ restarts  = 0

-----------------------------------------------------------------------------
(* Charges and their statements.                                            *)

\* isUserOnFreeCredits: granted and nothing bought is free; else the split decides.
Charges == IF Granted /\ ~Bought THEN {"free"} ELSE {"free", "paid"}

\* A message's charge hands isFree on; an answered call's is looked up at its end.
Charge(s) ==
    /\ row[s] = "none"
    /\ \E as \in Charges :
          /\ row' = [row EXCEPT ![s] = as]
          /\ booking' = [booking EXCEPT ![s] =
                IF s \in Messages THEN [step |-> "create", as |-> as]
                                  ELSE [step |-> "look up", as |-> "none"]]
    /\ UNCHANGED <<statement, given, sync, late, cut, held, restarts>>

LookUp(s) ==
    /\ booking[s].step = "look up"
    /\ booking' = [booking EXCEPT ![s] = [step |-> "create", as |-> row[s]]]
    /\ UNCHANGED <<row, statement, given, sync, late, cut, held, restarts>>

\* createStatementFromMessage and createStatementFromCall.
Create(s) ==
    /\ booking[s].step = "create"
    /\ statement' = [statement EXCEPT ![s] = booking[s].as]
    /\ booking' = [booking EXCEPT ![s] = Idle]
    /\ UNCHANGED <<row, given, sync, late, cut, held, restarts>>

\* An error, or no station or country any more: logged, and no statement.
BookingFails(s) ==
    /\ booking[s].step # "idle"
    /\ booking' = [booking EXCEPT ![s] = Idle]
    /\ UNCHANGED <<row, statement, given, sync, late, cut, held, restarts>>

Grant ==
    /\ ~Granted
    /\ given' = given \cup {"grant"}
    /\ UNCHANGED <<row, statement, booking, sync, late, cut, held, restarts>>

Purchase ==
    /\ ~Bought
    /\ given' = given \cup {"purchase"}
    /\ late' = (sync \in {"rows", "statements"})
    /\ UNCHANGED <<row, statement, booking, sync, cut, held, restarts>>

-----------------------------------------------------------------------------
(* syncFreeListenerStatements, once after every start.                      *)

SyncFinds ==
    /\ sync = "find"
    /\ sync' = IF Granted THEN "check" ELSE "done"
    /\ UNCHANGED <<row, statement, booking, given, late, cut, held, restarts>>

NeverBought == ~Bought

SyncChecks ==
    /\ sync = "check"
    /\ sync' = IF NeverBought THEN "rows" ELSE "done"
    /\ UNCHANGED <<row, statement, booking, given, late, cut, held, restarts>>

Freed(booked) == [s \in Sources |-> IF booked[s] = "none" THEN "none" ELSE "free"]

\* Mutant: only the charges are turned free.
StatementsKept == statement

FreedStatements == Freed(statement)

SyncRows ==
    /\ sync = "rows"
    /\ row' = Freed(row)
    /\ held' = held \cup {s \in Sources : booking[s] = [step |-> "create", as |-> "paid"]}
    /\ sync' = "statements"
    /\ UNCHANGED <<statement, booking, given, late, cut, restarts>>

SyncStatements ==
    /\ sync = "statements"
    /\ statement' = FreedStatements
    /\ sync' = "done"
    /\ UNCHANGED <<row, booking, given, late, cut, held, restarts>>

SyncFails ==
    /\ sync # "done"
    /\ sync' = "done"
    /\ cut' = (cut \/ sync = "statements")
    /\ UNCHANGED <<row, statement, booking, given, late, held, restarts>>

Restart ==
    /\ restarts < MaxRestarts
    /\ restarts' = restarts + 1
    /\ booking' = [s \in Sources |-> Idle]
    /\ sync' = "find"
    /\ cut' = (cut \/ sync = "statements")
    /\ UNCHANGED <<row, statement, given, late, held>>

Sync == SyncFinds \/ SyncChecks \/ SyncRows \/ SyncStatements \/ SyncFails

Next ==
    \/ \E s \in Sources : Charge(s) \/ LookUp(s) \/ Create(s) \/ BookingFails(s)
    \/ Grant \/ Purchase
    \/ Sync
    \/ Restart

Spec == Init /\ [][Next]_vars

-----------------------------------------------------------------------------
(* What a viewer v is shown.                                                *)

Statements == {s \in Sources : statement[s] # "none"}

StaffRoles == {"station_admin", "media_station", "customer_care"}

\* An agent of customer care has a station only if an administrator gave him one.
HasStation(v) == v.id # Anywhere

\* buildScopeFilter and resolveScopeFilters: staff without a station are not scoped.
InScope(v, s) ==
    CASE v.role = "user"          -> v.id = "listener"
      [] v.role \in StaffRoles    -> HasStation(v) => StationOf[s] = v.id
      [] v.role = "partner_admin" -> PartnerOf[StationOf[s]] = v.id
      [] v.role = "presenter"     -> ShowOf[s] = v.id
      [] OTHER                    -> TRUE

\* validateStationFilter: a station the viewer may not name is ignored.
MayName(v, station) ==
    CASE v.role \in StaffRoles    -> station = v.id
      [] v.role = "partner_admin" -> PartnerOf[station] = v.id
      [] v.role = "presenter"     -> \E s \in Sources : ShowOf[s] = v.id /\ StationOf[s] = station
      [] OTHER                    -> TRUE

Asked(v, station, s) ==
    InScope(v, s) /\ (station # Anywhere /\ MayName(v, station) => StationOf[s] = station)

\* getAllStatements, without paging, and getKPIs over the same statements.
Listed(v, station) == {s \in Statements : Asked(v, station, s)}

\* getAggregation: isFree is no filter, but free statements bring no revenue.
Kpis(v, station) ==
    LET all == {s \in Statements : Asked(v, station, s)} IN
    [interactions |-> Cardinality(all),
     messages     |-> Cardinality(all \cap Messages),
     calls        |-> Cardinality(all \cap Calls),
     revenue      |-> Cardinality({s \in all : statement[s] = "paid"})]

\* exportStatements looks at no station.
Exported(v) == {s \in Statements : InScope(v, s)}

\* getStatementById: staff without a station may open none.
MayOpen(v, s) ==
    /\ v.role = "user" => v.id = "listener"
    /\ v.role \in StaffRoles => StationOf[s] = v.id
    /\ v.role = "partner_admin" => PartnerOf[StationOf[s]] = v.id
    /\ v.role = "presenter" => ShowOf[s] = v.id

-----------------------------------------------------------------------------
\* A statement says of its charge what the ledger says, but for charges booked while
\* the repair turned them free, a repair cut short, or a first purchase during one.
StatementsFollowLedger ==
    (sync # "statements" /\ ~late /\ ~cut) =>
        \A s \in Statements \ held : statement[s] = row[s]

\* What a viewer finds in his list he finds in his export and finds counted, and he may
\* open it, but for staff without a station: they are listed everybody's and may open none.
ReportsAgree ==
    \A v \in Viewers, station \in Stations \cup {Anywhere} :
        LET listed == Listed(v, station)
            kpis   == Kpis(v, station) IN
        /\ IF v.role \in StaffRoles /\ ~HasStation(v)
           THEN listed = Statements /\ \A s \in listed : ~MayOpen(v, s)
           ELSE /\ \A s \in listed : MayOpen(v, s)
                /\ station = Anywhere => listed = {s \in Statements : MayOpen(v, s)}
        /\ listed \subseteq Exported(v)
        /\ kpis.messages + kpis.calls = Cardinality(listed)
        /\ ~late /\ ~cut /\ sync # "statements" =>
               \/ kpis.revenue = Cardinality({s \in listed : row[s] = "paid"})
               \/ listed \cap held # {}

\* The charges of a listener who had bought credits before a repair looked stay paid.
LateSyncIfFreed ==
    \A s \in Sources : (row[s] = "paid" /\ row'[s] = "free") => ~Bought \/ late

BoughtStaysPaid == [][LateSyncIfFreed]_vars

-----------------------------------------------------------------------------
(* Why: a repair that turns charges free has found that nothing was bought,   *)
(* what is booked is what the ledger says, and once the ledger's rows are     *)
(* free, what is not booked yet, or booked as paid, is held or will be freed. *)
RepairsLookFirst == sync = "rows" => ~Bought \/ late

BookedAsCharged ==
    \A s \in Sources :
        /\ row[s] = "none" => statement[s] = "none" /\ booking[s] = Idle
        /\ s \notin held /\ ~late /\ ~cut =>
              /\ booking[s].step = "create" => booking[s].as = row[s]
              /\ sync # "statements" => statement[s] \in {"none", row[s]}

RowsAreFreed ==
    /\ sync = "rows" => Granted
    /\ sync = "statements" => /\ Granted /\ (~Bought \/ late)
                              /\ ~late => \A s \in Sources : row[s] # "paid"

IInv ==
    /\ row \in [Sources -> Booked] /\ statement \in [Sources -> Booked]
    /\ booking \in [Sources -> [step : {"idle", "look up", "create"}, as : Booked]]
    /\ late => Bought
    /\ sync = "check" => Granted
    /\ RepairsLookFirst /\ BookedAsCharged /\ RowsAreFreed
=============================================================================
