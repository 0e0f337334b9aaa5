------------------------------- MODULE RedisLink -------------------------------
(***************************************************************************)
(* The process's one connection to Redis (src/src/redis/redisClient.ts) and   *)
(* those who need it, most through src/src/redis/cacheService.ts: they wait   *)
(* for a first connection, are served, or fall back at once, to the database  *)
(* or to no cache.  The node-redis client retries by itself, for as long as   *)
(* the strategy it was given says so.                                        *)
(***************************************************************************)
EXTENDS Naturals

CONSTANTS
    Callers,       \* whoever needs Redis at once
    maxRetries,    \* retries of a first connection
    MaxOutages     \* bound: outages of Redis, and handshakes that fail

RedisLinkAssumption == maxRetries \in Nat /\ MaxOutages \in Nat

VARIABLES
    up,                \* Redis can be reached
    client,            \* the client: "closed", "connecting", "greeting" (its socket is
                       \* connected), "ready"
    retries,           \* failures in a row, as the strategy is told
    isConnected, hasConnectedOnce,
    connectionPromise, \* a first connection is awaited
    cooldown,          \* Date.now() < nextRetryAllowedAt
    caller,            \* "idle", "awaits" the promise, or has given a "command"
    outages

vars == <<up, client, retries, isConnected, hasConnectedOnce, connectionPromise, cooldown,
          caller, outages>>

TypeOK ==
    /\ up \in BOOLEAN
    /\ client \in {"closed", "connecting", "greeting", "ready"}
    /\ retries \in 0..maxRetries + 1
    /\ isConnected \in BOOLEAN /\ hasConnectedOnce \in BOOLEAN
    /\ connectionPromise \in BOOLEAN /\ cooldown \in BOOLEAN
    /\ caller \in [Callers -> {"idle", "awaits", "command"}]
    /\ outages \in 0..MaxOutages

Init ==
    /\ up \in BOOLEAN
    /\ client = "closed"
    /\ retries = 0
    /\ isConnected = FALSE /\ hasConnectedOnce = FALSE
    /\ connectionPromise = FALSE /\ cooldown = FALSE
    /\ caller = [c \in Callers |-> "idle"]
    /\ outages = 0

isOpen == client # "closed"

\* Those who awaited the promise go on with s; commands given before are kept or not.
Told(s, kept) ==
    caller' = [c \in Callers |->
        IF caller[c] = "awaits" THEN s
        ELSE IF caller[c] = "command" /\ c \notin kept THEN "idle" ELSE caller[c]]

-----------------------------------------------------------------------------
(* connect, through ensureConnected.                                        *)

Gets(c, s) == caller' = [caller EXCEPT ![c] = s]

\* It is thought connected: the command goes to the client.
GiveCommand(c) ==
    /\ caller[c] = "idle" /\ isConnected
    /\ Gets(c, "command")
    /\ UNCHANGED <<up, client, retries, isConnected, hasConnectedOnce, connectionPromise, cooldown, outages>>

AwaitConnection(c) ==
    /\ caller[c] = "idle" /\ ~isConnected /\ connectionPromise
    /\ Gets(c, "awaits")
    /\ UNCHANGED <<up, client, retries, isConnected, hasConnectedOnce, connectionPromise, cooldown, outages>>

\* Otherwise the client is closed; while it is open, or in cooldown, one falls back.
StartConnection(c) ==
    /\ caller[c] = "idle" /\ ~isConnected /\ ~connectionPromise
    /\ ~isOpen /\ ~cooldown
    /\ connectionPromise' = TRUE
    /\ client' = "connecting" /\ retries' = 0
    /\ Gets(c, "awaits")
    /\ UNCHANGED <<up, isConnected, hasConnectedOnce, cooldown, outages>>

Served(c) ==
    /\ caller[c] = "command" /\ client = "ready" /\ up
    /\ Gets(c, "idle")
    /\ UNCHANGED <<up, client, retries, isConnected, hasConnectedOnce, connectionPromise, cooldown, outages>>

CooldownEnds ==
    /\ cooldown
    /\ cooldown' = FALSE
    /\ UNCHANGED <<up, client, retries, isConnected, hasConnectedOnce, connectionPromise, caller, outages>>

-----------------------------------------------------------------------------
(* The client and its events.                                               *)

\* "connect"
Connects ==
    /\ client = "connecting" /\ up
    /\ client' = "greeting"
    /\ isConnected' = TRUE
    /\ UNCHANGED <<up, retries, hasConnectedOnce, connectionPromise, cooldown, caller, outages>>

\* "ready": the promise is resolved, and its callers' commands given.
Ready ==
    /\ client = "greeting" /\ up
    /\ client' = "ready" /\ retries' = 0
    /\ isConnected' = TRUE /\ hasConnectedOnce' = TRUE
    /\ connectionPromise' = FALSE
    /\ Told("command", Callers)
    /\ UNCHANGED <<up, cooldown, outages>>

\* Mutant: whoever was connected gives up as well.
GivesUpAnyhow == retries > maxRetries

\* reconnectStrategy
GivesUp == ~hasConnectedOnce /\ retries > maxRetries

\* A try has failed: "error", and another one, until the strategy says no; then the
\* promise is rejected, the breaker opens and the commands are rejected.
Fails ==
    /\ client \in {"connecting", "greeting"} /\ ~up
    /\ isConnected' = FALSE
    /\ IF GivesUp
       THEN /\ client' = "closed"
            /\ connectionPromise' = FALSE
            /\ cooldown' = connectionPromise
            /\ Told("idle", {})
            /\ UNCHANGED retries
       ELSE /\ client' = "connecting"
            /\ retries' = IF retries > maxRetries THEN retries ELSE retries + 1
            /\ UNCHANGED <<connectionPromise, cooldown, caller>>
    /\ UNCHANGED <<up, hasConnectedOnce, outages>>

Disconnected == FALSE

\* The connection is lost: "error"; commands sent are rejected, those still to be sent kept.
Drops ==
    /\ client = "ready" /\ ~up
    /\ client' = "connecting" /\ retries' = 0
    /\ isConnected' = Disconnected
    /\ \E kept \in SUBSET Callers : Told("awaits", kept)
    /\ UNCHANGED <<up, hasConnectedOnce, connectionPromise, cooldown, outages>>

GoesDown ==
    /\ up /\ outages < MaxOutages
    /\ up' = FALSE /\ outages' = outages + 1
    /\ UNCHANGED <<client, retries, isConnected, hasConnectedOnce, connectionPromise, cooldown, caller>>

ComesBack ==
    /\ ~up
    /\ up' = TRUE
    /\ UNCHANGED <<client, retries, isConnected, hasConnectedOnce, connectionPromise, cooldown, caller, outages>>

Ask(c) == GiveCommand(c) \/ AwaitConnection(c) \/ StartConnection(c)
ClientStep == Connects \/ Ready \/ Fails \/ Drops

Next ==
    \/ \E c \in Callers : Ask(c) \/ Served(c)
    \/ CooldownEnds \/ ClientStep
    \/ GoesDown \/ ComesBack

\* The client tries again and again, time passes, and somebody needs Redis.
Spec ==
    /\ Init /\ [][Next]_vars
    /\ WF_vars(ClientStep) /\ WF_vars(CooldownEnds)
    /\ WF_vars(\E c \in Callers : StartConnection(c))
    /\ \A c \in Callers : WF_vars(Served(c))

-----------------------------------------------------------------------------
\* It is taken for connected exactly while the client has a connection, or has not
\* noticed that it lost it; and nobody awaits a connection that nobody makes.
KnowsItsState ==
    /\ isConnected <=> client \in {"greeting", "ready"}
    /\ \A c \in Callers : caller[c] = "awaits" => connectionPromise
    /\ connectionPromise => isOpen

\* Once Redis was reached, the client never stops trying.
GivesUpOnlyAtFirst == hasConnectedOnce => client' # "closed"
NeverGivesUp == [][GivesUpOnlyAtFirst]_vars

\* Why: who connected once has an open client, and who is connected awaits nothing.
IInv ==
    /\ caller \in [Callers -> {"idle", "awaits", "command"}]
    /\ client \in {"closed", "connecting", "greeting", "ready"}
    /\ hasConnectedOnce \in BOOLEAN /\ connectionPromise \in BOOLEAN
    /\ hasConnectedOnce => isOpen
    /\ client = "ready" => ~connectionPromise
    /\ KnowsItsState

\* With Redis back for good, the process is connected for good.
Back == client = "ready" /\ isConnected
RedisComesBack == (<>[]up) => <>[]Back

\* Nobody waits for ever: neither when Redis comes back, nor when it never was there.
Answered == \A c \in Callers : []<>(caller[c] = "idle")
CallersAreAnswered == (<>[]up \/ <>[]~hasConnectedOnce) => Answered
=============================================================================
