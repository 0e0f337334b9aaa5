# Verification of the StudioPass backend

TLA+ modules that model the StudioPass backend (`src/`): the money and the credits, calls and shows,
messages, polls and statuses, accounts and sessions, and what staff are told of all these; TLC
configurations that check them on small instances, and proofs that TLAPS checks for every instance. Every
definition is translated from the TypeScript source; the comments in the modules give the place where it is
not obvious, and `PROJECT.json` ("map") gives the lines of every definition.

Contents: [the system](#the-system) - [inventory](#inventory) - [modules](#modules-and-the-code) -
[runs](#runs) - [bounds](#bounds) - [fairness](#fairness) - [refinement](#refinement) - [proofs](#proofs) -
[disagreements](#where-the-code-and-its-comments-disagree) - [not modelled](#what-is-not-modelled) -
[plan](#plan)

    tlc -workers 2 -config PaymentSafety.cfg Payment     # model-check (any cfg with its module)
    tlapm PaymentProofs.tla                              # check the proofs of a module

## The system

One Node.js process serves listeners, station operators and administrators over HTTP and Socket.IO. It
keeps its documents in MongoDB, markers and read caches in Redis, and timers in its own memory. A handler
runs without interruption up to an `await`; at every `await` other handlers, timers and schedulers run.
Most atomicity comes from MongoDB: a single conditional update is atomic, `runTransaction`
(`shared/runTransaction.ts`) makes a group of writes atomic and repeats it after a write conflict, and
unique indexes settle races between inserts. Money comes in and goes out through gateways (Airtel, PayLeo,
Africa's Talking) whose callbacks may be late, repeated, reordered or lost, and whose requests may time out
although they took effect. A restart ends every handler at its current `await` and forgets every timer.

This fixes the grain of the modules: **one action is what happens between two awaits that others can see
in between**, a suspended handler is a record in a set (`jobs`, `accepts`, `payouts`, ...) that says what
it does next with which values it read, and a restart empties that set.

How the parts interact:

- A listener tops up (payments) and receives credits (credit ledger), or is given some by an administrator.
- Credits are charged for messages, calls, challenges and channel polls, inside the transaction that stores
  what they pay for. Calls and challenges give credits back.
- Operators take calls that listeners queue; the socket layer, the show scheduler and timers end calls.
- The challenge scheduler completes challenges and creates disbursement rows; a row is paid in bonus
  credits (ledger), mobile money (Airtel) or airtime (Africa's Talking), or handed over by hand. The
  reconciler job (every 2 minutes) settles payments and pays out what is pending.
- The show scheduler decides which show is on air, ends the calls of a finished one and tells listeners; the
  messages they send do the same, sooner. TV stations' messages pass moderators before they reach the screen.
- Every request passes the authentication middleware, which lets two cache entries in Redis decide; sessions,
  presence, the balance and most lists rest on the same Redis connection and go on without it.

## Inventory

The components, the state each keeps, its operations, what is hard about it and what would make it correct.
`S` is `src/src`, `M` is `src/src/module`. `PROJECT.json` ("components") says of each whether every operation
that changes state is modelled, and what is left out.

| Component (source) | State | Operations | Hard behaviour | Correct when | Here |
|---|---|---|---|---|---|
| **Mobile money payments** (`M/payment`: service, payleo, airtel, reconciler) | `PaymentTransaction.status`; the gateway's own record | `initiatePayment`, the callbacks of PayLeo and Airtel, `getPaymentStatus`, reconciler | duplicated, late, lost callbacks; callbacks of unknown origin; push that times out and acts; three paths completing one payment; restart | credits are given for money collected, once; no payment pends for ever | `Payment`, partly |
| **Calls** (`M/call`, `S/socket/index.ts`) | `Call` document, queue and join timers, marker `operator:{id}:on_call`, disconnect graces | request, cancel, accept (with switch), reject, join, end, timeouts, sweep, restart | accept, cancel, timeouts and sweep race; marker read and deleted in two calls; timers lost by a restart | one live call per listener, an ended call stays ended, nobody waits for ever | `Call`, partly |
| **Call refunds** (`M/call`, `M/credit`) | `creditsUsed` of the call, balance, `call_refund` rows | `refundIfQueued`, `refundCredits`, refund recovery of the sweep | three writes without a transaction, each of which can fail or lose its answer; two refunds of one call | the credit is in one place; it comes back | `CallRefund` |
| **Mobile money payouts** (`M/disbursement`, airtel) | `Disbursement` row: status, txRef, provider, providerRequestId | `dispatchMobileMoney`, `reconcileMobileMoneyPayouts`, `processPendingPayouts`, retry, mark paid by hand | creator, job and administrators race; unknown outcomes; answers about an old id | a winner is paid once; a known payout is settled | `MobileMoneyPayout` |
| **Airtime payouts** (`M/disbursement`, `S/util/africasTalkingAirtime.ts`) | the same row, delivery reports | `dispatchAirtime`, webhook, retry | report before the id is stored; a timeout that looks like a refusal | sent once; a report settles its row | `AirtimePayout` |
| **Credit ledger** (`M/credit`, creditBalance, creditTransaction, `S/shared/runTransaction.ts`) | balance with its free/paid split, ledger rows | `deductCredits`, `addCredits`, `refundCredits`, purchase, reward, repair at start | the split is read outside the transaction; a retried transaction; balance and row written apart | never overdrawn; rows explain the balance; the split adds up | `CreditLedger`, partly |
| **Challenges and bonus credits** (`M/challenge`, challengeParticipation, disbursement) | challenge status and window, participations, prize rows, grants | create, submit, scheduler (activate, complete), prize rows, `dispatchBonusCredits`, retry, cancel with refunds, PATCH | overlapping scheduler runs; stale scans; a commit whose answer is lost | who plays is charged once; prizes and refunds exclude each other; a bonus is granted once | `Challenge`, partly |
| **Channel polls** (`M/channelPoll`, challengeScheduler) | poll status, votes, `totalVotes` | create, edit, delete, vote, reads and scans that write the status | status written from an old read; counter incremented after the transaction | one vote and one charge per category; only late readers overwrite a status | `ChannelPoll`, `Ballot` |
| **Show polls** (`M/poll`) | poll, votes, counters of poll and options | the same; lists complete expired polls | vote then count, no transaction | one vote per user; the total never exceeds the votes | `ShowPoll`, `Ballot` |
| **Messages** (`M/message`) | message rows, thread read marks | send with `clientMessageId`, replies, read marks; approve, reject, to output, edit, delete | a send repeated after a lost answer; replies in parallel; moderators who disagree | one message and one charge; answered means replied to; the screen shows what was approved | `MessageSend`, `Thread`, `Moderation`, partly |
| **Shows and their scheduler** (`M/show`, `S/socket/index.ts`) | shows, last announced show (memory and Redis) | edit, tick, announcement by a message, restart | a message and the tick announce at once; overnight shows; a load or save of the last show that fails silently | calls end with their show and no other; listeners learn the show on air | `Shows`, partly |
| **Accounts: status and access** (`S/middlewares/auth.ts`, `M/user`, `M/partner`) | account status, blocked flag, two cache entries | requests, (de)activation of an account or a partner | Redis errors; a reader that stores what it read before the change | a change takes effect at once but for named overlaps, and in the end always | `Access`, partly |
| **Sign-in by one-time code** (`M/auth`, `M/otp`) | sign-in document, codes, profile | initiate, verify | two first sign-ins of one number; stop between writes | a number is one listener | `SignIn`, partly |
| **Two-factor authentication** (`M/auth`) | four fields of the document | login, set-up in several tabs, enable, reset | mongoose writes changed fields only | nobody is locked out by a secret they never proved | `TwoFactor`, partly |
| **Token refresh** (`M/auth`) | grace and revoked marks in Redis | refresh, logout | answer lost, asked twice, Redis error | a client keeps a token that works | `Refresh`, partly |
| **Device sessions** (`M/device-session`, `S/socket/index.ts`) | rows, markers, sockets | register, revoke one, revoke all, logout, handshake | three stores changed one after the other | a revoked session is out | `Sessions`, partly |
| **Socket presence and rooms** (`S/socket/index.ts`) | sockets per account, rooms, online marker | connect, disconnect, join, ping | a handler overtaken by the next event; the marker's commands fail silently; a restart | counts and rooms are those of live sockets | `Presence`, partly |
| **Staff accounts** (`M/station`, `M/user`, `M/partner`) | stations, partners, sign-in documents, profiles | create with administrator, presenter, media station | a transaction its writes do not take part in; checks before writes | a profile can sign in and owns what it administers | `StaffAccounts`, partly |
| **Station API keys** (`M/stationApiKey`, `M/station`) | keys, hits | create, replace, deactivate, fetch | replacing in two writes; read before write of the count | withdrawn keys answer nobody | `ApiKeys`, partly |
| **Notifications** (`M/notification`, `M/user`, firebase) | push tokens, notifications | register and clear a token, send, send to many | token changes hands while a send is under way | a token has one account | `Notifications`, partly |
| **Statuses (stories), views, likes** (`M/status`) | status, rows, two counters | view, like, delete, expiry | counters written apart from rows | counters follow rows | `Statuses`, partly |
| **Weekly top-fan posts** (`M/status`) | one post per rank and week | job, button | two rankings at different moments; two dates for the start of a week | the posts under one start are of one ranking | `WeeklyPosts` |
| **Status uploads** (`S/middlewares/processAndUpload.ts`, `S/shared/video`) | slots, temporary directories, objects | process, store, release | an error on any path; waiting for a slot | slots and directories come free | `Uploads`, partly |
| **Support tickets** (`M/support`) | ticket, agent, unread counts | open, claim, send, close | check, then update by id | only late claims take a ticket over | `Support` |
| **Listener statements** (`M/listenerStatement`) | rows | book, repair at start, read | booking after the charge, repair of half | statements follow the ledger | `Statements` |
| **Dashboard, live statistics** (`M/dashboard`, `M/show`) | cached statistics | figures, series, lists | the same number from several pipelines; cache keys | figures agree | `Dashboard`, partly |
| **Lists of listeners and staff, top fans** (`M/user`, `M/message`) | none | lists, details, ranks | numbers that change hands; deleted messages; staff given another partner's station | lists agree with details and rows | `Listeners`, partly |
| **Stations list, follows** (`M/follow`, `M/station`) | rows, counter, cached list | toggle, switch on and off, read | counter apart from rows; invalidation not awaited | counter and list follow the rows | `StationList`, partly |
| **Credit balance cache** (`M/credit`, `S/redis`) | balance for 20 s | read, charge, grant | dropped before the commit, or not at all when Redis fails | stale no longer than its lifetime | `ReadCache`, partly |
| **Redis connection** (`S/redis`) | client, promise, cooldown | connect, retry, serve | outage at the start or later | it comes back; nobody waits for ever | `RedisLink` |
| **Daily payout limit** (`disbursement.service.ts:35-70`) | claimed rows with `processedAt` | `withinDailyLimit` | count after claim; equal milliseconds | the sum sent in a day stays within the limit | no |
| **Message templates, stickers; countries, settings, prize types; physical prizes** | single documents | CRUD | - | - | no |
| **Logs and audit log** | append-only rows | append, query | - | - | no |
| **Phone numbers, carriers** (`S/shared/validators`, `S/shared/telecom`) | none | normalise, find the carrier | - | - | no |
| **Process start and stop** (`S/server.ts`) | timers of schedulers and jobs | start-up order, graceful shutdown | the challenge scheduler is not stopped on shutdown | - | no; see below |
| **Database, configuration, mail, logging, routing, input checks** | - | input and output | - | - | no |

A restart, or an error or stop that ends a handler at any await, is an action where memory holds something others
rely on (timers, sockets, slots, the last announced show) or where a property speaks of what must happen. In
`TwoFactor`, `ApiKeys`, `Thread`, `Support` and `Moderation`, of which only safety is checked, no handler is obliged
to go on, so that one that stops is a behaviour in which it does not; `Listeners`, `Dashboard`, `ReadCache` and
`RedisLink` have no restart of the process.

`PROJECT.json` lists the hazards, each at its line with the properties that would catch it.

## Modules and the code

Each component has a module of its own, with its variables, actions, type invariant and properties. Modules do
not share variables: the documents they model meet only in the balance, and each module counts what it adds
to it or takes from it; `Shows` has the calls it ends, `Payment` and `Challenge` the credits they give.
"Mutant" definitions beside an original are the plausible bugs each property is known to detect; no
specification uses them.

A configuration is run on the module it names: on a component's own (`Payment`, `Call`), or on one that puts
several side by side, where a variable `service` says which module a behaviour is of, and a property is the
conjunction of "while it is this service, this holds". So one run explores the union of the state spaces,
not their product: the modules share no state in the code either. This is done in two ways.

- `Credits` (ledger, challenge), `Payouts` (refunds, mobile money, airtime) and `Participation` (polls of
  channels and of shows, messages) keep the modules' own constants and variables; a variable two of them
  call by one name is one variable, and those a service does not have keep a first value.
- `People` (sixteen modules: who may use the system, what listeners use and what staff are told) and
  `OnAir` (seven whose liveness matters around a show) have slots `v1`, `v2`, ... that are the variables of
  each by `INSTANCE ... WITH`. The sets of `People` that the modules with theorems use are constants: `A`,
  `B`, `R` and `D` are, say, sessions, administrators, requests and sockets, and `Books`, `Board` and `Crowd`
  are what statements, dashboard and lists are given (stations, partners, who may ask, bounds). So are those
  of the modules of `OnAir` that theorems are about; the calls' timers and the balance cache, of which only
  liveness is checked, have fixed sizes, as have some bounds on faults in `People`.

Theorems about `Credits`, `Payouts`, `Participation`, `People` and `OnAir` hold for every value of these constants.

`Totals` is the sum of a function's values over a set, for balances and ledgers, with the lemmas about it.
`<module>Proofs` holds the theorems about a module (`CreditProofs` those about `Credits`, `PayoutProofs` those
about `Payouts`, and so on).

### Payment

| State | Code |
|---|---|
| `airtel` | attempts whose row has provider "airtel" (by carrier); the rest are PayLeo's. Any routing in `Routings` |
| `status`, `age` | the row; its age against the thresholds 20 s (app's poll), 3 min (reconciler), 24 h (Airtel) or `PAYLEO_PENDING_TIMEOUT_MINUTES` (30 by default) |
| `credited` | how often the balance was incremented for the attempt |
| `push`, `wallet`, `callbacks` | where `initiatePayment` stands; the gateway's own record; callbacks it sent, any of which may arrive at any time, any number of times, or never |
| `jobs`, `sweep` | handlers past their reading of the row (`enquire`, `complete`, `fail`); the reconciler's run |

`InitiatePayment` inserts the row; `PushAccepted` and `PushUnsuccessful` are the two answers of the
gateway call, and `RecordPushFailure` the update by `_id` that follows the second. `HandlePayLeoCallback`,
`HandleAirtelWebhook` and `GetPaymentStatus` read the row and suspend; `Enquire` is the status request;
`CompletePayment` and `FailPayment` are `completePaymentOnce` and `failPayment` with their conditional
updates; `JobThrows` is an error in either. `StartSweep`, `SweepAirtel` and `FinishSweep` are
`reconcilePendingPayments`. With `EnforceAuth` (AIRTEL_CALLBACK_AUTH = enforce) a success callback of Airtel's
is applied, without it it only starts an enquiry. `UnprovenCallback` is a callback of either verdict that
the gateway did not send, for any row: of PayLeo, whose callbacks carry no proof, always; of Airtel unless
its hash is enforced. A callback's field `from` says which it is, and the code does not see it.

### Call

`status`, `startedBy`, `handledBy` are the document; `elapsed` is its age (below the queue or join timeout,
over it, or answered for over 4 h); `queueTimers` and `joinTimers` the two maps of timers; `onCall` the
Redis marker; `accepts` the requests inside `acceptCall` (`AcceptCall`, `ClaimCall`, `SwitchCall`,
`MarkOnCall`, with an await between any two); `unmarks` the calls of `removeOperatorOnCall` (`UnmarkGet`,
`UnmarkDelete`); `graces` the timers armed when an operator's last socket goes away
(`OperatorDisconnects`, `OperatorReconnects`, `GraceExpires`); `joined` who was given a token. `Finish` is
the turn after a successful conditional update: timers cleared, the handler's marker to be removed.
`Restart` empties the memory and runs `reregisterTimeouts`; `SweepStaleCall` is `cleanupStaleCalls`.
`EndCall` is `endCallBySystem` and serves every caller of it: a party hanging up, a listener's grace, the
end of a show. `MarkerLost` is the 2 h expiry of the key or a loss of Redis.

### CallRefund

The credit a call reserves, write by write. A refund (`jobs`) is begun by whoever ends the call
(`EndUnserved`) or by the sweep (`SweepRefund`, after two minutes), and goes through `CheckLedger` and
`Reconcile` (the sweep only), `ZeroCredits` (the conditional claim), `IncrementBalance`, `RecordRefund`
and, after an error, `RestoreCredits`. Each write is done, fails, or is done without its answer
(`Outcomes`); `Crash` stops all. `stranded` and `repeated` are history: credits taken off a call and never
returned, and credits put back on a call although they had been returned.

### MobileMoneyPayout

`status`, `txRef`, `requestId`, `provider` are the row (ids of a row are numbered: a retry takes the next);
`toPay` the rows the creating run has yet to pay; `payouts` the calls of `dispatchMobileMoney` with the id
they read (`seen`) and the id of the row they claimed (`ref`); `job` the run of `processPendingPayouts`
with the rows it read; `airtel` what the operator did under each id; `byHand` the rows marked as paid.
`RejectPayout`, `PutOffPayout`, `ClaimPayout`, `WithinLimit`/`OverLimit`, `SendPayout`, `SettlePayout` are
the body of the dispatch; `StartRun`, `PayPending`, `StartEnquiries`, `Enquire`, `SettleEnquiry`,
`FinishRun` the job; `RetryDisbursement` and `MarkPaidManually` the administrator. The operator's answers
(`SendOutcomes`, `EnquiryAnswers`) are those the classification in `airtel.service.ts` can produce. `mixed`
and `misjudged` are history: rows claimed with an id read before a retry, and rows finished by the answer
to an older id. A call of the operator can last longer than the 60 s after which the job asks about a row,
so the job may ask about any row in flight. The job's query takes `Batch` rows in no order (`Batches`): any
set of that size, or all of them if they are fewer. `Crowded` says that more are in flight than that.

### AirtimePayout

The same row for airtime. `ClaimRow` is the conditional claim of `dispatchAirtime`; `RejectRow`,
`PutBack`, `WithinLimit`, `SendAnswered`, `SendUnanswered`, `StoreRequestId`, `RecordRejection` its body;
`HandleReport` the delivery webhook, `RetryDisbursement` the retry. `unanswered` and `early` are history:
rows one of whose sends got no answer - recorded as failed like a refusal, whatever became of the airtime -
and rows whose report came before their id was stored.

### Challenge

One challenge that costs a credit and pays bonus credits. `status` and `phase` (before, within, after its
window), `players`, `charged`, `refunded`, `row` (the prize rows) and `granted` are the documents; `job`
says what each run of the scheduler and each request does next, for whom. `CheckPlay`, `CommitPlay`,
`RejectPlay` are `participateInChallenge`; `StartScan`, `Activate`, `Complete`, `ListWinners` the
scheduler, whose interval has no guard, so that `Scans` runs overlap; `BeginRows`, `InsertRows`,
`InsertThrows` phase 1 of `createDisbursementsForChallenge` (the snapshot, then the unique index at
commit); `GrantCredits`, `GrantThrows`, `RecordGrantFailure` are `dispatchBonusCredits`, whose branch for
an invalid prize ends like a failing grant; `RetryDisbursement`, `CancelChallenge`, `ListPlayers`,
`RefundPlayer`, `RefundThrows`, `UpdateChallenge` are the administrators' requests. Users are numbered,
the better score first.

### CreditLedger

One listener's balance document (`doc`: balance, free, paid), the sum of its ledger rows (`ledger`), and
the requests at work on them (`job`). A charge reads the split (`ReadSplit`) outside its transaction, then
updates the document if the balance covers the amount, writes the row and commits (`Charge`); when the
transaction has a snapshot (`pinned`: a message or a call was stored first) and the document has changed
since (`stale`), it conflicts and runs again (`RetryCharge`). `Increment` and `Record` are the two writes
of `addCredits` and `refundCredits` without a session; `Purchase` the transaction of a payment or of a
reward; `CheckSources`, `ReadBalance`, `ResetSplit` the repair `syncFreeListenerStatements` runs after a
start. `unrecorded` and `skewed` are history: increments whose row was never written, and whether the
split was changed by an outdated reading.

### ChannelPoll, ShowPoll, Ballot

`poll`, `rows` (votes) and `spent` are the documents, `job` what each request does next with what it read. In
`ChannelPoll` a vote is checked (`StartVote`, `VoteTooLate`), checked again in the transaction (`CheckVote`),
committed with its charge under the unique index (`CommitVote`, `RefuseVote`) and counted afterwards
(`IncrementTotalVotes`). Whoever reads the poll - a listener's page, the scheduler (`StartScan`,
`ScanPolls`) - computes a status from the dates (`StatusByDates`) and writes it by id (`WriteStatus`). In
`ShowPoll` the vote's row and its counts are written without a transaction (`InsertVote`, `CountVote`).
`Fail` is an error or the end of the process at any await. `Ballot` is what both promise; see
[refinement](#refinement).

### MessageSend, Thread, Moderation

`MessageSend`: the look-up of an earlier send, the transaction with its message, unique index on
(listener, `clientMessageId`) and charge, write conflicts and retries, a commit whose answer is lost, and the
look-up after an error. `Thread`: the rows of one conversation with their times; a reply takes a snapshot,
marks what it answers and commits or is tried again (`OpenReply`, `CommitReply`, `RetryReply`), and the
listener's read mark only moves forward; `Unreplied` and `Unread` are the two numbers the lists compute.
`Moderation`: one message with what each moderator, and its author, read before they write.

### Shows

Time is counted in slots of a day and days of a week. `plan`, `active`, `stationOn` are the documents, `writes`
edits past their check of overlaps. `Scheduled` is what the scheduler takes for the show on air
(`showScheduler.ts`), `Found` what a listener's message or call takes for it (`show.repository.ts`,
`findActiveShowForStation`), which is not the same rule. A pass of the scheduler (`tick`) computes the shows, ends
calls of finished ones, loads the last announced show, announces and saves; a message does the last three with the
show it read (`MessageAnnounces`). `last` is that show in memory, `stored` in Redis, where there is none at first;
`heard` is what the listeners were told. Loading (`Previous`) fails or finds none, and then the show is only
recorded (`RecordsOnly`); saving (`Saves`) always writes the memory and may fail in Redis. `lapses` is history:
whether a save failed or was not made (`"save"`), and whether a change of shows was then recorded without a word, or
taken for none (`"change"`).

### Access, ReadCache, RedisLink

`Access` is the middleware: a request looks for the cached profile and login status, reads what is missing,
stores it, and is admitted or refused; `Start`, `SetProfile`, `SetStatus`, `DropStatus`, `DropProfile` are
the writes of the administrators' requests, in the order of the handler (`DeactivateUser`,
`DeactivatePartner`, ...). `ReadCache` is the balance with the two kinds of writers: drop then commit, commit
then drop; a hit prolongs nothing (`AfterHit`). `RedisLink` is the one node-redis client: the
reconnect strategy (`GivesUp`), the events that set `isConnected`, the promise callers of a first connection
share, and the cooldown after it failed.

### StaffAccounts, SignIn, TwoFactor, Refresh, Sessions, Presence, ApiKeys, Notifications

One await, one action: `StaffAccounts` has the checks and the three inserts for the four kinds of creation (`Owns`
says which make a station or a partner), `SignIn` the steps of `initiate` and `verifyOtp`, `TwoFactor` what `save`
writes of a document read before (`Enable`), `Refresh` the seven steps of `refresh` with Redis failing at any of
three, `Sessions` row, marker and sockets, `Presence` the handlers of a socket between one another's awaits
(`sockets` gives each live one those that came before it: the order in which the code's loops find them), the
marker's three commands, each of which may fail in Redis unnoticed, and a restart, which forgets the sockets and
leaves the marker; `lapsed`, `returned` and `stray` are history of the marker, `ApiKeys` the two writes of
`regenerateKey` and the counting of hits, `Notifications` the two writes of `updateFcmToken` and a send's read of
tokens.

### Statuses, WeeklyPosts, Uploads, Support

`Statuses`: a view is a row, then an increment; a like is a row, a count and an overwriting write; deletion
takes status, views and likes one after the other. `WeeklyPosts`: look, rank, insert rank by rank,
under the start of the week that `getWeekStart` gives the run: one of `Weeks`, as near midnight one week has two.
`Uploads`: per request its files one after another, with the slots (`runningJobs`, `waitingJobs`) and
directories (`dirs`) of the video pipeline. `Support`: tickets read, then written by id; histories say which
tickets two wrote to at once (`mixed`) and which the listener added to since (`added`).

### Statements, Dashboard, Listeners, StationList

These state what readers are told. `Statements` books a row for each charge, without anybody waiting for it, and
repairs rows and statements after a start; `InScope` is whom the lists, totals and exports tell of which, `MayOpen`
who may open which: staff without a station (`HasStation`), as agents of customer care are, are not scoped by the
one and let into none by the other. `Dashboard` stores rows of every collection with their day, place and state, and
computes the overview, series, tops and the live statistics of a show as the aggregation pipelines do (`Hourly`,
`TopShows`, `LiveStats`, `StatsKey`, ...); its property compares them with one another. `Listeners` does so for the
lists of listeners and staff, the detail pages and the top fans; `UpdateUserById` gives staff another station and
leaves them their partner, so that the lists that go by the one and by the other differ (`Strays`). `StationList`
has the follows, the counter and the list in Redis, and the hour at which a station's switch cascades.

## Runs

Passing runs check what the code does right; the four violation runs show where a comment says more than the
code does. State counts are distinct states.

| Run | Instance | States | What it shows |
|---|---|---|---|
| `PaymentSafety` | 1 payment of either provider, 3 requests, reconciler, hash not enforced, 2 unproven callbacks, 2 restarts | 123,809 | `CreditsArePaidFor`, `CompletedIffCredited`, `OnlyExpiryLosesMoney`, `OnlyPushFailureDowngrades`: Airtel's credits only for collected money, PayLeo's also on an unproven success callback; collected money is given up only by the 24 h expiry or an unproven failure callback |
| `PaymentLiveness` | 2 payments, every routing, reconciler alone, batch of 1, 1 restart | 302,466 | `PendingResolves`: with every callback lost, a pending payment is settled in the end |
| `CallSafety` | 2 calls, 2 listeners, 1 operator, 1 restart | 1,567,712 | `MarkerNamesOwnCall`, `WaitingCallsAreTimed`, `OneLiveCallPerListener`, `EndedCallsStayEnded` |
| `Credits` | ledger: 2 tasks, amounts 1 and 2, 3 credits, 1 restart; challenge: 2 users, 1 winner, 2 scans, 2 requests, 1 PATCH, 1 fault | 1,618,851 | `BalanceIsExplained`: never overdrawn, rows and split add up; `ChargedIffPlaying`, `PrizesFollowRows`, `RefundedOnceUnlessReopened`; `OnlyStaleReadersOvertake` |
| `Payouts` | 2 calls with 2 errors; 1 mobile money row with 3 ids, 1 restart; 1 airtime row with 3 ids, 2 restarts; 2 mobile money rows in a batch of 1 (crowd) | 144,251 | `CreditIsConserved`, `OneRefundInFlight`, `PaidOnce`, `RowsTellTheTruth`, and under fairness `RefundArrives`, `DecidedPayoutsSettle` |
| `Participation` | channel poll: 2 listeners, 2 categories, 2 credits; show poll: 2 listeners, 2 options; messages: 2 keys, 3 credits; 3 requests, 1 failure each | 867,743 | `SentOnce`, `KeepsBallot` (refinement), `OnlyLateReadersReopen` |
| `People` | sixteen modules, 2 or 3 requests each, 1 fault | 1,596,841 | `AccountsAreWhole`, `ClientsKeepAToken`, `RevokedIsOut`, `OneAccountPerToken`, `SocketsAreCounted`, `ThreadsAreTrue`, `CountsFollowRows`, `ReportsAgree`, `OnlyLateReadersOverwrite` |
| `OnAir` | seven modules, with their fairness | 271,677 | `ScreenShowsApproved`, `OnlyFinishedShowsHangUp`, `CallsEnd`, `ListenersCatchUp`, `DecisionsSettle`, `CachesFollow`, `UploadsEndWhole`, `RedisComesBack` |
| `PaymentOnce` | 1 payment, 2 requests | violation | `CreditedAtMostOnce`: the push fails late, overwrites `completed`, a repeated callback credits again |
| `RefundDouble` | 1 call, 1 error | violation | `NeverDoubleRefund`: the balance is written, the row is not, the sweep refunds again |
| `MoneyTwice` | 1 row, no restart | violation | `NeverPaidTwice`: a stale dispatch stores one id and sends under another |
| `AbortedLeavesNothing` | 2 requests, no fault | violation | `AbortedLeavesNothing`: a duplicate username at the second insert leaves the station of the first |

Every configuration turns the deadlock check off: a quiet system (all payments settled, all calls ended,
the bounds used up) is a legitimate end.

The properties with an exception state exactly what the code loses. `CreditsArePaidFor` excepts a PayLeo
payment about which a success callback came that the gateway did not send: it is credited without an enquiry
(`payment.service.ts:403-417`), so the credit is as good as the callback. `OnlyExpiryLosesMoney` excepts an
Airtel payment about which a failure callback came that the gateway did not send, while the hash is not enforced
(`:497-498`), and speaks of accepted pushes, because a push that timed out marks the row failed and nobody asks
about failed rows. `PaidOnce` and `RowsTellTheTruth` leave out mobile money rows where two ids were taken for one,
which `MoneyTwice` shows to happen, and airtime rows with an unanswered send: that one is recorded as failed
although it may have been delivered (`disbursement.service.ts:176-180`). `DecidedPayoutsSettle` excepts a row
while more are in flight than the job asks for, and airtime whose report came before its id was stored.
`ListenersCatchUp` excepts the behaviours in which a change of shows was recorded without a word, after a save that
failed or at a start without a stored show. `SocketsAreCounted` makes no exception for the count and the rooms; the
marker may be missing while the operator is there if it ran out, could not be set, or was taken by the handler of
a socket that was overtaken, and be left when he is not if it could not be deleted, the process went, or a refresh
set it again. `CreditIsConserved` names the two accidents by which a
call's credit is lost or doubled. The split in `BalanceIsExplained` is right until a charge without a
snapshot, or the repair, acts on an outdated reading, and `OnlyStaleReadersOvertake` says that only those can.
`OnlyFinishedShowsHangUp` excuses a call during which a listener would have found another show;
`CachesFollow` an entry that a request stored after it read the database before the change, until it expires;
`OneAccountPerToken` two overlapping updates of one token; `ThreadsAreTrue`, of support tickets, two sends
that overlap and a ticket the listener added to; `CountsFollowRows` the counts a stopped process
left undone; of `ReportsAgree`, that
the posts under one start of the week are of one ranking ends with the removal of a post, staff without a station
are listed statements they may not open, and a partner's lists keep whom `UpdateUserById` moved to another's station.

## Bounds

| Bound | Value | Why it is enough |
|---|---|---|
| payments | 1 (`PaymentLiveness`: 2) | Payments meet only in the batch of the reconciler, where two compete for one place; whatever races for one payment is in `PaymentSafety`, for either provider |
| requests on payments | 3 | With the reconciler and the push that makes five threads on one payment |
| `MaxUnproven` | 2 (`PaymentOnce`, `PaymentLiveness`: 0) | One callback of each verdict that the gateway did not send; each can arrive any number of times. `PaymentOnce` shows that its violation needs none |
| `BatchLimit`, `Batch` | 1 | The smallest batch that one row can hold against another (50 and 20 in the code) |
| crashes, restarts, faults, outages, stops | 1 or 2 | Each is taken at any await; what a second one could add - work lost again after a retry - airtime and Redis have |
| calls, listeners, operators | 2 / 2 / 1 (`OnAir`: 1 / 2 / 2) | Calls meet through the listener's index (one listener, two calls) and through one operator's switch, marker and grace; two operators meet only in the claim, which `OnAir` and the proofs have |
| `MaxErrors` | 2 | A failing write, and a failing repair of it |
| `MaxRef` | 3 | An id, its retry and one more, so that an answer can be two ids old |
| payout rows | 1; `CrowdRows` 2 | Rows meet only in the batch of the job and in the daily limit. The crowd has two in a batch of 1, so that the unsorted query may leave either out, each with one id and without restarts: whatever leaves a row in flight for good is a lost request, which needs neither |
| challenge users, winners; scans, requests | 2 / 1; 2 / 2 | One who wins and one who does not, both play and both are refunded; two of each race, a third finds what the second left |
| `Amounts`, `MaxGiven` | {1, 2}, 3 | The least in which a charge is partly free and partly paid, and in which a balance covers one of two charges |
| poll voters, requests, edits, failures | 2 / 3 / 1 / 1 | Two votes of one voter and a third request that reads or deletes; `Credits` 2 pay for two votes of the three |
| message keys, sends, attempts, `Credits` | 2 / 3 / 2 / 3 | A repeated send, another message, and a transaction that meets each; three credits never run out for two messages |
| thread: shows, staff, devices, messages, clock | 2 / 2 / 2 / 3 / 1 | A message and two competing replies; two devices whose read marks arrive in the wrong order |
| statuses: people, requests | 2 / 2 | One who likes twice and another |
| weekly posts: runs, fans, starts | 2 / 2 / 2 | Two rankings of two fans in either order, under one start or two |
| tickets, agents, devices, messages | 2 / 2 / 1 / 3 | Two agents for one ticket, and a second ticket after it was closed; three messages (of both tickets together) are the least in which the listener adds to a ticket that holds an answer he has not seen |
| dashboard, listeners, statements, stations | a few rows (`Board`, `Crowd`, `Books` in `People.cfg`) | Each figure is a sum or a rank over rows: two rows that differ in every field the filters look at, and days up to one more than a series keeps |
| shows | 2, in 2 days of 3 slots, 3 slots of time, 2 edits | One that runs overnight into the day of the other, the case in which the two rules for "on air" differ |
| access: requests, administrators, changes | 1 / 2 / 2 | Requests meet only in the cache, where what one stores another finds; two changes that overlap |
| balance cache: readers, lifetime, writes | 2 / 3 / 3 | A reader between drop and commit, one that finds its entry, and the entry's end |
| uploads | 2 requests, 1 slot | One waits for the slot of the other; image and video in one request (2 slots in the code) |
| Redis: `maxRetries`, outages, callers | 1 / 2 / 2 | Given up at the first connection, never after; two callers on one promise |
| sessions, sockets, administrators | 2 / 1 / 2 | One revoked, one spared; two revocations that overlap |
| presence: sockets, limit | 3 / 2 | One more than allowed (5 in the code), so that one is evicted; restarts and Redis errors are not bounded |
| shows: `MaxFailures` | 1 | A failing end of a call, or a restart; loads and saves of the last show fail without a bound |
| sign-in: codes | 2 | Two first sign-ins of one number, or a stop and another try |
| refresh: tokens, calls, outages | 4 / 3 / 1 | Two calls with one token, a third with the new one |

Symmetry is used for interchangeable requests, scans, tasks, calls, listeners and operators, in runs
without liveness properties only. The numbered sets (payments, payout rows, users) are ordered and not
symmetric.

## Fairness

- `PaymentLiveness`: the 2 minute interval fires for ever; a suspended enquiry is answered or times out
  within 30 s; rows age; an update is not met by a database error every time (strong fairness of complete
  and fail). Callbacks, gateway and the app's poll are not assumed to do anything.
- `Payouts`, refunds: a refund in progress goes on, two minutes pass, and the sweep comes back. Errors are bounded
  by `MaxErrors`. Mobile money: calls go on, the job recurs, the operator decides on what it has taken, and an
  enquiry that is repeated is at some time answered (strong fairness: the job asks again every 2 minutes). The
  crowd: the same of its rows. Airtime: dispatches go on, the job claims pending rows, the daily limit does not last
  for ever (it is reset at midnight; strong fairness), and a report is sent at least once.
- `OnAir`, shows: the scheduler's interval fires and its pass goes on, and a message
  that was accepted goes on to announce (a handler that was not stopped returns from its awaits). Calls:
  clocks advance, and the 30 minute interval of `cleanupStaleCalls` fires for ever; no timer, operator or
  listener is assumed to act. Access: requests go on and entries expire (5 and 2 minutes). Balance cache:
  time passes. Uploads: each step of a request is answered or fails (ffmpeg has a timeout; object store and
  ffprobe have none of their own, so that they answer is assumed). Redis: the client goes on retrying as its
  strategy says, the cooldown ends, callers start connections and are served.
- `DecisionsSettle` needs no fairness: moderators' writes are bounded by what may follow a status.

Everything else is checked for safety only.

## Refinement

`Ballot` says what a poll promises: a voter votes once, the charge comes with the vote, a vote is counted at
most once, and the total may lag behind. `ChannelPoll` and `ShowPoll` instantiate it (`AsBallot`) with the
voters (a listener in a category, a listener), the rows, the total and what was charged as functions of their
own state, and a deleted poll as an empty one. `Participation!KeepsBallot` says of both that they start as a
Ballot and that each of their steps is one of a Ballot or none; TLC checks it in `Participation`, and
`ParticipationProofs!PollsKeepBallot` proves it. The mutant that keeps the charge of a refused vote, and the
one whose unique index is on the option as well, are not Ballots.

## Proofs

Eight modules hold theorems: about payments, calls, the ledger and challenges, call refunds and payouts, polls
and messages, what is on the air and the infrastructure beside it, accounts and what people do with them and are
told, and about the sums these need. The theorems hold for any constants that satisfy the named
assumptions of the component's modules (any payments, calls, listeners, rows and prizes, any number of
workers, restarts and errors) and rest on nothing else: the assumptions say that sets which are counted or
summed over are finite, that bounds are natural numbers, that "none" is not an element, and, of `Dashboard` and
`Listeners`, what the rest of the code leaves them (see below). TLC evaluates them in the runs. Few of the
properties are inductive by themselves: a suspended handler acts on what it read earlier. In each module an
inductive invariant says what such a handler can rely on; TLC checked it on a small instance before it was
proved, and the properties follow from it.

**PaymentProofs** (`IInv`). `CallbacksAreEvidence` - a callback the gateway sent says what became of the money;
`JobsAreEvidence` - a handler about to complete a payment has seen collected money or, of PayLeo's, an unproven
success callback; one about to fail an Airtel payment a refusal, the expiry or an unproven failure callback;
`OverdueIsExpired`; `RowIffPushed`; `FailedForAReason` - push failure, refusal, expiry or such a callback are the only ways to fail;
`DuplicateNeedsReopening` - a second credit needs a push failure, of which there is one. Wallets do not change once
decided and ages only grow, so this evidence lasts.

**CallProofs** (`IInv`). The key is that `handledBy`, once written, is final. `StepIsCallStep` shows that every
step moves each call only forward (`CallStep`) and `HandlerIsFinal` follows. With `UntakenIsUnhandled` (a call
that was never taken names nobody) and `AcceptsOwnTheirCall` (an accept past its claim is by the operator
the call names) the marker is right when it is set and stays right: `MarkerIsOwn`. `OneLiveCall` follows
from the index, `EndedStays` from `CallStep`. `WaitingIsTimed` is inductive with the types: the restart drops the
timers of exactly the calls it finds old enough for the sweep, and a timer is only given up with its call.

**Totals**. The sum over a set folds it in an order `CHOOSE` picks, by a recursive function. The library's
induction rules take an operator as a parameter, which no prover here instantiates; that inclusion of finite
sets is well-founded is however a plain fact, so each claim is proved by a smallest counterexample
(`SmallestSet`). `FoldExists` shows that the recursive function is defined, `TotalRemove` that any element
can be taken out first - from which everything else follows: `TotalChange` (one value changes, the sum
changes by as much), `TotalType`, `TotalSame`, `TotalZero`, `TotalAtLeast`.

**CreditProofs** (`CreditsInv`). Of the ledger: `PinnedReadingsHold` - a transaction whose snapshot was not
overtaken has read the split as it is, so a charge that is current takes from free and paid credits what they
hold; and what handlers still owe the ledger (`Owed`, a sum over tasks) changes with one task at a time, so
that `LedgerExplainsBalance` is followed write by write; `OwedWithinGiven` keeps what is owed or lost within
what was given. Of a challenge: a prize that is pending is in the hands of one worker
(`PendingPrizeIsInHand`), and until somebody reopens it a challenge has one ending (`OneEnding`): one worker at
most completes or cancels it, what it hands out or pays back was not handed out or paid back before, and
there are refunds or winners, not both.

**PayoutProofs** (`PayoutsInv`). For refunds (`RefundInv`): `ZeroedWhileInFlight` - a refund past its claim finds
the call at zero until it restores it - makes refunds of one call exclusive, as a second one cannot claim;
`JobsAreWhereTheySay` relates where a refund is to what it has written, `RowsAreOfReturns` ledger and balance.
With them `OneRefundInFlight` and `CreditIsConserved` are inductive; the conservation law is shown write by
write. For mobile money: `ClaimsAreExclusive` - while an orderly row (one whose claims and answers were about its
own id) carries an id, one call at most has claimed it, and until that call sends, the operator does not know
the id; `StatusIsTrue` and `OtherIdsUnpaid` say what the status tells of the operator's record, under the row's id
and under the others; `AnswersAreTrue` what an answer does. For airtime: one dispatch at most is out for a row
(`OneDispatchPerRow`), `DispatchesAreTrue` and `ReportsAreTrue` say what it and the delivery reports know, and
`RowsAreTrue` that ids before the row's own were not sent, failed, or were left unanswered.

**ParticipationProofs** (`ParticipationInv`). Polls need little more than their types, because the transaction or
the unique index decides in one step; the work is in the refinement: votes not yet counted are the
requests between their commit and their increment, a set that loses or gains one (`CountingStep`), and
charges and votes are sums (`TotalChange`). For messages: `KeysAreExclusive` - while one transaction has
inserted the message of a key, none is committed and no other has inserted it - and `ChargesAreExclusive` -
one transaction has charged the balance, which can pay.

**PeopleProofs** (`PeopleInv`, the `IInv` of each service). Staff accounts: `CreationsAreInOrder` - what a
creation relies on from one insert to the next is there - and `LateOnesAreKnown` - a Media Station creation
past its check is late once another has its account. Sign-in: `CallsAreAboutDocuments` - a call works on a
document that is there, and on the verified one from the unique index on. Second factor:
`ActivationsAreProved` - what an activation will save, a code was entered for. Refresh: `CallsHaveTokens` and
`RepeatsFindGrace` - only what was used is retired, and a repetition finds its pair. Sessions:
`EndingsLeaveNothing` - a request that ends sessions leaves neither row nor marker behind where it has
passed, and its list has every active session - with `RegisteredInOrder`, `MarkersAreExplained` and
`ClosedStayOut`. API keys: `HitsWereServed` counts the fetches that are answered and not yet counted against
what was served, so that a lost update can only lose hits. Push tokens: `UpdatesAreAlone` - on a phone whose
updates did not overlap, nobody else has the token between the two writes. Tickets: a claim has read an open
ticket, and whoever is alone in sending knows its counters (`SendersAreAlone`). Threads:
`RepliesAreOfMessages` - a reply about to commit answers messages of the thread, and those it is not to mark
were marked before - and `ReadersHaveHadReplies` - a device that marks the thread read has had the replies
stored before it looked, and no others. Statuses and stations: rows less than counters are requests between the
two writes (`ViewsAreCounted`, `CountFollowsRows`), and a number about to be written was counted
(`LikesAreGiven`). Presence: `LiveHaveConnected` - a socket connects once - makes the count that of a set which
gains one and loses those evicted or dropped; `OthersAreKnown` - a disconnect handler still at work beside live
sockets was overtaken by one that returned, and a refresh at work beside none had read the marker before it
went. Weekly posts: `OneRunInserts` - a run that has inserted the first post has inserted all there are, and is
alone in it, because everybody else begins with the first rank and meets the unique index - with
`PostsAreInOrder`. Statements: `BookedAsCharged` and `RowsAreFreed` follow each charge through its booking and the
repair.

What readers are told (`ReportsTellTheSame`). A figure is a count of rows or a sum of counts, so that most of the
argument is about sets of rows: what one figure counts is, period by period or station by station, a partition of
what another counts, and `Totals!TotalOfCounts` (a sum over a set of the sizes of what falls to each element is the
size of the whole, or less if some rows fall to none) turns that into numbers. A ranking has as many places as there
are stations or shows to fill it, and who is left out has no more than who is in it (`Dashboard!Highest`);
the latest activities are those with no later one left out. The cache needs an invariant: rows have numbers of
their own and get no fewer (`RowsAreStored`), a figure read at some time counts rows that are still there, in the scope
it was read for (`IsReading`, `CacheIsOfItsKeys`), and two requests under one key have the same scope unless a
super admin names a partner. A row may change its state, which only moves it between figures that the properties
bound together (`RowIsAdded`, `RowIsReplaced`). Lists: `NumbersStay` and `ScoreGrows` - a listener's first number
is his for good and what he is scored by is never taken away - let a rank read in two steps be compared with what
there is now. Statements: whoever `MayOpen` a statement has its rows in his scope and the reverse
(`StatementsAgree`), for every reader and owner but staff without a station.

Two hypotheses of this theorem are more than finiteness. `DashboardAssumption` takes a request as `buildScope`
leaves it (`LeftByBuildScope`), and a partner's own staff to ask for stations of their own only: `buildScope` does not
see to that, `getStats` overlooks another's station, and the series would show it, so that for such a request the
figures differ. `ListenersAssumption` takes the numbers of listeners at sign-up to be distinct, which the unique
index on verified numbers sees to (`auth.model.ts:61-70`).

**OnAirProofs** (`OnAirInv`, the `IInv` of `Shows`, `Moderation`, `Access`, `Uploads` and `RedisLink`).
`CallsHaveShows` and `DoomedAreExcused` - whom a pass of the scheduler is about to hang up on was without his show at
some time since he called; and a moderator about to show a message read a version that somebody approved, or that
the author has edited since. Three properties of this module contain fairness and are only checked; what they say of every
state and step is stated apart and proved. Account access: a cache entry says what the database says, or it is
excused, or somebody still has its removal before him (`WillDo`, over what remains of each administrator's change), and
the same of what a request has read and not yet stored. Uploads: `IsAtAFile` and `PassedAreStored` say where each file of
a request is; a slot goes from one video to the next in the queue without being counted free in between, each
waits once, and as many slots are taken as requests are in one. Redis: once it was connected the client is open for
good (`hasConnectedOnce => isOpen`).

| Theorem | Property |
|---|---|
| `PaymentProofs!TypeCorrect`, `CallProofs!TypeCorrect`, `PayoutProofs!RefundTypes` | `TypeOK` (in no run of its own) |
| `PaymentProofs!CreditsPaid` | `CreditsArePaidFor` |
| `PaymentProofs!CreditedOnce` | `CompletedIffCredited` |
| `PaymentProofs!DuplicateBounded` | `AtMostOneDuplicate` (in no run) |
| `PaymentProofs!OnlyExpiryLoses` | `OnlyExpiryLosesMoney` |
| `PaymentProofs!DowngradeOnlyByPush` | `OnlyPushFailureDowngrades` |
| `CallProofs!OneLiveCall` | `OneLiveCallPerListener` |
| `CallProofs!MarkerIsOwn` | `MarkerNamesOwnCall` |
| `CallProofs!EndedStays` | `EndedCallsStayEnded` |
| `CallProofs!WaitingIsTimed` | `WaitingCallsAreTimed` |
| `PayoutProofs!RefundsExclusive` | `OneRefundInFlight` |
| `PayoutProofs!Conservation` | `CreditIsConserved` |
| `CreditProofs!BalanceExplained` | `BalanceIsExplained` |
| `CreditProofs!PlayersCharged` | `ChargedIffPlaying` |
| `CreditProofs!PrizesFollow` | `PrizesFollowRows` |
| `CreditProofs!RefundedOnce` | `RefundedOnceUnlessReopened` |
| `CreditProofs!OnlyStaleOvertake` | `OnlyStaleReadersOvertake` (action property) |
| `PayoutProofs!PaidAtMostOnce` | `PaidOnce` |
| `PayoutProofs!StatusIsTold` | `RowsTellTheTruth` |
| `ParticipationProofs!MessagesSentOnce` | `SentOnce` |
| `ParticipationProofs!PollsKeepBallot` | `KeepsBallot` (refinement) |
| `ParticipationProofs!LateReadersReopen` | `OnlyLateReadersReopen` (action property) |
| `PeopleProofs!EveryAccountIsWhole` | `AccountsAreWhole` |
| `PeopleProofs!NoClientIsLockedOut` | `ClientsKeepAToken` |
| `PeopleProofs!WithdrawnIsOut` | `RevokedIsOut` |
| `PeopleProofs!TokensAreNotShared` | `OneAccountPerToken` |
| `PeopleProofs!SocketsAreKnown` | `SocketsAreCounted` |
| `PeopleProofs!ThreadsTellTheTruth` | `ThreadsAreTrue` |
| `PeopleProofs!CountsAreRows` | `CountsFollowRows` |
| `PeopleProofs!ReportsTellTheSame` | `ReportsAgree` |
| `PeopleProofs!StatementsFollowTheLedger`, `WeeksHaveOneRanking` | parts of `ReportsAgree`: statements and the ledger, weekly posts |
| `PeopleProofs!OnlyLateReaders` | `OnlyLateReadersOverwrite` (action property) |
| `OnAirProofs!TheScreenShowsTheApproved` | `ScreenShowsApproved` |
| `OnAirProofs!NobodyOnAirIsHungUpOn` | `OnlyFinishedShowsHangUp` (action property) |
| `OnAirProofs!ChangesOfAccountsTakeEffect` | the safety in `CachesFollow` |
| `OnAirProofs!UploadsStayWhole` | the safety in `UploadsEndWhole` |
| `OnAirProofs!RedisIsKnown`, `RedisIsNeverGivenUp` | the safety in `RedisComesBack` |

Every invariant and every action property of the passing runs is stated by a theorem. Model-checked only is what
is beyond the prover: liveness under fairness (`PendingResolves`, `RefundArrives`, `DecidedPayoutsSettle`, `CallsEnd`,
`ListenersCatchUp`, `DecisionsSettle`, and of `CachesFollow`, `UploadsEndWhole` and `RedisComesBack` what they say
must happen in the end), and the four violations.

## Where the code and its comments disagree

Four have a run of their own (`PROJECT.json`, "findings"):

- `PaymentOnce` - after a failed or timed-out push, `initiatePayment` sets `failed` by `_id`
  (`payment.service.ts:203`, and `:145`); a payment a callback completed meanwhile is open again and the next
  callback credits it a second time. `payment.service.ts:232-233` says that concurrent or duplicate callbacks
  credit at most once.
- `RefundDouble` - the sweep takes a missing refund row for a missing refund (`call.service.ts:1253`), but the
  balance is written first (`credit.service.ts:146-163`). `call.service.ts:1239` says "never double refund".
- `MoneyTwice` - `dispatchMobileMoney` stores the id it read and sends under the id of the row it claimed
  (`disbursement.service.ts:274`). `disbursement.service.ts:242-244` says that money is never sent again.
- `AbortedLeavesNothing` - the repositories' `create` ignores the session (`station.repository.ts:53-58`,
  `auth.repository.ts:25-30`, `user.repository.ts:34-39`), so an aborted creation keeps the inserts before the
  one that failed. `station.service.ts:213` says "Use transaction for atomicity: station + auth + user".

The modules state others, which TLC refutes when the property is put into a configuration:

| Property | Code | What a comment says |
|---|---|---|
| `Payment!NeverDowngraded` | the same update by `_id`, `payment.service.ts:203` | `:355` "Completed payments are never downgraded" |
| `Call!OldCallKeepsNewMarker` | marker read and deleted in two calls, `call.service.ts:157` | `:154-155` ending an old call "can never wipe the marker of the call the operator switched to" |
| `Call!OneCallPerOperator` | two accepts of one operator both read the current call before either claims, `call.service.ts:703` | `:702`, `:733` the previous call is remembered and ended |
| `Call!JoinedCallsAreNotMissed` | the join timer is started after the call can be joined (`call.service.ts:748`), and again after a restart whoever has joined (`:1312-1335`) | `:347` the listener "did not join" |
| `CallRefund!EveryCallCostsItsCredit` | `refundIfQueued`, `call.service.ts:32-71` | `call.model.ts:11` every call costs its credit "regardless of outcome" |
| `MobileMoneyPayout!OldIdsAreFinal` | an answer is written by row and status, not by id, `disbursement.service.ts:331` | `:411` "the old one is final at the operator" |
| `MobileMoneyPayout!InFlightIsResolved` | a payout the operator never heard of stays in flight, `disbursement.service.ts:326` | `:242-244` a crash or timeout "is resolved by asking the operator" |
| `MobileMoneyPayout!KnownPayoutsSettle` with two rows and a batch of 1 | the query for rows in flight has a limit and no sort and may return the same ones each time, among them those whose request never arrived, `disbursement.service.ts:317-325` | `:600` in-flight payouts are resolved |
| `AirtimePayout!FailedWasNotSent` | a timeout ends as success: false, `africasTalkingAirtime.ts:103` | `disbursement.service.ts:127-128` such a row needs manual review, "never an automatic resend" |
| `Challenge!RefundedAtMostOnce` | a stale scan activates a cancelled challenge, which can be cancelled again, `challengeScheduler.ts:137` | `challenge.service.ts:752` "Prevent double-refund race condition" |
| `Statuses!LikesDoNotDrift` | two likes recount, and the older count is written last, `status.service.ts:582-583` | `:581` "to prevent any counter drift" |
| `Notifications!NeverOnAnotherPhone` | a push goes to the token read before it changed hands, `user.service.ts:569` | `:565-567` notifications "can never show up on this phone" |
| `Dashboard!StatsAreOfScope` | the key of the cached statistics has no partner for a super admin who filters by one, `dashboard.repository.ts:205-222` | `:211` the key is of the scope |
| `CreditLedger!FreeNeverNegative` | `$inc` does not heed the schema | `creditBalance.model.ts:9` `min: 0` |

Met while modelling, without a property of their own:

- Challenges: a scheduled challenge whose whole window passes while the server is down stays scheduled
  (`DueStep` of `Challenge`); a submission checked before the end is charged after it; a challenge whose
  prize rows fail to be inserted never gets them (`InsertThrows`); who comes after the first failing refund
  of a cancelled challenge gets none (`RefundThrows`).
- Follows: `follow.service.ts:23` speaks of an atomic delete and decrement; a second delete of a row already
  gone decrements all the same (`skewed` in `StationList`).
- Weekly posts: `getWeekStart` (`status.service.ts:41-64`) mixes the local weekday with the UTC date, although
  `:51` speaks of Monday "in the station's timezone": near midnight one week has two starts, and may get two sets of
  posts, each under the unique index that `:150` trusts ("unique index will also enforce this"). A run on Monday at
  00:00 ranks the week that is just beginning.
- Shows: `socket/index.ts:536-537` says that the state "is kept in Redis so a restart does not lose it"; a save that
  fails in Redis is swallowed (`:527-529`), and when the process then restarts across the end of the show, the change
  is recorded without a word, or compared with an older show (`"change"` in `lapses` of `Shows`).
- Payments: a success callback of PayLeo's is credited without an enquiry (`payment.service.ts:403-417`) and a failure
  callback of Airtel's fails the payment without one (`:497-498`), whereas Airtel's success callbacks start one when
  the hash is not enforced; the exceptions in `CreditsArePaidFor` and `OnlyExpiryLosesMoney` are those two.
- Lists: the customer-care list filters by `country`, a field no user has (it is `countryId`), which
  mongoose's strictQuery (`db/index.ts:11`) drops, so it lists every country (`user.service.ts:1012`,
  `:1022`). The listeners' list counts deleted messages and the detail page does not; the station's list goes
  by number, so it counts what another account wrote from it.
- Lists of staff: an update that gives a member of staff another partner's station leaves the partner in the profile
  (`user.service.ts:189-195`), so that the list of presenters or media stations has him for either, by station or by
  partner; `:314` and `:721` say that such a list is "still limited to the partner's stations".
- Statements: lists, totals and exports are not scoped for staff without a station, as agents of customer care are
  (`listenerStatement.service.ts:145-149`), who may open none of what they list (`:316-320`). The export ignores
  `?station`, the totals ignore type, country and search, and a statement's price uses the station's country where
  the ledger uses the listener's.
- Dashboard: series keep the oldest 30 periods; the hourly series counts every row that is no purchase as
  spending, the daily one only message and call charges; a country does not narrow the credits; cancelled
  calls are only in the total.
- Support: a listener who writes to an active ticket through `createConversation` (`support.service.ts:92-98`)
  leaves the answers it holds unread, which `sendMessage` (`:361-366`) does not (`added` in `Support`).
- Uploads: ffprobe has no timeout of its own; `fileUploadHandler.ts` and `endAllActiveCallsForStation` are
  used by nobody.

## What is not modelled

Inside the modelled components:

- Payment: package administration, receipts, the computation of signatures and the encryption of the Airtel
  calls. The 10 s throttle of the app's poll only
  makes enquiries rarer.
- Call: history queries, the busy check against operators online, the video token. Arming the queue timer is
  part of the commit that creates the call (see `RequestCall`).
- Mobile money and airtime: `withinDailyLimit` is either answer at any time; amounts are left out. Whether
  the limit itself holds turns on the milliseconds of two claims.
- Challenge: deletion, PATCHes of prize and number of winners, answers and scores, prizes in kind.
- CreditLedger: idempotency keys of administrators' grants.
- Messages: the contents, search, deletion for oneself. Polls: the results pages.
- Shows: deletion, presenters; time zones are one zone; the 30 s copy of the show on air that listeners' requests
  read, a cache of the form of `ReadCache` that no decision of the scheduler or of an announcement reads. Sessions:
  the approval of studio devices. Two-factor: attempt counters. Accounts: updates of profile fields, password
  sign-in and reset.
- Notifications: read marks, deletion. Statuses: feeds. Support: queues, search, statistics.
- Dashboard: recent users, the distribution of roles, free date ranges; pages and sorting of all lists.

Whole components marked "no" in the inventory are administration of single documents, appends, read-only
queries, pure parsing, or input and output: no step of theirs spans two pieces of state that could disagree.

## Plan

Done: every component of the inventory marked "yes" or "partly" is modelled, and its safety properties are proved
for every value of the constants.

Next, in the order in which a mistake would cost most:

1. Abstract specifications of a payment that is credited or given up once and of a payout that is paid once,
   with `Payment` and `MobileMoneyPayout` shown to implement them up to the exceptions named above.
2. The daily payout limit, with a clock that tells two claims apart.
3. The requests of a partner's staff for another's station, with the differences between figures they cause stated
   exactly.
