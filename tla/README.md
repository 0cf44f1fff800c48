# Formal model of shared-compute (Ayni)

This directory holds TLA+ modules that model the coordinator and the provider
runtime of this repository, TLC configurations that check them on small
instances, and proofs that TLAPS checks for every value of the constants.
Definitions are translated from the source; `PROJECT.json` maps each of them to
the lines it stands for.

## 1. The system

A *consumer* (an HTTP client, the Python client, the demo) asks a *coordinator*
(Go, `src/coordinator`) for inference. *Providers* (phones and desktops running
the Rust code of `src/provider-core`) keep one WebSocket each to the coordinator.
The coordinator picks a provider for each job, seals the prompt to its key, relays
the stream of sealed chunks back, counts what it forwards, and charges and credits
accounts accordingly. Larger workloads are quoted first, and a Council of rules and
models reviews each quote. People sign in, pair phones and link devices to accounts.

### Components, their state and what makes them correct

| Component | State | Operations | Correct when | Modelled in |
|---|---|---|---|---|
| Job relay (`relay`) | per call: expected sequence number, deadline timer, result | `Execute`, `ExecuteOn` | every call returns unless its consumer stops reading; slot and table entry are undone on every path; stream is the assigned provider's, gapless, under the ceiling | `Relay`, `JobPromise` |
| Job table (`jobs`) | map job -> (connection, channel of 64) | `Register`, `Deliver`, `Close` | only the assigned connection is heard; nothing is sent on a closed channel | `Relay` |
| Provider registry (`registry`) | connected providers, active-slot counters, draining set | `Add`, `Remove`, `AcquireSlot`, `ReleaseSlot`, `Snapshot` | counter = jobs in flight | `Relay`; what a snapshot holds in `Scheduler` |
| Provider hub (`wshub`) | one goroutine per socket | register, ack, read loop, drop | the handshake order; late frames dropped | `Relay` |
| Provider runtime (`provider-lib`) | session phase, job -> cancellation token | `run`, `handle_job`, cancel, shutdown | a cancelled job stops; the token budget holds | `Relay` |
| Inference backends (`sc-inference`) | one generation | `generate` | ends, within budget, in a result or an error | `Relay` (budget, cancel, end) |
| Scheduler (`scheduler`) | none; reads a snapshot of the fleet | `Eligible`, `Pick` | only providers that meet the need | `Scheduler` (the filters) |
| Batch fan-out (`batch`, `api/batch.go`) | candidates with in-flight and assigned counters, results by index | `Run`, `runOne`, `summarize` | every item answered once at its own index; counters return to 0; load spread | `Batch`, `BatchPromise` |
| Pricing (`pricing`) | the rate card | `QuoteJob`, `EstimateWorkload`, `QuoteWorkload` | a quote is priced as the rate card says, and is under the cap | `Pricing` |
| Council (`council`) | decisions in memory and in a table, linked by hashes | evaluate, publish, save, hydrate | nothing is quoted unreviewed; a quote's decision is shown; the ledger is linked | `Council` |
| Demo (`api/demo.go`) | the last run | quote, review, run | no run is kept that was not reviewed | `Council` |
| Quotes and runs (`marketplace.Store`, `api/workloads.go`, `api/runs.go`) | quotes, in-process run registry, `workload_runs` rows, results parked in memory | create, accept, execute, finish, webhook, fetch, poll, expire | a quote runs once; charged once; terminal state reached | `Runs` |
| Prepaid ledger (`api/billing.go`, `api/chat.go`, `store/billing_pg.go`) | balance, credit ledger | top-up webhook, credit gate, debit | each payment credited once; each job debited once | `Ledger`, `Account` |
| Payouts (`api/billing.go`, `store`) | earnings rows accrued/paid, payout rows | payout run, settle, webhook | each earned cent paid once | `Payouts` |
| Accounts and pairing (`auth`) | users, identities, keys, tokens, sessions, pairing codes, device owners | callback, credentials, sessions, create and redeem a code, link a device | one account per address; what it has, it keeps; a code is used once; founding ranks stay | `Accounts` |
| Referrals and leaderboard (`auth/referral.go`) | codes, referrers, profiles, a kept answer | ask, claim, opt in or out, list | a code leads to who showed it; one claim wins; who opts out is off the list once all caches forgot | `Referrals` |
| Store (`store.Mem`, `store.PG`) | the same tables as maps or as rows | every call of the interface | both read alike | `Store` |
| Rate limiter (`ratelimit`) | a token bucket per caller | `Allow` | never more than burst + rate*t; a caller that waits as told gets in | `RateLimit` |
| Intake forms (`api/intake.go`) | waitlist, proposals | submit, list | a signup is kept once | `Store`, `RateLimit` |
| Mobile session (`sc-mobile`, Android service and controller) | generation counter, handle of the run, status, the loop's `running` | create, stop, destroy, a turn of the policy loop, start, stop, reconnect | one live run; its events and no other's are heard; an allowed phone stays registered | `Session` |
| Manifest signing, attestation, crypto | keys | sign, verify, seal | cryptography of one message | abstracted to whether a payload opens |
| Desktop daemon (`provider-daemon`, `sc-net`) | none | reconnect | the same loop without a controller | not modelled |
| Operator console, events, metrics | ring buffer, flags | list, drain, toggle | presentation | not modelled |
| Migrations (`store/postgres.go`) | applied versions | `Migrate` | each migration applied once | not modelled |
| Model cache, model registry, telemetry | files, platform probes | download, verify digest | pure I/O | not modelled |
| Android app, web front ends, installers, security tooling | user interface, scripts | | presentation and offline tooling | not modelled |

### Interaction

* Handlers (`chat`, `batch`, `workloads`) call `relay.Execute*` synchronously.
* Relay and hub share the job table (a mutex-protected map), the bounded channels
  and the slot counters; the hub goroutine runs between any two steps of a relay.
* Hub and provider exchange frames over an ordered socket that can break at any
  time.  What has been written may or may not have been read when it does.
* A quote is priced, its supply counted by the scheduler's filters, reviewed by the
  Council, and kept for an accept; accept and execution are `Runs`.
* Handlers, runs and payouts share the store.  Each store call is atomic (a
  mutex, or one PostgreSQL statement or transaction); sequences of calls are not.
  The account handlers share their tables in the same way.
* The hub asks the accounts for the owner of a token when a device registers.
* Stripe and consumers' webhook endpoints are external; they may answer late,
  twice or never.  So are the OAuth providers and the Council's model seats.

### What is hard here

Early returns and deferred calls interleaved with hub goroutines; the bounded event
channel dropping frames; the race between deadline, cancel and the last frame;
the window between registration and its acknowledgement; check-then-act on balances
and ceilings; several store calls that are one operation in the text but not in the
code; retries by Stripe; overlapping sign-ins of one person; a hash chain that is
appended under a lock, saved after it and cut; two implementations of one store;
crashes between two of these steps.  `PROJECT.json` lists each under `hazards` at its line.

## 2. Modules

| Module | Models | Checked by | Proved in |
|---|---|---|---|
| `Relay`, `JobPromise` | one job from request to result, both ends of the socket | `MCRelay`, `Promises` | `RelayProofs` |
| `Batch`, `BatchPromise` | the fan-out of a batch over workers and providers | `Promises` | `CallProofs` |
| `Ledger`, `Account` | AddCredit, Stripe deliveries, job debits | `Promises` | `LedgerProofs` |
| `RateLimit` | the token buckets | `Promises` | `CallProofs` |
| `Runs` | quotes, accept, synchronous and asynchronous execution, restart | `MCRuns` | `RunProofs` |
| `Payouts` | accrual, payout runs, connected accounts | `MCPayouts` | `PayoutProofs` |
| `Store` | both stores, call by call | `MCPayouts` | `PayoutProofs` |
| `Accounts` | sign-in, credentials, pairing, devices | `MCAccounts` | `AccountProofs` |
| `Referrals` | referral codes, claims, leaderboard | `MCAccounts` | `AccountProofs` |
| `Council` with `Scheduler` and `Pricing` | from a workload to its quote, and the demo | `MCCouncil` | `CouncilProofs` |
| `Session` | the phone: policy loop, controller, generation counter, reconnect | `MCSession` | `SessionProofs` |

How they compose: `Relay` implements `JobPromise`, which is what a worker of `Batch`
relies on when it calls `exec`.  `Batch` implements `BatchPromise`, which is what a
chunk of `Runs` relies on.  `Runs` and the chat path debit through `AddCredit`, whose
transactions (`Ledger`) implement the atomic `Account`; that is why `Runs` may treat a
debit as one step.  What `meter` accrues is what `Payouts` pays.  `Council` extends
`Scheduler` and `Pricing`: a request meets all three before `Runs` sees its quote.
`Store` applies every call to the maps of one implementation and to the rows of the other,
side by side, and compares what can be read from them.

Components that share no variable are put together in a module of their own, in which the
initial state chooses the one that moves (`part`): `Promises` (`Ledger`, `Relay`, `Batch`,
`RateLimit`), `Books` (`Payouts`, `Store`) and `Members` (`Accounts`, `Referrals`).  A product
of them would show nothing more.  Theorems about the components that such a module
instantiates are stated of its specification, for all values of its constants.

What could be added: the post-run reviews of the Council, overlapping first onboardings of one device's payout account, and migrations.

## 3. The modules

### Relay

| Variable | In the code |
|---|---|
| `link`, `down`, `up` | the WebSocket and the frames written and not yet read |
| `hub` | where `HandleProvider` is |
| `active` | `registry.Provider.active` |
| `entry`, `chan`, `closed` | `jobs.Manager.m`, the `events` channel of the job |
| `pc`, `prov`, `next`, `out`, `outcome`, `usage`, `caller` | the locals of `ExecuteOn`, the chunks it accepted, its return value, the request context |
| `session`, `task`, `gen`, `stop` | the provider's `run`, its `jobs` map, the chunks a task emitted, its `CancellationToken` |

`ExecuteOn` is one action per step on shared memory: `Pick`, `List` (Register),
`AcquireSlot`, `Dispatch` or `DispatchFails`, one action per arm of the select loop, then
the deferred calls in their order, each a step of its own (`ReleaseSlot`, `Unlist`,
`CloseChan`), because hub goroutines, the other relays and the timer run in between.
`onDelta` is called inside the select loop.  The handlers that collect an answer append to a
builder; a streaming chat (`Streamed`) writes to its consumer, and `writing` is the time that
takes: it ends when the consumer reads (`Written`), when the write fails because the consumer
left (`WriteFails`), or never.  The hub and the provider are actions per frame.  A faulty
provider may put any frame for any job on its socket.  `Shutdown`, `Cut` and `ProviderExit`
break the connection at any time; a frame that was written may then be lost.  `JobPromise` is
the call as its caller sees it, where `sending` is a caller that does not read.

Abstracted: a payload is `ok`, `bad` (does not open) or `garbled` (does not parse);
sealing, manifest signatures, heartbeats, benchmark reports are left out.  Chunks with an
empty delta are accepted and counted, and not handed to `onDelta`: any accepted chunk may be
one, so `ForwardChunk` of a streamed job starts a write or does not.  Which provider is picked
is left open, so the model holds for every ranking, and for every set that is draining.
Coordinator shutdown is not modelled.

A provider's frames pass through its writer, the socket, the read loop, the channel of the
job and the select loop.  `ShortSuccessIsWhole` is about all of them: a success that has no
more chunks than the channel holds is all the provider generated.  Only a longer answer can
be cut short unnoticed, which is what `relay_truncate` shows.

### Batch

`phase`, `cands`, `workers` and `fed` are `Run`'s locals; `at`, `idx`, `prov`, `err` those of
each worker goroutine; `inflight` and `assigned` are the counters under `mu`; `results` is
the slice.  Choosing a provider and releasing it are the two critical sections and one
action each; the write of the result, which the code does outside the lock, is a third.
The context may end at any step.  `exec` ends in a success or an error and always ends:
that is what `JobPromise` says of it, not an assumption of its own.

### Runs

One consumer key is followed; the actions of other keys can only evict its quotes,
which is `QuoteGoes`.  A request is one `handleAcceptWorkload` with the goroutine it spawns,
one action per store call or per access to `runRegistry`; `row` is the database row,
`status` the goroutine's copy of it, `results`, `hook` and `inflight` what the registry
keeps.  A chunk is one `batch.Run`.  `Restart` empties everything but the rows and the
balance.  Each store call may fail (`MaxFaults`), and is forgotten when it does, as in the
code.  A run whose last save failed is `unsaved`: the row stays
as it was.  A recovered panic ends a run as a refused chunk does.  `ResultsAnswer` is what a
poller is told.  Not modelled: the address check of the webhook URL and the list of runs,
which change nothing a run depends on; every quote has the same price, whose arithmetic is
in `Pricing`.

### Ledger

One account.  A call is one `PG.AddCredit`: `Check` is its `SELECT count(*)`, `Update` the
upsert of the account row, which takes the row lock, `Insert` the ledger row with its
unique index, `Commit` the commit.  The isolation is READ COMMITTED: `Check` sees only
committed rows.  `CutOff` is the five-second timeout, a lost connection or a crash: the
database rolls back.  A commit whose answer is lost leaves the caller with an error
(`unheard`), and Stripe delivers again.  `Account` is the atomic account.

### Payouts

`earned` is the history of what was accrued, `owed` the sum of the rows in state
`accrued`, `paid` what Stripe transferred.  A payout run is `ReadAccrued`, then for each
device `Skip` or `Transfer` and `Settle`; jobs accrue in between.  A transfer succeeds,
is refused, or succeeds without an answer.  `late` and `overlapped` are history variables
that only properties read: what was earned while a run had the device on its list, and
whether two runs were ever at work at a time.  The order in which a run visits devices
is left open.  Webhooks and re-checks are two steps, the read from Stripe and the upsert;
`raced` is the history that two of them had one account at once.
Not modelled: two concurrent first `adminPayoutConnect` calls.  `store.Mem` is in `Store`.

### Accounts

A request is a handler at work, and each of its calls to the database a step: `Look`,
`Commit` (the transaction of `upsertUser` with its unique indexes), `LookForKey`, `MintKey`,
`LinkKey`, `LinkToken` (`ensureUserCredentials`), `OpenSession`; `Redeem`, then `RedeemAnswers`;
`Register`, then `LinkProviderDevice`.  Other requests come in between, and any call may fail
(`CommitFails`, `CredentialsFail`, `SessionFails`, `RedeemFails`, `LinkFails`); a commit that fails may have
taken effect.  `mail`, `ident`, `key`, `token`, `code`, `owner` and `firstSeen` are the tables; ids
that are drawn are numbers never used before.  An address has spellings, which `Lower` maps to
what the index on `lower(email)` compares.  A code's age is 0 while it can be redeemed, 1 when
`PairCodeTTL` has passed and 2 when the statement that comes before each new code drops its
row (`DropOldCodes`); the same characters may then be drawn again.  `issue` numbers the rows
ever created: a redeem and the phone that got its answer remember which one it was, and how
old, and no guard reads either.

### Referrals

`ReferralCode` is `LookForCode` and `DrawCode`, a claim is `Claim` and `ApplyClaim`: each statement
a step, with its WHERE.  A statement may fail without effect (`CallFails`), or take effect and
lose its answer (`CallLost`); after the latter a code is read back, and a claim is answered
with an error.  `told` and `applied` are what accounts were answered.

The leaderboard is `KeptBoard`, an answer that is given again, or `ReadBoard` and `StampBoard`:
the rows are read, then the founding devices are counted, and only then the answer gets the
time it is kept by; people opt in and out in between, since `SetProfile` takes no lock.  `cache`
is that answer with its age, `fill` the one being built under the lock.  Every answer allows
copies for thirty seconds (`Cache-Control`), which `copy` and `ShowCopy` are: whether a viewer's
answer replaces the copy that is kept is left open.  `board` are the rows a viewer has
just been shown.  `Tick` lets all ages grow together, up to `Ttl` (thirty seconds), and lets
building an answer take `MaxFill` ticks at most; `gone` is for how long an account has been off
the list, and stops at `ShownAtMost` and one.

### Council, Scheduler and Pricing

`Scheduler` is the filters of `Eligible` as operators on a snapshot of the registry.  The order
of its list is left out: it reads the load of devices that go on working while it is sorted,
and `Relay` and `Batch` hold for every order.  `Pricing` is the rate card, `QuoteJob`, `EstimateWorkload` and
`QuoteWorkload` in exact integers, rounded where the code rounds; price multipliers are whole
percentages, and `MaxTokens` is the bound of `clampInt`.  In `Council` a request is
`Ask` (supply, price, cap), `Review` (the selected seats vote, `Decide` is the policy),
`Publish` (append, link and cut under the lock), `Save` (the row, outside it), and `Answer` or
`AnswerDemo`, which keeps the decision and its id when the run succeeded (the run itself is a
job of `Relay`); `Restart` loads the ledger from the table.  A deterministic seat's vote is
computed from the workload; a model seat answers one of `Replies` or nothing.  Which seats
are selected is decided by a hash and left open.  An id stands for the hash of its
record.  `wired` says that a database was there at the start, `num` and `boot` are history.
Left out: throughput and scores, which only the estimated time shows, the texts of the
reviews, the post-run reviews.

### Store

`mem` holds the maps and slices of `store.Mem`, `pg` the tables of `store.PG`; `MemX` and `PgX`
are the two bodies of read `X`, and each call changes both.  `topic` is the group of tables a
behaviour exercises: no call reads the tables of another group.  `held` is what the
coordinator remembers of a run between two saves.  Calls do not fail here; that is in
`Ledger`, `Payouts` and `Runs`.  Left out: time windows and the row limits of the lists
that only PostgreSQL has, see section 7.

### RateLimit

Time is in milliseconds, a token is 60000 units, and `Rate` units are refilled each
millisecond, which is `Rate` tokens a minute without fractions.  `Allow` is one call under
the mutex.  `since` counts grants from given moments on, `promised` is when a refused caller
was first told to come back; both are history.  `Retry-After` is the next full second.

### Session

The phone has three kinds of threads, and `at` and `run` say where each is.  `Create`,
`CommandStop` and `Destroy` are the callbacks of the main thread; `Sample` to `Look` a turn of
a service's loop, whose `running` and `verdict` are its locals; `svc` is the state of the
service and of its scope.  `monitor` is the lock of `ProviderController`'s `start` and `stop`:
`start` is `StartFinds`, or `StartBegins` and `Launch`; `stop` is `StopBegins`, `StopTakes` and
`StopEnds`, because the generation, the mutex-protected handle and the status change one
after the other while events arrive.  `current` and `inner` are `generation` and the handle of
`Provider`; a run has a name instead of a number, since generations are compared for
equality only, and a name is used again when nothing refers to it.  An event is checked by
`Bridge` (`Emit`) and written by the listener (`RunWrites`, `JobWrites`) in two steps.
A setup and a dial await the network (`SetupStep`, `DialStep`); the rest of a run's task does
not (`TaskStep`), and only that is fair.

Abstracted: of the five phases only whether the loop takes them for up or down is kept;
the listener's read-copy-write for job events may write either back.  What the settings
and the device say is chosen anew in each turn.  Back-off and the pause between turns are
time and left out.  The branch `AlreadyRunning` cannot be reached under the monitor.  The
death of the process, which resets everything, is `Init` again.  `blanked` is a history
variable: some loop has found the settings without a token.

## 4. Runs

Deadlock is not checked: every instance has finitely many jobs, requests or calls, and
stops when they are used up.

| Run | Question | Instance |
|---|---|---|
| `relay` | Does any order of relay, hub, provider, cut and deadline leak a slot, send on a closed channel, forget a generation or deliver a late frame? Can a faulty provider get anything but an ordered stream under the ceiling to the consumer? Is a success that fits into the channel all that an honest one generated? | two jobs on an honest connection, one token each, at most one consumer that leaves; or one job, an honest and a faulty connection, two tokens; buffer 2 for the one job when its connection is honest, else 1 |
| `promises` | Do the calls handlers are written against keep their promises, with liveness? | ledger: one session and one debit, four calls, two cut-offs. Relay: one job, streamed to its consumer or collected, one connection, two tokens. Batch: four items, two providers, pools of one and two. Limiter: two callers, two requests a minute, pauses of 9.5 and 20.3 s, 62 s |
| `runs` | Does a quote run once, is it charged once and for work only, is the run count exact, is what pollers see and fetch consistent, does a queued run finish? | two accepts, two quotes, two chunks, price 2 of a deposit of 5, one run at a time, one store error, one restart |
| `books` | Is anything owed lost or paid twice, does the stored status follow Stripe? Do both stores read alike? | payouts: two devices, two operators, two handlers, two jobs each, two account changes, one fault; no job is metered once handlers have overlapped (`HandlersApart`). Store: every sequence of five calls in each of seven groups of tables |
| `accounts` | One account per address? Does an account keep what it has, and get what it lacks? Is a code redeemed only while it is fresh, and once each time it is created, and is a rank kept? Do referral codes and claims tell the truth, and is an opt-out honoured in time? | three logins of two addresses, two callbacks; with them either two phones and one code that is created twice, or two devices and three registrations. Or two accounts, two codes, two requests, two claims; or the leaderboard of the two with limits 1 and 2, two ticks to keep an answer and two to build one. Two faults each |
| `council` | Is anything quoted unreviewed, is its decision shown, is the ledger linked? | two handlers, three requests of two workloads and the demo, three fleets, one model seat, a ledger of two, one restart, one fault, one tick |
| `session_phone` | Are there ever two live runs, is the loop wrong about a provider that is up, does an allowed phone register again and again? | one service, two runs, one job |
| `relay_truncate`, `payouts_overpaid`, `session_paused`, `council_chain`, `store_owed` | five statements of the repository that the code does not keep, see section 7 | smallest instance that shows it |

Why the bounds are enough to be interesting:

* Buffers 1 and 2 stand for 64: with buffer 1 and a ceiling of 2 a chunk, or a chunk and
  the final frame, meet a full channel.  With buffer 2 two chunks of an honest provider are
  the longest answer that `ShortSuccessIsWhole` is about; they fill the channel and keep the
  end out until one is taken.  Two jobs on one connection are what slot counting needs; one
  faulty and one honest connection are what assignment needs.  The product of both is out
  of reach, so a behaviour of `relay` has one or the other, and no honest connection beside
  a faulty one that has the job.  Ceiling 0 switches the relay's check off; the theorems
  cover it, and all products.
* The pool sizes 1 and 2 stand for 8 and 16 and for the clamps in between: the requested
  value 0 selects the default, 5 is clamped to the maximum, and four items outnumber the
  workers.
* Two accepts and two quotes cover both races: for one quote, and for one balance.  One
  fault and one restart at every position cover each partial failure alone.  The names are
  given in the order of events (`r1` begins and asks for `q1`) instead of by symmetry, which a
  liveness property rules out; the notice is followed for one of the two.
* Four calls are two deliveries and a repetition of a session plus a debit, with every
  interleaving of their statements; the theorems cover more entries.
* The pauses of the limiter are no divisors of a token's 30 s, so that buckets hold
  fractions; the theorem covers all times and rates.
* Two handlers of one account are what can store its answers in the wrong order.  A payout
  run sees `status` and `ready` alone, not the handlers that wrote them, so nothing is lost by
  `HandlersApart`; the theorems have no such bound.
* A share of 3 and a cent of 2 leave dust after one job and none after two; the minima 0
  and 5 skip one job and pay two.
* Five calls are one of each kind that a group has, or a repetition with something in
  between; two connections of one device are what tells the stores apart.
* Two callbacks are what races for an account; the three logins are two spellings of one
  address, one that changes, and one whose profile hides it.  One code that is created twice
  is the same characters drawn again while a phone waits; two phones are what types it twice.
* Pairing and registering meet only in the tokens, so `accounts` has one or the other
  beside the sign-ins; codes and claims meet the leaderboard only in the order of its rows.
  The theorems cover the products.
* Two ticks are the least that tell an answer that is fresh, one that is older and one that
  has expired; with two to build one, an opt-out may fall into each part of the way.
* The two workloads come up to the cap of the price and to its floor, one of them with all
  the seats; the fleets are empty, leaving, and mixed.  A ledger of two is cut by the third
  decision.
* Two runs of the phone are the one that was stopped and still reports, and the one that
  replaced it.  One service is created once and destroyed while its loop is in mid-turn; the
  overlap of the loops of two services is what the theorems cover.

## 5. Fairness

* Relay: weak fairness of the steps of `ExecuteOn` before dispatch (`Prepares`), of the
  deadline (a Go timer fires), of a write that fails because the consumer has left, of the
  deferred calls (`Unwinds`), of the end of a task whose token is cancelled (`generate` polls it
  between tokens), and of each connection's read loop at both ends (a goroutine or task that
  can run does).  None of picking a job, of connecting, of the network breaking, of the
  consumer reading or leaving, or of a provider generating: so a provider that stalls is
  covered, and jobs end by the deadline.  The deadline is an arm of the select loop and is
  taken only there: a streaming chat whose consumer keeps the connection and stops reading
  holds the loop inside `onDelta`, and nothing in the code ends that (section 7).  So
  `EveryJobEnds`, `AbandonedTasksEnd` and `JobPromise` speak of calls that are not held for ever
  (`Stalled`, `sending`).
* Batch: weak fairness of each worker, of the feeding loop's close and of the return.
* Runs: weak fairness of counting a queued run and of its execution: store calls and the
  webhook have timeouts, and a batch returns (its `onDelta` appends to a builder, so no
  consumer holds it).  None of accepting.  `RunFinishes` excepts a lost process and the failure
  of the call that saves the end, and no other failure.
* Ledger: weak fairness of each transaction, and Stripe delivers a session again while it
  has no 200 for it.
* Session: weak fairness of every thread and of what tasks and jobs do by themselves (the
  schedulers of Android and tokio run what can run).  None of a session lasting or ending, of
  the user, of the policy, nor of a setup or a dial ending: connecting
  (`sc-net/src/lib.rs:19`) and waiting for the `register_ack` (`provider-lib/src/lib.rs:287`) have
  no timeout.  `ConnectsWhenAllowed` therefore says two things.  By itself the phone is again
  and again held by a run that sets up, dials or serves.  That it is again and again in a
  session has the antecedent `PeersAnswer`: each setup and dial ends, and one that is tried
  again and again succeeds once.
* Payouts, Accounts, Referrals, Council, Store and RateLimit have no liveness property and
  no fairness: nothing makes an operator start a run or a person come back, and their
  requests end by themselves or not at all.

`promises` states the fairness of its parts together; no fair action of a part that does not
move is enabled, except Stripe's delivery, which is restricted to its own part.

## 6. Proofs

All theorems hold for every value of the constants allowed by the modules' assumptions
(`RelayAssumption`, `LedgerAssumption`, `PayoutsAssumption`, `SessionAssumption`, `RunsAssumption`,
`AccountsAssumption`, `CouncilAssumption`, `RateAssumption`, `BatchAssumption`,
`ReferralAssumption`, `StoreAssumption`), which TLC evaluates on every run.  Each invariant
named here was checked by TLC before it was proved, the stores' `StoreInv` included.

* `RelayProofs`: `TypeCorrect` first.  Then `RelayInv`, the conjunction of the types, of
  `SlotsMatchJobs` and of `JobInv` for each job, is shown inductive, one lemma per group of
  actions: where `ExecuteOn` is determines its table entry, its channel and its
  counters, and the channel holds nothing of another connection.  Neither
  `OwnOrderedStream` nor `UsageIsForwarded` is inductive by itself: both need
  `next[j] = Len(out[j])` and the origin of what is still buffered.  The slot count needs
  lemmas about the cardinality of a set that gains or loses one job.  That an abandoned
  task is told (`AbandonedIsTold`) is not inductive: `ProviderInv` follows each job over both
  ends of the socket.  An honest provider has asked for, or holds, only jobs that were sent to
  it once (`AskedOnce`), what it has sent is what it generated (`SentTruly`, `HeldTruly`), and a
  cancel is written behind the job it is about.
  `ShortSuccessIsWhole` needs `RoomInv`, which follows the chunks of a job on their way:
  what the provider has sent of it is in order with the end last (`Ordered`), no chunk is
  missing between the one `ExecuteOn` expects and any that is in the channel or behind it
  (`Held`, `Queued`), and none at all while the link is up; so the end is in the channel
  only behind all of them.  A chunk that is read finds room because those before it in the
  channel have smaller numbers, and there are `BufCap` numbers in all.  The operators take the
  queues as parameters (`NoneLost`), so that there is one lemma for each thing that happens
  to a queue, and `RoomKept` for every step that touches none.
  `RelayKeepsPromise` is the refinement of `JobPromise` without its fairness: initial
  states and steps.  `WithinCeiling` and `UsageIsForwarded` are proved and no run has them:
  they follow from the promise as well, whose `Receive` and `End` say so.
* `LedgerProofs`: `LedgerInv` is inductive.  The row lock belongs to the one call that has
  written the draft, the draft is the committed balance with its entry, and a call that
  passed the unique index has an entry that is not posted; so `Commit` posts one new
  entry and adds its amount (`CommitPosts`), which with a lemma on cardinalities (`SumAdd`)
  gives the balance, and is a `Post` of `Account` (`LedgerImplementsAccount`).
* `PayoutProofs`: `PayoutsInv` is inductive.  `SnapshotInv` says that each run's snapshot
  still covers what was earned before it, also after other runs have paid and settled;
  `BooksInv` says that in clean sequential runs only the transfer about to be settled is
  in the books twice.  `FloorDust` is the one arithmetical fact: a sum is its whole cents
  and its dust.  `StatusIsCurrent` needs `StatusInv`: while no two handlers had one account
  at once, what a handler has read is still so, or a further notification is to come.
  The second half of the module is about `Store`.  `StoreInv` relates the two
  implementations table by table: the aggregates of `Mem` are the sums over the rows of
  PostgreSQL, and the two know the same jobs, sessions, keys, addresses, threads and runs.
  It has one lemma per call, and a frame lemma (`SameRead`) for the tables a call does not
  touch.  `Sum` and `RepliesTo` are recursive functions over sequences of rows; that one row
  more adds its column (`RowsAppend`), or comes last in its thread (`RepliesAppend`), is an
  induction over the length, done with a least counterexample, since `WFMin` of the library has
  no operator as a parameter.  `BooksAgree` and `RowsAgree` then say that whatever holds the
  same reads the same.
* `SessionProofs`: `SessionInv` is inductive.  `OneLiveRun` is not by itself: that `Launch`
  finds nothing held needs `MonitorInv` (what a thread has done inside `start` and `stop`),
  `HeldInv` (a held run is neither over nor stopped, so that `is_running` is exact) and
  `HeldIsHeard`.  `LoopKnows` needs `PlaceInv`: a loop that has not been created, or a main
  thread that is idle, stops nothing.
* `RunProofs`: `RunsInv` is inductive.  For each request, where the handler or the goroutine
  is determines what has been taken, run, charged and saved (`PathInv`, `WorkInv`, `RowInv`); of
  the requests that ask for one quote only one is past the lock (`OneWinner`); and
  `inflight` is the cardinality of the requests in certain places.  From it follow that a
  quote runs once across restarts, that it is charged once and for work only, that no
  place of the count leaks, that what is handed out is settled, and that pollers see
  the row go forward only.
* `AccountProofs`: `AccountsInv` is inductive.  A callback that has looked an address up may
  be out of date, so the argument is at `Commit`, whose indexes reject what the look missed;
  keys and tokens are below `fresh`, so that no two accounts share one (`TokenInv`), which is
  why a redeemed code leads to the account that showed it.  `CodeSingleUse` is not inductive:
  `IssueInv` and `SpentInv` say of every row, waiting request and phone which issue of a code it
  has, that no two have the same unspent or spent one, and that what was spent was fresh; a
  new row is a new issue, whatever its characters.  A rank is the first place of an
  account's devices in a sequence that only grows (`FoundersKeepTheirRank`; that there is a
  first one is a library fact about well-founded orders).
  For `Referrals`, `ReferralInv` adds to its three properties what the unique index keeps apart
  (`CodesDiffer`) and, for whoever is in rows that may still be shown, how long ago they may
  have left the list: the age of an answer that is being built, then that of the kept answer,
  then that of the copy (`BoardInv`).  A person who leaves between the reading and the stamp
  was listed at the reading, which is why the bound is the time to build an answer and twice
  the time one is kept, and not thirty seconds.
* `CallProofs` is about the two calls that handlers make without a store.  `BatchInv` of
  `Batch`: where a worker is determines its index and provider (`WorkerShape`), the counters
  are the cardinalities of the workers that hold a provider and of the items it was
  assigned (`InflightIsUse`, `AssignedIsKept`), and of the workers and results each item has one.
  From it follow `PoolInv`, for any number of items, providers and workers, and the
  refinement of `BatchPromise` (`RunIsAMap`).  An item that succeeded has the error `"ok"`, where
  the code has the empty string.
  `BucketInv` of `RateLimit` follows each bucket from the last request: what was granted
  since a mark and what is left came from a full bucket and the refill (`CountOf`), and what is
  missing is there at the promised moment (`PromiseOf`).  It holds between requests because
  the bounds move with `now` while the buckets stand still.
* `CouncilProofs`: `CouncilInv` is inductive.  Decisions of this boot stand after those that
  were loaded, numbered upwards, and each in progress is on the ledger or pushed out
  (`OfThisBoot`, `Shown`); `PublishOK` is the one step that appends and cuts, and rests on a lemma
  about the cut (`LatestOfAppend`).  A request's decision is `Decide` of the votes it was
  reviewed by (`Reviewed`), so what is let through was judged (`NotBlockedIsJudged`).

Only model-checked: every liveness property (`EveryJobEnds`, `AbandonedTasksEnd`,
`RunFinishes`, `PaymentsArrive`, `ConnectsWhenAllowed`) and the liveness part of
`RelayKeepsPromise` and `BatchKeepsPromise`, which are beyond the prover.

## 7. Where documents and code differ

Five have a run that shows them, listed under `findings`:

* A job succeeds with a truncated completion when the event buffer drops its last chunks
  (`relay_truncate`).
* Overlapping payout runs transfer the same accrued sum (`payouts_overpaid`).
* When a setup or a connection failed once, the service's loop forgets the provider, whose
  reconnect loop goes on; a policy that blocks later does not pause it
  (`session_paused`).
* The Council's ledger is cut to its latest decisions, and the first that is left does not
  link onto the seeded records shown before it, so that `verifyChain` is false from then on
  (`council_chain`).
* The memory store owes a device only the first job of a connection: `Mem.RecordEarning`
  returns before it accrues when the connection already has an earning row
  (`store_owed`).

Met while modelling, without a run of their own; the models keep the behaviour:

Runs, relay and billing:

* `docs/WORKLOAD-RUNNERS.md:273` calls prepaid credit the hard stop; the balance is compared
  at accept (`workloads.go:305`) and debited after the run (`runs.go:212`), so overlapping
  accepts spend the same credit and the balance falls below zero.
* `docs/WORKLOAD-RUNNERS.md:151` says the notice is posted when the run finishes, with a
  `results_url` to fetch; it is sent before the row is saved (`runs.go:313`, `320`), so a
  receiver that fetches at once reads that the run is not finished.
* Results that a restart lost are answered like results that were fetched or expired (410).
* `relay.go:52` says a dropped provider ends its job with `ErrProviderGone`; the hub never
  closes the channel, so only the deadline does.
* `relay.go:55` blames the provider for a gap that the coordinator's own full buffer made.
* A chunk with an empty delta is counted and not forwarded (`relay.go:182`).
* `relay.go:183` calls `onDelta` inside the select loop, and that of a streaming chat writes and
  flushes to the consumer (`chat.go:285`); the server has no write timeout
  (`cmd/coordinator/main.go:84`).  A consumer that keeps its connection and stops reading holds
  the call, its slot and its provider past the job's deadline, for as long as it likes.
* A provider is schedulable (`wshub.go:139`) before its `register_ack` is written
  (`wshub.go:167`); a request in between ends its session (`provider-lib/src/lib.rs:291`).
* `LastSeen` and `Telemetry` are written without the provider's lock while the scheduler
  reads them (`wshub.go:200`).
* `store.go:239` says a duplicate credit returns nil; of two simultaneous deliveries the
  second is refused by the unique index and gets an error.  Nothing is credited twice.
  Debits of workloads have no job id and are not recognised when repeated.
* `meter` stores usage, earning and debit in three calls that fail one by one
  (`chat.go:172`): an earning stays when its debit failed.
* The ceiling of concurrent runs is compared before the count moves
  (`workloads.go:324`, `runs.go:246`).
* A run that reached `runMaxWall` sends its notice under the expired context
  (`runs.go:263`, `367`), so it is not sent.
* When a later chunk of a run of more than 256 items returns an error, as when it finds no
  provider, what the earlier ones completed is neither metered nor debited (`runs.go:180`).
* What a provider earns is reckoned at the tier of the device that served and from the prompt
  tokens it reports, up to a ceiling (`chat.go:212`, `relay.go:144`, `194`, `206`); the price is
  for the tier that was asked for and for estimated tokens.  A community workload that
  confidential devices serve may earn them more than was charged for it.  `Pricing` is the
  price alone, and no property relates it to earnings.
* Rows of runs that were live at a restart stay queued or running.
* `billing.go:430` says the webhook keeps the payout status current without a re-check; a
  handler reads the account (`billing.go:466`) and then stores what it read
  (`billing.go:472`), so one that read before a change may store after the handler of that
  change, and the status stays stale until the next re-check.  `StatusIsCurrent` speaks of
  handlers that did not overlap (`raced`).
* A settlement marks earnings paid that were recorded after the run read the sum
  (`billing_pg.go:190`); `NothingWithheld` counts them as `late`.

Council, scheduler and prices:

* It takes two votes of high severity to block a workload, and the deterministic seats block
  nothing that was validated and priced: with one model seat only a missing vote stops
  a workload.
* `CostGovernance` compares the price per item with the tokens of all items
  (`evaluate.go:368`; its comment speaks of a token's price), so ordinary quotes become
  conditional.
* Redundancy is priced, but `batch.Run` runs no replicas.
* A provider that drains makes the refusal `tier_unmet` or `caps_unmet`.
* Decisions of one second are loaded in the order of their hashes, so a restart may reorder
  the ledger.

Accounts:

* `docs/GTM-COMMUNITY-PLAN.md:48` calls the founding badge permanent; it is lost when the
  account's first device is linked to another account.
* The kept leaderboard is answered whatever limit is asked for.
* `api/referral.go:143` stamps the kept leaderboard after its rows were read, and every answer,
  a kept one included, allows copies for thirty seconds more (`:126`, `:144`): who opts out may
  be shown for twice thirty seconds and the time it takes to build an answer.
* A claim whose UPDATE took effect and whose answer was lost is recorded, and the account is
  told of an error; so is a referral code, until it is asked for again.
* A pairing code is spent when its account has no token, or the answer is lost.
* A consumer key that lost the race for its account stays in the store and is nobody's.
* The buckets of the limiter are never removed.

The two stores: PostgreSQL counts the carried dust of a settlement among the jobs; the
waitlist keeps spelling, origin and time differently; proposals come oldest first or newest
first; reply ids are per entry or global; PostgreSQL limits the lists of feedback, `Mem` does
not and ignores the time windows; keys from the environment are never listed or disabled;
`Mem` loses everything at a restart; a run whose first row failed is missing in one of the
lists until it is saved again.  `Store` compares what is common.

The phone:

* `sc-mobile/src/lib.rs:76` says a late event of an old run cannot clobber the status of the
  current one; the check and the write are two steps.
* A loop in mid-turn when its service is destroyed may start the provider after
  `onDestroy` has stopped it (`ProviderService.kt:68`, `91`).
* The loop learns whether the provider is up from a phase that a late event may overwrite.
  A loop whose settings were blank stops the provider and leaves `running` as it was
  (`ProviderService.kt:58`), and relies on the phase to correct it: an event that is written in
  between leaves it believing in a provider that is gone, and it does not start one when
  the settings come back.  `LoopKnows` and `ConnectsWhenAllowed` exclude it (`blanked`).
* Connecting and waiting for the acknowledgement have no timeout (`sc-net/src/lib.rs:19`,
  `provider-lib/src/lib.rs:287`): a peer that goes silent leaves a phone in CONNECTING for ever,
  and the loop takes it for up.
* `MainActivity.kt:217` says a job in progress is dropped on stop; aborting the run does not
  reach its jobs (`provider-lib/src/lib.rs:394`).

## 8. Not modelled, and why

Cryptography (sealed boxes, signatures, attestation chains) is abstracted to whether a
payload opens.  The catalog is data.  The capability score of a device and the order in
which the scheduler lists devices are formulas over measurements and over loads that move
while they are read; every module takes any order.  Heartbeats, benchmark
reports, back-off times and time windows of lists are time without a state of their own.
The Council's roster, constitution and meetings are constants.  Migrations run once
under an advisory lock, statement by statement, and hold no state beyond the list of
applied versions.  Downloads, platform probes, the operator's console, web pages, the
Android screens, installers and the offline security tooling hold no state the properties
speak of.  `PROJECT.json` lists every component with its status.
