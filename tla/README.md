# Verification of tirramind-options

TLA+ models of the parts of this repository where order, failure and
concurrency decide whether the code is right, the TLC runs that check them on
small instances, and TLAPS proofs of what holds for every instance.  Paths in
this file are relative to the repository's root.

1. [The system](#the-system)
2. [The models](#the-models)
3. [The runs](#the-runs)
4. [What the runs found](#what-the-runs-found)
5. [The proofs](#the-proofs)
6. [What is not modelled](#what-is-not-modelled)
7. [What could come next](#what-could-come-next)

Run everything from this directory: `tlc -config <run>.cfg <module>` for a run
(the table below names the module) and `tlapm <module>.tla` for a module of
proofs.

## The system

The product sells access to a fitted volatility surface.  Paddle takes the
money and reports it by webhook; a Cloudflare worker keeps the subscriber table
and answers who is entitled; a Python service fits surfaces; a scheduled job
posts each fit to the archive, from which alerts go out; and another scheduled
job trades on paper and publishes the record.

| Component | Where | State it keeps | Operations |
|---|---|---|---|
| Edge billing | `web/functions/webhook.ts`, `web/lib/{subscribers,rules,paddle}.ts` | D1 tables `subscribers`, `events`, `adjustments` | one webhook: dedupe, apply (grant, cancel, past due, expire, adjust), record, answer |
| Box billing | `src/tmo/payments/{server,handler,store,atomic,tiers}.py` | `subscribers.json`, a module-level cache of it | one webhook, the same rules; key rotation; lookups |
| Replay window | `src/tmo/payments/{webhook,event_ledger}.py` | `processed_events.json` | verify a signature's time, check and mark an event id |
| Fit service cache | `src/tmo/service/{cache,app}.py` | entries, a lock per key, the refresh thread and its stop flag | get, refresh, start, stop, health |
| Sign-in, entitlement | `web/functions/auth/*.ts`, `web/lib/{token,google}.ts`, `src/tmo/payments/session.py` | flow cookie, session cookie, D1 table `identities` | start, callback, me, link, entitlement, logout |
| Alerts | `web/functions/api/alerts*.ts`, `web/lib/{alerts,fanout}.ts` | tables `alert_subscriptions`, `alert_deliveries`, `alert_seen` | create, list, delete, test, fan out |
| Archive | `web/functions/api/{archive,history,surface}*.ts`, `web/lib/history.ts` | table of fits | store, list, read |
| Daily ledger | `src/tmo/{daily,ledger,specs,portfolio,strategies,ci_verify}.py` | append-only JSON-lines files | register specs, run a day, replay the book, verify |
| Fitting, page, client, configuration | `src/tmo/{market,venues,store,page}.py`, `src/tmo/service/surface.py`, `src/tmo/payments/{client,config}.py` | snapshots | fetch, fit, render |

**How they meet.**  Paddle calls edge billing (production) or box billing (the
reference implementation, run locally; `src/tmo/payments/__init__.py`).  Both
implement one set of rules, kept in `web/lib/rules.json` and tested from both
sides.  Sign-in reads the records that billing writes and keeps beside them
which account a subscription was linked to.  The archive calls the alerts'
fan-out in the background of its own request; the alerts' endpoints ask the
same table who may have alerts.  The daily job fetches and fits through
`market.py`, registers the specs it finds, trades, and leaves what it wrote to
a gate and a push; the fit service shares the fitting code and nothing else.

**What is hard about each, and what makes it right.**

- *Edge billing.*  Requests overlap at every awaited statement, an isolate can
  be gone after any of them, any of them can throw, and Paddle delivers in any
  order, again, and twice.  `upsert` reads a row and writes every column of it
  in a second statement.  Right means: what was revoked stays shut, what was
  paid for stays open, a key is for good, nothing is provisioned that was not
  sold, and no message is answered and forgotten.
- *Box billing.*  A thread per connection, each with its own copy of every
  subscriber, a cache between them, and a file that is written whole and taken
  for empty when it cannot be read.  Right means, besides the above: one
  customer's webhook changes one customer's record, refunds stay on it, and no
  old copy comes back.
- *Replay window.*  The signature is checked against the clock in whole seconds,
  the ledger keeps the fraction, and both bounds are inclusive.  Right means that
  the ledger remembers an id for as long as any signature over it is good.
- *Fit service cache.*  Request threads and a refresh loop compete for a fit of
  eight seconds that may raise; `stop()` waits for five.  Right means one fit at
  a time per chain, no request that pays for a stale value, nothing served that
  is lost or goes back in time, and nobody who waits for ever.
- *Sign-in and keys.*  Four ways of asking who has access, over records that a
  person may have several of; keys that are minted in three places.  Right means
  that all of them give one answer, that a key once replaced or revoked opens
  nothing again, and that no webhook changes who answers for an account.
- *Alerts and archive.*  Fan-outs overlap, deliver before they mark, and can be
  cut off between the two; a receiver that answers too late has heard; a limit is
  counted before it is inserted.  Right means that a receiver hears of one thing
  twice only for a stated reason, that nothing stops arriving without a line in
  the log, and that the limit is passed by no more than what was in flight.
- *Daily ledger.*  A crash between the trades and the mark, or the mark and the
  push; a run across midnight; rules that may be retired but never rewritten; a
  book that outlives its quotes.  Right means that a stranger can replay every
  published day from the registered rules and the archived chains.

`PROJECT.json` lists these hazards one by one, at their lines, with the
properties that cover each.

## The models

| Module | Models | Extends / uses |
|---|---|---|
| `AccessRules` | the pure rules of `web/lib/rules.ts` and the event sets of `web/lib/subscribers.ts`, which `src/tmo/payments` has too | |
| `SubscriberContract` | the abstract specification: every change of a record is the whole effect of one webhook | `AccessRules` |
| `EdgeBilling` | `webhook.ts` and `subscribers.ts`, one step per awaited statement | `AccessRules`; `SubscriberContract` by refinement |
| `BoxBilling` | `server.py`, `handler.py`, `store.py`, one step per touch of shared state | `AccessRules`, `EventLedger`; `SubscriberContract` by refinement |
| `EventLedger` | `event_ledger.py`: prune, cap, check and mark, as operators on a ledger | |
| `ReplayWindow` | the signature's window together with the ledger, as a state machine | `EventLedger` |
| `SurfaceCache` | `cache.py`: `get`, `refresh`, the loop, `start_refreshing`, `stop` | |
| `Accounts` | the rest of `store.py` and `session.py`: keys, links, lookups, session tokens | `AccessRules` by instance |
| `FanOut` | `fanout.ts` and the list's handlers in `alerts.ts`, one step per database call | |
| `SpecRegistry` | `specs.py` and `ledger.py`: hashes, append-only rows, `verify_immutable`, as operators | |
| `PaperBook` | `portfolio.py`, `strategies.py` and the marks of `market.py`, as operators | `SpecRegistry` |
| `PaperLedger` | `daily.py`, `ci_verify.py` and `ledger.yml`: the job, its gate and its push | `PaperBook` |
| `MC*` | the instances that TLC checks | |
| `*Proofs` | the theorems | the module they are named after; `PaperLedgerProofs` also `PaperBookProofs` |

Each definition that models code is in the `map` of `PROJECT.json` with its
lines.  A definition whose name ends in a fault (`MergeDropsKey`,
`RefreshUnlocked`, ...) stands before the definition it is a broken form of; no
action uses it.  It shows that a property can fail: put in the place of the
definition after it, TLC finds the property named in `mutants` violated.

**EdgeBilling.**  A request is a program counter (`pc`), the webhook (`msg`),
the clock read at the top of the request (`at`), the row its last read returned
(`read`) and the patch it is going to write (`patch`).

| Code | Actions |
|---|---|
| `webhook.ts` 34-63: the request arrives | `Deliver` (Paddle's own send and retry), `DeliverCopy` (a send it had no need of) |
| 65-75: `SELECT ... FROM events` | `Dedupe` |
| `apply`: dispatch and the read before each branch | `Ignore`, `ReadForAdjustment`, `ReadForGrant`, `LookUpEmail`, `Cancel`, `ReadForPastDue`, `Expire` |
| `upsert`: `get`, then `INSERT ... ON CONFLICT` | `UpsertRead`, `UpsertWrite` |
| `INSERT OR REPLACE INTO adjustments` | `InsertAdjustment` |
| `INSERT OR REPLACE INTO events`, `200` | `RecordEvent`, `Respond` |
| the `catch` | `Throw`, `RecordFailure` |
| the isolate is gone | `Crash` |

Left out: `customer_id` and `event_type` columns, which nothing decides by; the
HMAC, whose outcome is whether there is a webhook at all; addresses arrive folded
to lower case.

**BoxBilling.**  A thread's `copy` is the `_data` of the `SubscriberStore` it
built.  The file, the cache and the ledger are what threads share, so a step is:
take the cache or read the file (`Open`, `ReadFile`), fill the cache
(`UpdateCache`), look for the id in the event ledger and mark it under its lock
(`Look`, `Mark`; `SkipLedger` for a payload without an id), change one's copy and
replace the file (`Grant`, `Cancel`, `PastDue`, `Expire`, `Revoke`,
`RecordRefund`), answer (`Respond`), raise (`Fail`), and, for the process,
`Restart`, after which the cache is empty.  `write_json` replaces the file by a
rename, so it is one step; it may raise before that.  Both files have the branch
that takes an unreadable file for an empty one (`store.py` 97,
`event_ledger.py` 82): `ReadFile` may return nothing and `Look` an empty ledger,
and what is saved next is written over everybody.

What the code does wrong by design is written down as it happens, for the
properties to name: `overwritten` are the records a save put back to what they
were in an older copy, `disturbed` says that requests have overlapped or a read
has failed since the box was last at rest with nothing cached, `forgotten` are
the ids in a ledger that could not be read, `halved` the refunds stopped between
their two saves, `newer` how many refunds were noted after each.

**ReplayWindow.**  A delivery is an event id with the timestamp its signature
covers.  Paddle signs afresh whenever it sends (`Sign`, with a clock up to
`Skew` away), and what it has signed may arrive any number of times.  A request
reads the clock twice: `Verify` cuts it to whole seconds (`webhook.py` 95,
`Clock`), and `Accept` or `TurnAway` give the ledger its fraction
(`event_ledger.py` 136), at most `Lag` later; so the clock runs in ticks,
`Second` of them to a second.  `Accept` may find the ledger file unreadable, and
then empty; `Lose` is a process that stops in between.

**SurfaceCache.**  A thread is a `pc`, the `key` it works on and the moment its
fit `began`, which stands for what the fit will return.  `Miss`, `Acquire`,
`FinishGet`, `FailGet` are `get`; `Check`, `Wake` the loop and `Refresh`,
`FinishRefresh`, `FailRefresh` the `refresh` it calls; `Start`, `Stop`, `Join`
are `start_refreshing` and `stop`.  `Join` may give up on a loop that is in a
fit and only then: between fits the loop does not block on anything but the
flag it has been told by.  A get that finds a value changes nothing and is not
an action.

**Accounts.**  One call on the store is one step, for `BoxBilling` has what
happens between two threads' calls.  `SetActive` (all that a webhook asks of
`set_active`), `RecordRefund`, `RotateKey`, `RotateKeyForApiKey`, `RevokeKey`,
`LinkIdentity` write; `ByApiKey`, `ByEmail`, `ByIdentity`, `IsActive`,
`IsActiveKey`, `ActiveKeys` are the lookups.  The dictionary's order (`order`)
and the order of `updated_at` (`updated`) are state, because the lookups that
may match several records choose by them: first in the one, last in the other.
`Entitled` is `session.py`: a token that verifies, then the record that answers
for its account, by link or else by address.

**FanOut.**  A background task is a slot with the clock it read, the alerts it
has yet to go through and the one it is at: `Archive` begins it and reads the clock,
`List` the active alerts, `Pick` takes the next alert and drops what was told
within the quiet period, `Deliver` calls the receiver, `Record` writes the log,
`MarkSeen` the marks; `CutOff` is the platform ending it.  A delivery that fails
may have been heard all the same: `deliver` gives up after eight seconds and
takes any answer but a 2xx for a failure, with the request long sent
(`alerts.ts` 117-130).  `cut` has the attempts that were ended after the receiver
may have heard and before they were marked, and no other.  The order of the alerts is the order D1 returns them in,
which nothing fixes.  The owner's `POST` is `PostCount` and `PostInsert`, with the
requests between the two in `waiting`; its `DELETE` is `Delete`.  A task runs at most `RunLife`, which the clock (`Tick`)
respects.

**PaperLedger.**  The job is a program counter over its own checkout (`work`,
`files`): `StartJob` checks out, `RegisterSpecs` or `Refuse`, `Fetch`,
`RecordFit`, then `Trade` and `Mark` for each live spec or `StrategyFails`,
`Finish`, `Gate`, `Push`; `Raise` is the job's outer `except`, `Crash` the
runner's end at any step, `Midnight` and `EditSpecs` what goes on meanwhile: an
edit may bring a strategy in, take one out (`removed` remembers it) or change its
rules with or without saying what they supersede.
`ledger.yml` queues jobs, so there is one at a time.  What a day's fills are is
computed, not chosen: `PaperBook` has `replay`, the fees, `mark_to_market`, both
strategies and the overlay of our surface on the venue's quotes, on small whole
numbers.  Rows of the error ledger that a failed gate leaves behind die with the
checkout, as in CI.

**The contract.**  `SubscriberContract` has one variable, the table, and says
that it changes only by `Granted`, `Cancelled`, `PastDue` or `Revoked`, each of
them the whole effect of one webhook on the row as it then is.  `EdgeBilling`
implements it with the identity as its mapping and every column watched;
`BoxBilling` with `Rows`, the file cut down to the columns that decide access,
because there a cancellation, a late payment and an expiry write the tier and the
address too, and at the edge they do not; and with `Dated`, the messages with the
date `active_until` is taken from.  Two requests that overlap do break it, in both
places, and `KeepsContract` says exactly where: at the edge, a write of a request
whose row another has written since it first read it (`crossed`); on the box, a
save of a copy that is not the file as it stands.  Every other step is a step of
the contract or a stutter.

## The runs

Twelve runs; each ends within five minutes on two cores.  Deadlock checking is
off throughout because each system may come to rest: all messages answered, or
the bounds used up.

| Run | Module | Properties | Asks |
|---|---|---|---|
| `edge_concurrent` | `MCEdgeBilling` | `TypeOK`, `NoPhantomSubscriber`, `RevocationHolds`, `CeilingIsShut`, `NoSilentLoss`, `AccessEndsForAReason`, `KeepsContract`, `AppliedOnce` | a subscription bought, paid late and refunded in any order, two requests interleaved at every statement, the clock passing every date, a crash, a copy |
| `edge_answers` | `MCEdgeBilling` | `ActiveIsProvisioned`, `EveryMessageAnswered` | six messages, three of which must not provision, one crash, one throw: nothing unsold is active, every message gets its 200 |
| `edge_lost_event` | `MCEdgeBilling` | `NoSilentLoss` | violation, below |
| `edge_written_twice` | `MCEdgeBilling` | `NeverWrittenTwice` | violation, below |
| `box_serial` | `MCBoxBilling` | `TypeOK`, `RefundsAreOnRecord`, `KeepsContract`, `OverwritesAreExplained` | one thread, one customer's four webhooks in any order, a restart and a write that raises at any step, a file that cannot be read once |
| `box_threads` | `MCBoxBilling` | `CeilingIsShut`, `AppliedOnce` | two threads, two customers, a copy of a message, a write that raises |
| `replay_window` | `ReplayWindow` | `CaptureWorksOnce`, `ReappliedOnlyAfterRetention`, `LedgerIsBounded` | two events, skewed signatures, half seconds, a cap of one, the least retention that covers a signature, a ledger that cannot be read once |
| `surface_cache` | `MCSurfaceCache` | `TypeOK`, `SingleFlight`, `RequestsFitOnlyTheMissing`, `ErrorIsCurrent`, `ValuesOnlyGetNewer`, `RequestsEnd`, `StaleIsRefreshed` | two requests, two refresh loops, a fit that raises, a stop that gives up |
| `accounts` | `MCAccounts` | `OneAnswer`, `RetiredKeysStayDead`, `BoundAnswerHolds` | two subscriptions, one account, three keys: every order of webhooks, refunds, rotations, revocations, links, sign-ins |
| `fanout` | `MCFanOut` | `RepeatsAreExplained`, `OvershootIsBounded`, `ToldOrLogged` | three fits in two overlapping tasks, two alerts, two requests of their owner, a failed delivery, heard or not, or a task cut off |
| `ledger_days` | `MCPaperLedger` | `TypeOK`, `Auditable`, `StraddleIsWhole`, `HedgedInsideTheBand`, `RulesNeverRewritten`, `PublishedDaysAreWhole`, `QuietDayPasses`, `RecordOnlyGrows` | four days, three jobs, nine states of the specs directory, four chains a day, one failure or crash at any step |
| `ledger_market` | `MCPaperLedger` | `QuietDayPasses` | violation, below |

**Bounds.**

- *Messages* are one subscription's story each (`Lifecycle`, `Strays`,
  `Crossing`, ...), a set, so that every order is explored.  Three to six of
  different kinds put the branches of `apply` before and after each other; what a
  run leaves out another has (`edge_answers` the cancellation and the expiry).
  Rules look at one subscription's row; a second subscription is there where the
  question is whether one customer's webhook touches another (`box_threads`).
- *Isolates, threads*: two.  Every race here is a read of one request, a write
  of another and a write of the first.
- *MaxTime* reaches past the paid-through date in the messages
  (`edge_concurrent`: date 1, time to 2, so that access lapses by itself and the
  inclusive and exclusive bounds are met at the same second).
  `PastDueGrace = 2` exceeds `RequestLife = 1`, as the three days of grace exceed
  the life of a request.
- *MaxCrashes, MaxThrows, MaxCopies, MaxRestarts, MaxFailures*: one each, where
  the run has the fault.  A second crash adds a second retry, and a retry starts
  from the tables alone, so that what it can do is what the first could.
  `edge_concurrent` has no throw: with one, `NoSilentLoss` is what
  `edge_lost_event` refutes.  `MaxUnreadable`, likewise one: the second failed
  read finds what the first left.
- *CacheTTL* in `box_serial` is 1 with time to 1, so that the cache is met fresh
  and expired; `Retention`, `MaxEntries` are out of reach there and belong to
  `replay_window`.  `MaxRefunds` is 1, so that the second refund pushes out the
  first, or 2.
- `replay_window`: two ticks to a second, `Window = 1` (two ticks), `Lag = 1` and
  `Retention = 6` ticks: two whole windows, all but one tick of the second a
  signature dies in, and the request's own time, the least that `RetentionCovers`
  allows (the code has 3600 against 601 seconds).  With one tick less TLC has a
  capture that works twice.
  Time to 8, so that an id is pruned at the last tick its signature could have
  been good.  A cap of one, so that one newer id fills it.
- `surface_cache`: one key, since no step reads two keys' entries and a lock
  is per key; what the pass over several keys adds is only delay, and the
  theorems are for any set of keys.  Time to 2 with `TTL = 1`: a value goes
  stale, is refreshed and goes stale again, or goes stale during its own fit.
  Two starts and two loops: the second beside the first that `stop()` forgot.
- *Starting state.*  Every run and theorem starts from empty tables and files.
  The repository itself already carries published rows of the paper ledger; they
  are states the ledger model reaches, not one it starts in.
- `accounts`: two records, the least that can compete for an account or an
  address; three keys, so that one is replaced, revoked and minted again; time
  to 1 with sessions of 1, so that a token and a paid-through date lapse at the
  same second.
- `fanout`: `Quiet = 3`, `RunLife = 1`, time to 3, so that a third task begins
  when the first one's quiet period is just over; two slots overlap in every
  way; `Limit = 1` with two posters and two ids passes the limit; one fault.  The
  constraint `IdsAreLeft` keeps a request from counting when no id is left for it
  to insert, which in the code never runs out.
- `ledger_days`: days 0 to 3 with expiries on 3 and 5 take the weekly strategy
  through an entry, a hedge, an exit and the entry after it; three jobs are a
  day done twice, or one after a crash, or three days; one edit of the specs
  among all that the checks of `specs.py` tell apart, a strategy taken out and a
  version bumped without `supersedes` among them.  `DailyMarket` is
  `"deribit:BTC"`, a key that exists; `ledger_market` has the code's own.

`SYMMETRY` is used in `edge_concurrent` (isolates), `box_threads` (threads),
`accounts` (subscriptions) and `fanout` (slots): none of them has a liveness property, and what
they check is the same for every renaming.

**Fairness.**  `edge_answers` assumes `WF(Advance(i))`, that the runtime drives
a request it accepted unless the isolate dies, which is bounded; and
`WF(Deliver(i, m))` over the isolates, that Paddle, which retries for days what
it has no 200 for, finds one free.  Nothing is assumed of crashes, throws or
copies.  `surface_cache` assumes weak fairness of each loop and of the end of
each fit, one way or the other (the exchange client has timeouts, the
optimiser an iteration limit), and strong fairness of taking a lock for a
request that waits: the loop never waits for a lock and sleeps between passes,
so a lock keeps coming free, and a blocked thread is woken when it does.  No
fairness is assumed of the clock, of requests, `Start`, `Stop` or `Join`.

## What the runs found

| Run | Kind | What the code does |
|---|---|---|
| `edge_lost_event` | code bug | A statement throws; the failure is recorded under the event's id and answered 500 so that Paddle tries again; the replay guard looks for the id, finds it, and answers the retry 200 as a duplicate.  The event is lost, which the comment beside it says must not be. |
| `edge_written_twice` | doc against code | The header of `webhook.ts` (8-10) has the event recorded before it is acted on.  The guard reads the event's row first (70) and the row is written last (93-97), with the whole of `apply` between: a second delivery that arrives in between is written too.  `AppliedOnce` is what does hold. |
| `ledger_market` | code bug | `daily.run` asks for `"BTC"`; the venue table's keys are `"deribit:BTC"`.  Every run raises a `KeyError`, records it, exits 0, and the gate fails: no day is ever marked or published.  `ledger_days` asks what the job would do with a key that exists. |

Met while modelling, and left to this list, because each is either the same
cause again or a matter the repository's text does not decide:

- *Lost updates at the edge.*  `upsert` reads a row and writes all of it in the
  next statement, and the past-due branch (`subscribers.ts` 190) computes a
  window from a row read earlier still; a request that writes in between is
  undone: a revoked customer has access again, a renewal is shortened, a fresh
  key is gone.  `RevocationHolds`, `AccessEndsForAReason` and `KeepsContract`
  name that write, and nothing else, as their exception (`overwritten`,
  `Overwrites`, `crossed`).
- *An early refund.*  A full refund that arrives before its subscription's
  activation is answered and dropped (`subscribers.ts` 144); the activation then
  opens access.  No property catches that: `RevocationHolds` is about what was
  written.  And nothing ever clears a ceiling, so a purchase after a full refund
  under the same id stays shut.
- *Lost updates on the box.*  Two threads write back whole copies (`store.py`
  110): one customer's purchase undoes another's, and a ceiling with it.  A load
  that missed the cache may fill it after another thread's save (`store.py` 101),
  so that what the comment at `store.py` 30 says of the cache, "visible to the
  next lookup in this process at once", holds only while requests do not overlap.
  `OverwritesAreExplained` says that overlap and a failed read are the only ways
  an old copy comes back.
- *Unreadable files on the box.*  A subscribers file that cannot be read is
  taken for an empty one, cached, and written over everybody by the next save
  (`store.py` 97-100); an unreadable event ledger forgets every id
  (`event_ledger.py` 82).
- *Marked and lost on the box.*  `handler.py` marks an event before it applies
  it; when the write raises or the process stops in between, the retry is turned
  away, and the event is lost.  A full refund stopped between its two saves has
  shut the record and never gets its note.
- *Two whole windows are not enough.*  `webhook.py` 95 cuts the clock to seconds
  and the ledger does not, so a signature is good for almost a second longer than
  its window.  The shipped retention, 3600 seconds for a window of 300, covers it
  with the time a request takes (`RetentionCovers`); a retention set to 600
  would not.
- *Who answers.*  The first record bound to an account wins for ever
  (`store.py` 251), though the docstring at 235 speaks of re-linking: somebody
  who resubscribed under a new id is answered by the lapsed one.  `by_email`
  takes the newest record, lapsed or not.  At the edge `linkIdentity` replaces
  the binding; on the box it adds one.
- *Alerts.*  `surface_integrity` alerts ignore the currency the table says they
  filter by (`0003_alerts.sql` 17); a broken fit is told again after six hours,
  where the comment at `fanout.ts` 51 says once a day; a slower fan-out may put
  an older mark over a newer one, which is why `RepeatsAreExplained` promises the
  quiet period less the longest run; a receiver that answers after eight seconds,
  or with anything but a 2xx, hears again at every fit; two requests that count
  together pass the limit of ten.  Access is not looked at again between the
  alert's creation and its delivery.
- *Daily job.*  Run again on a data directory that was kept after a crash
  between trades and mark, a strategy trades twice and the day no longer
  replays (`daily.py` 71, 77); on the fresh checkout of `ledger.yml` it cannot,
  and `Auditable` holds.  A held leg with neither a mid nor our price makes the
  equity NaN (`portfolio.py` 114) and one our surface does not fit counts as
  delta 0.  The error row of a failed day is never published.  A mark carries
  no digest of the chain it was taken from.  A version bumped in place with
  `supersedes` left null is taken (`specs.py` 10-12 wants it named), and is in the
  run; a second version beside the first that supersedes nothing leaves two live
  specs of one strategy, which `SpecsAreNamedOnce` excludes.  A strategy whose
  file is taken out stays in the registry and is not marked any more:
  `PublishedDaysAreWhole` asks no mark of it from that day on, also not if it
  comes back.

## The proofs

All of them hold for any constants that satisfy the named assumptions of the
module: any messages, any number of requests or threads, any bounds.  A theorem
that needs more says so in its statement, and in the tables here.

**EdgeBillingProofs.**

| Theorem | States | Assumes beyond the module |
|---|---|---|
| `TypeCorrect`, `TypesHold` | `TypeOK`, and that a request in flight has a webhook and a subscription to work on | |
| `ProvisionedAlways` | `ActiveIsProvisioned` | |
| `CeilingShuts` | `CeilingIsShut` | |
| `NobodyInvented` | `NoPhantomSubscriber` | |
| `NothingLost` | `NoSilentLoss` | `MaxThrows = 0` |
| `WrittenOnce` | `AppliedOnce` | |
| `RevocationsHold` | `RevocationHolds` | |
| `ContractKept` | `KeepsContract`, the refinement of `SubscriberContract` | |
| `AccessEndsRightly` | `AccessEndsForAReason` | |

No theorem limits the number of requests in flight.  The last four have their
exceptions in the formula, by name, as the code's own races make them:
`abreast`, a request that ran beside another for the same message;
`unrecorded`, a message whose request died between its write and the event's
row; `crossed`, a request whose row another wrote after it first read it; and
`overwritten`, a record that such a request has written.  The proofs are what
says that there is no other way.

`ActiveIsProvisioned` is not inductive: a row is written from a patch built
statements earlier.  `ProvisionedInv` adds that a patch under way is itself
provisioned, `PatchIsProvisioned`, which needs `EmailIsSold` (a request that has
gone to Paddle for an address did so for a price we sell).  `PatchMoves` and
`TableMoves` say once which actions can change a patch and a row, so that the
rest of the argument does not go through every action again.
`CeilingIsShut` needs `CeilingReached`: a ceiling on a row, in a row a request
has read or in a patch is not in the future, and no time a request has read is.
`NoPhantomSubscriber` needs `AdjustsSomebody`: an adjustment that has got as far
as a write found its row, and rows are never taken away.
`NothingLost` carries `LossInv`: an event on file was applied or ignored, and a
request that is about to answer has done one of the two; its assumption is
exactly what `edge_lost_event` breaks.
`WrittenOnce` carries `OnceInv`: two requests at work on one message are abreast
(`Together`); what was written has its row in `events`, or a request about to
give it one, or lost that request (`Recorded`); and who has yet to write what
was written before is excused (`Excused`).
The last three carry `RequestsInv`: the patch a request holds is what its webhook
asks (`Asked`) of some row it has read (`Looked`) and, unless it was crossed, of
the row as it is now (`Current`); and no request outlives its time limit
(`InTime`).  `MergeIsEffect` is the heart of the refinement: a patch asked for,
merged into the row, is an effect the contract allows; `Maps` takes
`UpsertWrite` to a step of the contract and every other action to a stutter.
That a past-due window opened by a request is still open when it is written is
`InTime` with `RequestLife < PastDueGrace`.  `RevocationsHold` adds `CappedInv`,
that every written revocation has its ceiling on the row unless the row was
overwritten; and `AccessEndsRightly` that a row that is open has no ceiling, so
that only the clock, a revocation, a grace date that has passed or an overwriting
request shuts it.

**BoxBillingProofs.**

| Theorem | States | Assumes beyond the module |
|---|---|---|
| `Invariance`, `TypesHold` | `TypeOK` | |
| `CeilingShuts` | `CeilingIsShut` | |
| `OneEffect` | `AppliedOnce` | `LedgerCovers` |
| `OverwritesExplained` | `OverwritesAreExplained` | |
| `RefundsStay` | `RefundsAreOnRecord` | |
| `ContractKept` | `KeepsContract`, the refinement of `SubscriberContract` | |

They hold for any number of threads, and with files that cannot be read.  Every
thread may write its copy over everybody's, and the cache gives copies out, so
the invariant `Inv` is about the file, the cache and each copy alike: each has
the shape of the table and no ceiling in the future.

`OneEffect` carries `OnceInv`, that an id some thread has marked is in the ledger
and is that thread's alone unless it was forgotten with an unreadable file, and
`LockInv`, that one thread at a time holds the ledger's lock and what it looked
at under it is what is on file.  It assumes `LedgerCovers`, that the bounds of
the model keep an id from being pruned (`MaxTime <= Retention`) or pushed out by
the cap; what happens when they do not is `ReplayWindow`.

`OverwritesExplained` carries `AloneInv`: as long as no two requests have been in
flight at once and no read has failed, a thread's copy is the file whenever it
has one, and so is the cache whenever nobody is about to fill it, which restarts
and writes that raise do not disturb.  `RefundsStay` carries `NotesInv`, that a
note stands exactly as far from the end of its record's history as newer ones
were written after it (`Stands`), unless the record was overwritten, and that a
revocation saved without its note was halved by a restart or a raise or is on
its way to the second save.  It needs that `set_active` leaves the history alone
and that `record_refund` moves every note one place (`WithRefundNotes`).
`ContractKept` needs that what each class of webhook asks of `set_active`
(`AskedOf`) is an effect the contract allows (`SetActiveIsEffect`); a save from a
copy that is no longer the file is `SavesStale` and is let through by name;
`RecordRefund` and every step without a write are stutters, because the contract
does not see the history.

**ReplayWindowProofs.**  `CaptureRefused` (`CaptureWorksOnce`),
`RetentionHolds` (`ReappliedOnlyAfterRetention`) and `CapHolds`
(`LedgerIsBounded`), for any window, retention, cap, tick and number of events,
deliveries and requests in flight.  `RetentionCovers`, that the retention is at
least the `2 * Window + 1` seconds a signature can be good for, less a tick, and
the time a request takes, is an assumption of the module: it is why the ids
outlive the signatures, and it holds of the shipped settings.  The first two
except ids that newer ones pushed out of a full ledger and ids that went with an
unreadable one (`Excused`), nothing else.  The inductive invariant adds to the
types that a request past its signature check is inside the window by the second
it was checked in and not older than `Lag` (`CheckedInTime`), that an id applied
within the retention is in the ledger with the time it was applied
(`Remembers`), and that what was accepted was applied no earlier than a window
before its timestamp (`AppliedInWindow`).

**SurfaceCacheProofs.**  All five safety properties of `SurfaceCache`, for any
keys, threads, TTL and any number of starts, stops and failures:
`FitsAreSingle`, `RequestsSpareTheFit`, `ErrorsAreCurrent`, `ValuesGetNewer`,
`TypeCorrect`.  The inductive invariant is `HoldsLock` (a thread that fits holds
the lock of its key) with `InOrder` (nothing on file is from the future, and no
fit under way began before the value it will replace looked at the market).
From `HoldsLock` follows that nobody else stores on that key meanwhile, so what
was missing stays missing and what was newest stays newest, whether the loop was
stopped, forgotten or started again beside itself.

**AccountsProofs.**  `RetiredKeysOpenNothing` (`RetiredKeysStayDead`),
`BindingsHold` (`BoundAnswerHolds`) and `AnswersAgree` (`OneAnswer`), for any
subscriptions, accounts and keys.  The invariant is that every record is in the
dictionary's order (`OnFile`), that a key on a record was minted and is not
retired (`Keyed`), and that it is on no other record (`Distinct`): keys are fresh
when they are made, so a retired one finds nothing.  That a binding holds comes
from records being added at the end of the order only, which leaves the first
match of a lookup where it was.

**PaperBookProofs.**  The operators of `PaperBook` on their own, for any fills,
rules and quotes.  A book is cash and quantities added up, and the sums are
`SumFunction` of the community modules, a fold that takes out a chosen element
at a time.  The lemma the theorems rest on,
`SumTakesOut`, is that any summand of a finite sum of integers may be taken out.
It goes by induction on the number of summands; the library's induction
theorems take an operator, so the induction is stated of a set of naturals
(`NatSetInduction`) and rests on the least element of its complement.  From it:

- `FillsMoveTheBook`: the rows of a day's fills, appended to a ledger that has
  none of them, move each instrument by its fill and no other (`Moved`).
- `WeeklyVrpKeepsTheStraddle`: from a book that is whole (nothing, or a call and
  a put of one strike and expiry in equal size, and no future of another
  expiry), the fills that `btc_weekly_vrp` asks for lead to a whole book, hedged
  inside its band.  Its three cases are the three returns of the function.  An
  exit closes both legs and the future, quoted or not (`ExitLeavesNothing`), and
  that both legs fall due together is `TwinsExpireTogether`.  An entry finds the
  put where it finds the call and sells one size of each (`EntryIsWhole`).  Both
  trade into what is flat.  A day in between trades the future only, and by the
  difference to what is held (`RebalanceStaysWhole`).  The delta of the new book
  is that of the old one because its legs have not moved.

**PaperLedgerProofs.**  For any markets, strategies, specs, days, jobs and faults.

| Theorem | States | Rests on |
|---|---|---|
| `RulesAreCommitted` | `RulesNeverRewritten` | `SpecsAreNamedOnce` |
| `DaysAreWhole` | `PublishedDaysAreWhole` | `SpecsAreNamedOnce` |
| `RecordGrows` | `RecordOnlyGrows` | `SpecsAreNamedOnce` |
| `AuditHolds` | `Auditable` | `SpecsAreNamedOnce` |
| `LedgerTypes` | `TypeOK` | all the assumptions of the module |
| `StraddlesStayWhole` | `StraddleIsWhole` | all of them |
| `HedgesStayInside` | `HedgedInsideTheBand` | all of them |
| `MarketDecides` | `QuietDayPasses` if the venue table knows the market `daily.py` asks for, and if not that no gate ever passes | all of them, and `ShippedAreSound` |
| `UnknownMarketPublishesNothing` | no row is ever published | `SpecsAreNamedOnce`, and `DailyMarket \notin Markets` |

The assumptions of the module are these.  `SpecsAreNamedOnce`: the specs
directory does not hold two specs under one key.  `ChainsAreSound`: a chain
quotes an instrument once, one expiry has one time to run, and a strike has both
its call and its put.  That is what Deribit lists, and the job's loader
(`market.state`, by way of `venues.py`, calls `voltorch.deribit.fetch_chain`,
which is not in the repository) is taken to keep it.  One leg of a held straddle
that leaves the chain alone is left out with it: `strategies.py` 72 would close
the leg that is still quoted, and what becomes of the other is not checked.
`RulesAreSound`: a straddle has a size and its band is
open; both shipped specs are so, and an entry of size nought would make
`StraddleIsWhole` say nothing.  `BoundsAssumption`: the bounds are naturals.
TLC evaluates all four on the instances.

The invariant `IInv` says how a job's
checkout stands to what is published: it is ahead of it only by keys that are
not there yet and by rows of the run's own day (`Ahead`); the rows it adds are
of specs that were registered by then (`Registered`, `Trades`, `MarkRows`); and
once the gate has passed, the day is whole in the checkout (`Checked`).

`AuditHolds` takes a second invariant, `AuditInv`.  A mark is checked against
its strategy's fills up to its day, so no fill may be added there later: every
published fill has a mark of its day, and a fill of the checkout without one is
of the run's own day and of a strategy the run is done with (`Settled`).  A
strategy the run has yet to step has no mark of the day (`Due`), hence no fill of
it, so its fills are numbered from nought and all are new; between fills and mark
`HalfDone` has them and the book they were decided for; and the gate, which saw a
mark of every strategy, is why what is pushed is settled again.  How a book is
replayed or a day decided is not looked into: the theorem holds for any.

The books take a third, `BookInv`: the weekly strategy's book is whole in the
checkout and in what is published (`StraddleIn`), and between fills and mark it
is inside its band (`Stepped`).  It needs the two before it.  That a strategy's
day begins from a whole book is no property of the strategy: it holds because a
crash throws the checkout away and a run steps a strategy only on a day it has
no fill of (`StepsAfresh`), so that all the fills of the step, and not some of
them, are new rows (`TradeAddsNewRows`).  With that, `BookTrade` is
`FillsMoveTheBook` followed by `WeeklyVrpKeepsTheStraddle`.

`MarketDecides` assumes of the directory at the start what is true of the two
specs that are shipped (`ShippedAreSound`): they are complete, implemented and
supersede nothing.  It does not assume the market.  If the venue table has it,
every day that nothing goes wrong on passes the gate: while no job has failed and
no spec was edited the invariant is `Quiet`, that no error is on file, the
registry holds the shipped specs only, and a run owes a mark only to the
strategies it has yet to step.  If the table has not, no day passes at all.  The
repository as it is stands on the second branch, because `daily.run` asks for
`"BTC"`; the rest of that branch is
`UnknownMarketPublishesNothing`, which gives for any history, specs and number
of days what `ledger_market` shows on one instance: no run gets past the fetch,
no gate sees a fit, and no row is ever published.

**FanOutProofs.**  `RepeatsExplained` (`RepeatsAreExplained`),
`NothingStopsInSilence` (`ToldOrLogged`) and `LimitHolds` (`OvershootIsBounded`),
for any alerts, fits, tasks and requests, and with receivers that hear and are
not heard of.  The invariant `Inv` has of each task that it is within `RunLife`
of its beginning, that it has met every task begun while it ran (`Together`),
that what it leaves out was told within the quiet period (`Choosing`), and that
what it is about to say again so soon was said by a task it met or went unmarked
for a reason (`Repeating`).  The reasons are two (`Excused`): the attempt is on
the log as failed, though the receiver heard, or its task was cut off between
the delivery and the mark.  Of the table it has that a mark is of something told
(`MarksAreTrue`), and that what was told is marked, unless a task is still to
mark it or it is excused (`ToldIsMarked`).  `RunLife < Quiet` is an assumption of
the module, as thirty seconds are less than six hours.  `LimitHolds` carries
`Counted`, that the alerts and the requests that have counted room are finite and
together within the bound: a request that counts leaves room for itself, and the
last row of the limit is taken by one that counted with the others, so that `n`
requests go past it by `n - 1` rows at most.

**Only model-checked.**  The three liveness properties, `EveryMessageAnswered`,
`RequestsEnd` and `StaleIsRefreshed`: the prover does neither fairness nor
ENABLED.  Every safety property that a passing run checks is proved, two of
them under what the tables name (`MaxThrows = 0` for `NoSilentLoss`,
`LedgerCovers` for the box's `AppliedOnce`), and all under the assumptions of
their modules.  `ShippedAreSound` holds of the instance and of the repository.
The three findings are counterexamples of TLC; that `ledger_market` publishes
nothing is proved besides (`UnknownMarketPublishesNothing`).

## What is not modelled

- The exchange with Google (`google.ts`) and the flow cookie of one sign-in,
  which a second in the same browser overwrites (`callback.ts` 57): the state
  check turns the first away, and nothing is written by then.
- The edge's own `linkIdentity`, `byEmail`, `byIdentity` and `link.ts`.
  `Accounts` is the box's `store.py`, where a link is one call; at the edge it is
  a lookup and a write with an await between, and the answer is built from the
  row as it was (`link.ts` 35); the write touches no column of `subscribers`.
- The sample delivery of `alerts/test.ts` and the column `last_error`, which
  nothing decides by; the history routes, which only read.
- A clock that is set back.  `time.time()` and `Date.now()` may be; ages in the
  cache and windows in the ledger are then off by as much.
- Two processes on one box's files, which `event_ledger.py` and `store.py` rule
  out.
- On the box, an event that is marked and then not applied (`handler.py` marks
  first, and a restart or a write that raises comes after) is lost; the code
  chooses at most once, and `RefundsAreOnRecord` speaks of what `handle`
  finished.
- The exchanges' wire formats (`venues.py`), the fit in floating point
  (`surface.py`), pages (`page.py`), the Paddle client, configuration, and the
  scripts `fit_stability.py`, `paddle_setup.py` and `paddle_checkout.py`, which
  are straight-line: no control that order or failure could break beyond
  "returns or raises", which `SurfaceCache` and `PaperLedger` have.

## What could come next

1. The edge's sign-in: `linkIdentity` and the lookups as steps between awaits,
   composed with `EdgeBilling`, so that a webhook changes the row between a
   link's lookup and its write.
