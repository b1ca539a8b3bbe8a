# A verification development of pyne-worker

pyne-worker is a Cloudflare Worker written in Python. It evaluates Pine
scripts on candles: on request (`POST /run`), and every minute for deployed
scripts, whose orders it sends to a trade-worker and whose alerts it sends to
webhooks. This directory holds TLA+ models of it, TLC runs and TLAPS proofs.

All paths below are relative to the repository. Worker modules are
`src/*.py`, which `PROJECT.json` names as `src/src/*.py`.

## 1. The system

| Part | State it keeps | Operations |
|---|---|---|
| `entry.py` | none | `fetch` (HTTP request, then forwarding of its events and alerts), `scheduled` (cron tick, then forwarding) |
| `handler.py` | none of its own | the pipeline (tenant verify, API key, rate limit, routes) and one handler per route |
| `scheduler.py` | `state/cron/{script:symbol:tf}.json` in R2 | `run_scheduled_jobs`: feed, then job after job |
| `market_feed.py` | none | fetch candles of Bybit, else Binance, drop the forming one, ingest |
| `data_provider.py` | `data/{SYMBOL}/{TF}/{YEAR}.jsonl` in R2 | `ingest_ohlcv_to_r2`, `fetch_ohlcv_from_r2` |
| `scripts_registry.py` | script records, their index, `config/cron_jobs.json` in R2 | put, get, delete, list scripts; load and put cron jobs; get and put cron state |
| `trade_forwarder.py` | none | maps events to orders, one POST after the other with an idempotency key |
| `alert_engine.py`, `alert_forwarder.py` | none | last-bar filter; one POST per webhook |
| `tenant_verify.py` | verdict cache, usage queue and counter, per isolate | verify a tenant key at the console, queue and flush usage |
| `middleware.py` | rate limiter buckets, per isolate | sliding-window rate limit, key comparison |
| `window.py` | none | trims the `/run` response to a range of bars |
| `security.py`, `cors.py`, `ast_routes.py` | none | pure checks and stateless routes |
| `pynescript_backend/`, `python_modules/pynescript/` | none across runs | the engine: a thin wrapper of a vendored package |
| its strategy broker (`builtins/strategy.py`, `runtime/host.py`) | pending orders, position, open trades, risk rules, event buffer, for one run | place, replace, cancel; fill at the start of a bar and when a bracket is placed; record and drain events |

**Interaction.** Everything shared lives in R2, which has no transactions;
the code uses no conditional writes and no locks. Python code is atomic
between two awaits; each await (R2, exchange, console, trade-worker, webhook)
lets any other request or tick run. A cron tick and any number of requests can
be in flight together, in one isolate or in several, and an isolate can be
evicted at any await.

**What is hard.** Read-modify-write of whole R2 objects over an await;
overlapping ticks and manual runs of the same jobs; what a crash loses between
saving a job's state and forwarding; a filter that reads the clock after the
answer it filters; the identity of an event whose bar index depends on the
window; caches and counters that are per isolate; a broker whose orders are
placed on one bar and fill on another, after other orders have changed the
position they were for, and which is entered again in the middle of a visit;
events that travel from there to a trade-worker through a buffer, a log and
POSTs that may fail. `PROJECT.json` lists each of
these under `hazards`, at its line, with the properties that cover it.

**What makes each part correct.**

- *Scheduler*: evaluates a job once per closed bar; never on a bar that has
  not closed; catches up with bars that close between ticks; saves its state
  before anything leaves; forwards each order once, on its own symbol and its
  own exchange; delivers each alert once; one job never starves another.
- *Store and feed*: bars are final, never lost and never changed; a reader
  sees no hole; the newest candles arrive in spite of failures.
- *Registry*: for its clients it is a map with atomic puts and deletes, as
  long as writes do not overlap; a deleted script is gone, and a listing misses
  no script, whatever overlaps.
- *Broker*: position and open trades are one thing; a bracket fills once; no
  fill gets past pyramiding or the risk rules; an exit only reduces.
- *Tenant gate*: a revoked key is refused within the cache's lifetime; usage
  is billed to its own tenant, once; the rate limit holds in every window.
- *Forwarders, window*: each fill of the broker reaches the trade-worker; each
  event maps to the orders it stands for; each alert reaches its destination; trimming keeps what is in range.

## 2. Modules

| Module | What it is |
|---|---|
| `BarCloseScheduler` | cron ticks and `POST /cron/run`, from the feed to the orders and alerts |
| `BarCloseSchedulerProofs` | its theorems on types, look-ahead and saving |
| `SchedulerDeliveryProofs` | its theorems on what is sent, where and how often |
| `BarStore` | the candles of one pair in R2: feed, ingest, reads |
| `BarStoreProofs` | its theorems |
| `TenantGate` | tenant verification, rate limit and metering around every route, in one isolate |
| `TenantGateProofs` | its theorems |
| `ScriptMap` | abstract: scripts as a map with atomic puts and deletes |
| `Registry` | `scripts_registry.py`, call by call to R2; implements `ScriptMap` |
| `RegistryProofs` | its theorems, the refinement among them |
| `StrategyBroker` | the simulated broker behind `strategy.*`, and the bar loop around it |
| `StrategyBrokerProofs` | its theorems on brackets, own orders, pyramiding and risk rules |
| `StrategyAccountProofs` | its theorems on quantities, on a theory of sums over finite sets |
| `TradeEvents` | extends `StrategyBroker` with the events of calls and fills, the bar loop that drains them, and the trade forwarder |
| `TradeEventsProofs` | its theorems, and those of the broker across rollbacks |
| `MCBarCloseScheduler`, `MCBarStore`, `MCTenantGate`, `MCRegistry`, `MCStrategyBroker`, `MCTradeEvents` | instances for TLC |

### BarCloseScheduler

State: `closed` (candles the exchange has closed, per pair), `stored` (bars in
R2), `deployed` (script records), `cronState` (`last_bar_time`, counted in
bars), `run` (what each invocation is doing), `accepted` (orders the
trade-worker executed), `alerted` (deliveries of each alert), `failures`, and
the history variable `persisted` (every bar ever saved as a job's last bar).

A run has a `pc` naming the await it is in. Each action is the code from that
await to the next:

| `pc` | Action | Code |
|---|---|---|
| `idle` | `StartCron`, `StartManual` | `entry.scheduled`, `handle_cron_run` |
| `fetch` | `SkipPair`, `FetchKlines` | `refresh_pairs_for_jobs`, `fetch_klines` |
| `merge`, `put` | `MergeBars`, `PutBars` | `ingest_ohlcv_to_r2` |
| `script` | `SkipJob`, `GetScript` | disabled check, `get_script` |
| `bars` | `FetchBars` | `fetch_ohlcv_from_r2`, `ohlcv[-max_bars:]` |
| `state` | `SkipNoNewBar`, `Evaluate` | `get_cron_state`, the check, the engine |
| `save` | `SaveState` | `put_cron_state`, result row |
| `orders` | `PostOrder`, `PostAlerts` | grouping, `forward_events`, `forward_alert_groups` |

Failures are actions of their own, at most `MaxFailures` together:
`FeedFails` (caught per pair), `FetchBarsFails` (caught per job),
`EngineFails` (an error row), `PostOrderFails` (counted, not retried), and
`Abort` for everything that ends an invocation: eviction, the CPU limit, or an
R2 exception outside the `try` blocks, after which the events and alerts
collected so far are dropped. A put that was applied although it failed is
`SaveState` followed by `Abort`.

Abstractions: time is counted in closed bars; the engine is a constant set of
signal bars per script, with one order and one alert per signal; job fields
the code resolves from job or record are resolved; `max_bars` is scaled down
(the code clamps it to at least 50); all alerts go to one destination; the
body flags of `/cron/run` other than `force` and `refresh_market` have their
defaults; the pair's files are one set of bars (`BarStore` has the years); the
exchange's answer is filtered in the instant it is given (`BarStore` has the
delay). The trade-worker is external: it executes an order unless it has seen
the idempotency key, as `forward_events` expects of its 200 and 409.

### BarStore

State: `now`, `stored` (the bar of each candle; the bars of one year are one
file), `writer` (each feed run or ingest request: the batch, the years left,
the merged file it is about to put), `reader`, the bounds `posts` and
`failures`, and three history variables used by properties only: `overlapped`,
`unsettled`, `batchOf`.

A bar is abstracted to the instant whose prices it carries, so a bar is final
when that instant is the close of its candle; `BarAt` says what the exchange
shows. `RequestKlines` is the exchange's answer, `ReceiveKlines` the filter by
the clock when the answer arrives; `GetFile` and `PutFile` are the two R2
calls of one year of `ingest_ohlcv_to_r2`; `WriterFails` is a failing call.
`PostHistory` is the upload of `scripts/fetch_and_ingest.py`, `PostBackfill`
an upload of closed candles by any other client, whose list may be in any
order. `ReadFile` reads one year file, newest year first.

### TenantGate

State: `cache` (`_VERIFY_CACHE`), `buckets` (of `_rate_limiter`), `queue` and
`counter` (of usage events), `request` (what each request in flight is doing),
`standing` (what the console thinks of each key), `received` (usage events the
console has), the bounds `requests`, `changes`, `failures`, and two history
variables: `held`, when each verdict on a key was last the console's own, and
`admitted`, the calls of the last window that the limiter let through.

| `pc` | Action | Code |
|---|---|---|
| `idle`, `refused` | `StartUnkeyed`, `StartCached`, `StartVerify` | `_dispatch_request` up to the handler, or up to the await in `verify_tenant` |
| `verify` | `ConsoleAnswers`, `ConsoleFails` | the console looks the key up; 429, no answer or an unreadable one |
| `answer` | `ReceiveVerdict` | `_cache_store`, the decision on the outcome, `RateLimiter.check` |
| `work` | `FinishMetered`, `FinishUnmetered` | the route's handler; `queue_usage_event` and `flush_usage_queue` up to the POST |
| `usage` | `UsageAccepted`, `UsageFails` | the POST of the batch; it is dropped in either case |

`ColdStart` replaces the isolate: cache, buckets, queue, counter and requests
are gone. The look-up and the arrival of its answer are two steps, so that a
key may change, time may pass and other verdicts may arrive in between.

Abstractions: a bucket is the set of calls whose times it lists; which cached
verdict, or which stale bucket, goes first is left open (the code takes
insertion order); a valid key without the scope is `denied`, as both are
answered with 402 and cached for the same time; whether a request brings a
right `X-API-Key` is a constant per key (`Legacy`); the UTC day of the
idempotency key does not change; the routes are one handler that is metered or
not. `USAGE_BATCH_MAX` and `USAGE_QUEUE_MAX` are left out, as an event is
taken from the queue in the step that appends it. Without `CONSOLE_URL` tenant
keys are accepted unverified and unmetered: that mode is not modelled.

### ScriptMap and Registry

`ScriptMap` is what a client should see: `map`, and of each client the `call`
it waits for with whether it was applied. `Begin`, `Apply`, `End`, and `Fail`,
after which a call was applied or never will be.

State of `Registry`: `record` (`scripts/{id}.json`: nothing, content, or the
disabled stub of a failed delete), `index`, `jobsFile`, `client` (the request
each client has in flight), the bounds `calls` and `failures`, and the
histories `steady` (scripts listed ever since a client began to list),
`overlapped` (two writes were in flight together) and `deleted`.

| `pc` | Action | Code |
|---|---|---|
| `idle` | `StartPut`, `StartDelete`, `StartList`, `LoadJobs`, `PutJobs` | the handlers up to their first await |
| `record` | `PutRecord` | `put_script`, the record |
| `lookup` | `DeleteLookup` | `delete_script`, `get_script` |
| `delete`, `stub` | `DeleteRecord`, `DeleteRefused`, `PutStub` | the delete, and the stub when it fails |
| `getIndex`, `saveIndex` | `PutGetIndex`, `DeleteGetIndex`, `PutSaveIndex`, `DeleteSaveIndex` | `load_index`, `save_index` |
| `listIndex`, `listRecord`, `listed` | `ListIndex`, `ListRecord`, `EndList` | `list_scripts` and the derivation of jobs |
| `written` | `Return` | the response |

`Fail` cuts a request off at any await. The refinement mapping of `ImplementsMap`
shows as `map` the scripts that are in the index and have a record, and counts
a call as applied from the step that changes this. A content stands for a
source and its metadata; validation is left out.

### StrategyBroker

State: `pending` (the order under each key of `pending_orders`), `side`,
`size`, `legs` (`open_trades`, numbered by age), `blocked` (the risk rules stop
entries), `bar`, `queue` (the keys the processing that is under way has still
to look at), `visiting`, `touched`, the bounds `calls` and `halts`, and the
histories `entered`, `exited`, `overrun`, `fills`.

| Action | Code |
|---|---|
| `Entry`, `PlaceOrder`, `ExitAtMarket`, `Bracket`, `ExitAtPrice`, `Close`, `PlaceCloseAll`, `Cancel`, `CancelAll` | the handlers of `strategy.entry` to `strategy.cancel_all` |
| `Drop`, `Keep`, `Reject`, `FillOpens`, `FillCovers` | one turn of the loop of `process_pending_orders`, with `_fill_order`, `_open_position_qty`, `_close_position` and `_apply_oca_after_fill` |
| `Visit`, `NextBar` | the bar loop of `Runtime.run` |
| `Halt` | `_risk_allows_entry` sets `entries_blocked` |

A key of `pending_orders` is an id, or an id with a suffix (`:close`,
`:limit`, `:stop`), while the order under it carries an id of its own: the
model keeps both, because the code removes an order by the one and stores it
by the other. Abstractions: prices are left out, so that whether a bar reaches
a priced order is a free choice, one for the whole bar (`touched`), and when
the risk rules stop entries is free too; commission and profit are left out;
calls that are rejected or have nothing to do are left out, as they change
nothing. It is the broker of the interpreter; compiled strategies carry one of
their own, which is not modelled.

### TradeEvents

Composes the broker with what becomes of its events. Each action of the broker
is joined with the events it records; the bar loop is refined by `phase`.

| Action | Code |
|---|---|
| `PlaceRecords`, `ExitRecords`, `CloseRecords`, `CancelRecords`, `FillRecords` | the broker's actions and their `_record_strategy_event` |
| `BeginVisit` | the drain after the fills at the start of a bar, then the clear, then the visit |
| `ResumeVisit` | a bracket's processing ends, the visit goes on |
| `UnconfirmedTick` | `StrategyState.restore` after the visit of an unconfirmed realtime tick |
| `EndVisit`, `BeginBar` | the drain after the visit, the next bar |
| `ForwardEvents` | `forward_events` on the events of a run |

State: `buffer` (`_events`), `log` (`all_events`), `accepted` (keys of the
orders the trade-worker executed), `lost` (keys of which a POST of the last
tick failed), `filled` (direction and bar of each fill), `before` (the
snapshot), the bound `ticks`. A run at a later tick evaluates the script over the same
bars and one more, so that its log is the log of the last tick made longer;
the window that slides is in `BarCloseScheduler`. An event is abstracted to
what decides where it goes: kind, direction, bar, and whether it has a
quantity.

The model shows that one `strategy.entry` reaches the trade-worker as three
orders with three keys: its placement, the entry, and the fill. The engine's
tests expect these events and no line of the repository says which of them
should be executed, so that this is a hazard of the list and not a property.

## 3. Runs

Passing:

| Run | What is checked | Bounds |
|---|---|---|
| `scheduler_alone` | one tick at a time: `AlertAtMostOnce`, `OrderOnItsSymbol`, `OrderOnItsExchange`, `OrdersDelivered`, `OnlyOnNewBar`, `TypeOK` | two pairs, two scripts, one job with an exchange and one job per symbol, 3 bars, 1 failure |
| `scheduler_overlap` | a tick and a manual run interleaved: `NoLookahead`, `ForwardedAfterSave`, `AlertsDelivered`, `OrderAtMostOnce`, and under fairness `CaughtUp` | one pair, a disabled job before the job that runs (both of one script), 3 bars, 1 failure |
| `bar_store` | a feed, a client and a reader interleaved: `FinalUnlessForming`, `ReadsNoHole`, `AppendOnly`, `Settles`, `TypeOK` | 3 candles over a year boundary, the feed asks for 2, 1 post, 1 failure |
| `tenant_gate` | requests interleaved at every await: `VerdictFresh`, `RateLimited`, `BilledOnce`, `TypeOK` | two keys and requests without one, 2 requests in flight and 3 in all, clock up to 2, 1 change of standing, 1 failure |
| `registry` | requests interleaved at every R2 call: `ListComplete`, `DeletedStaysDeleted`, `ImplementsMap`, `TypeOK` | 3 clients, 2 scripts, 4 calls, 1 failure |
| `strategy_broker` | calls and fills in any order: `PyramidingCap`, `OneLegFills`, `OwnOrdersFillAtOpen`, `EntriesAllowed` | 2 ids, 4 calls, 3 bars after the first, 1 stop of the risk rules, pyramiding 1 |
| `partial_fills` | quantities: `PositionIsLegs`, `ContractsAccounted`, `TypeOK` | orders of 2 contracts, caps of none and 1, a group that reduces, 4 calls, 2 bars after the first |
| `trade_events` | the broker, the log and the forwarder: `FillsForwarded`, `EventsTypeOK` | 2 ids, 3 calls, 2 bars after the first, 1 failed POST per tick, 1 unconfirmed tick, 1 stop |

Three bars let a tick miss one, a window hold two evaluated bars, and a slow
run save a state two bars old. Two runs are enough for every race between a
read and a write of one object. One failure can hit any await, in particular
each of those between the engine, the save and the forwarding.

In `tenant_gate` the cache and the limiter are at their limits at once: one
entry, one call per window, pruning from the second bucket on. The clock
covers one positive lifetime and one window, so that entries expire, calls
leave the window and buckets become stale; three requests let two overlap on
one key and a third be answered from the cache. Slots are interchangeable,
and used as symmetry.

In `registry` three clients are a writer, a second writer that overlaps it and
a reader; two scripts let the index hold one while the other comes and goes;
four calls let a script be put, deleted and listed while it is put again. In
`strategy_broker` four calls are an entry, a bracket on it, a second bracket
and one more order; in `partial_fills` two contracts make a fill partial and
leave something over. One fill on each of two bars, and a tick that is missed
or loses a POST between them, is what `trade_events` needs.

`OnlyOnNewBar` and `AlertAtMostOnce` hold for one tick at a time only: two
overlapping ones read `last_bar_time` before either writes it, both evaluate
the job, and alerts, which have no idempotency key, are delivered twice. Orders
are protected by their key. `OrderOnItsExchange` holds as long as a symbol has
one job: the exchange of one job's event becomes the default of all events of
its symbol (hazard at `entry.py:334`). `OrderAtMostOnce` holds in
`scheduler_overlap` because the window holds every
bar and the feed asks for all of them. `AppendOnly` and `ReadsNoHole` are
stated for writers that do not overlap on a file, which a history variable
records, so that overlapping writers are part of the same run.

Violated: each run shows that the code does not do what a line of the
repository says.

| Run | Property | Why |
|---|---|---|
| `sliding_window` | `OrderAtMostOnce` | the idempotency key has `bar_index`, which moves with the window; an order of an old bar is executed again |
| `manual_symbol` | `OrderOnItsSymbol` | `/cron/run` forwards every event under the default symbol |
| `exit_reverses` | `ExitsReduce` | what an exit or a close leaves over opens a position: two exits of one position reverse it, and an exit of one entry for more than is left of it replaces the others |
| `close_all_lost` | `CloseAllForwarded` | the event of `strategy.close_all` has no quantity, so the forwarder refuses it; only the fill is posted, as an order |

Some statements of the code are not kept and are hazards of the list with a
note, at their line: the clock that is read after the answer, the month that
counts as closed after 30 days, the usage counter that starts over in a new
isolate, the close that is refused and stays pending under its key, the
idempotency key that two orders of one bar share.

### Fairness

`CaughtUp` assumes that candles keep closing, that the platform keeps firing
the cron trigger when no tick is in that slot, and that an await that succeeds
is resumed. `Settles` assumes that time passes, that the feed runs again and
again, and that a request that was accepted goes on. Failures, crashes,
deployments, client requests and readers are never fair, and a bounded number
of failures stands for "failures stop".

## 4. Proofs

`BarCloseSchedulerProofs` proves for every number of pairs, jobs, scripts,
bars, failures and runs in flight, from the named assumptions of
`BarCloseScheduler`:

- `TypeCorrect`: `Spec => []TypeOK`. Inductive with `WindowOK`, which says
  that a run that has read its bars holds a window with its last bar in it:
  otherwise the bar it saves has no type.
- `NeverLooksAhead`: `Spec => []NoLookahead`. The property alone is not
  inductive, because bars travel in the runs. `LookOK` adds that the bars a
  run holds between the awaits, its last bar, its events and its alerts are
  all of closed candles. The steps split into those that only let `closed`
  grow, those that write shared state, and those that move one run.
- `SavesBeforeForwarding`: `Spec => []ForwardedAfterSave`. `SaveOK` adds that
  the events a run collected were saved before, except those of the job it is
  about to save, and that its alerts were. `persisted` only grows, and only
  `SaveState` writes it.

`SchedulerDeliveryProofs` proves what the scheduler sends. These properties do
not hold of every deployment, and each theorem has as its hypothesis what it
asks of one, on the constants alone:

| Theorem | Asks | Proves | Without it |
|---|---|---|---|
| `EveryAlertDelivered` | nothing | `[]AlertsDelivered` | |
| `EvaluatesNewBarsOnly` | `OneAtATime` | `OnlyOnNewBar` | two ticks read `last_bar_time` before either writes it |
| `AlertsDeliveredOnce` | `OneAtATime`, no requests | `[]AlertAtMostOnce` | the same; a forced request evaluates a bar again |
| `OrdersExecutedOnce` | `NeverSlides`, `SymbolsKnown` | `[]OrderAtMostOnce` | run `sliding_window` |
| `OrdersOnTheirSymbol` | `SymbolsKnown` | `[]OrderOnItsSymbol` | run `manual_symbol` |
| `OrdersOnTheirExchange` | `TaggedAlike` | `[]OrderOnItsExchange` | one job's exchange becomes that of all events of its symbol |
| `EveryOrderDelivered` | `OneAtATime`, `SymbolsKnown`, `KeysAgree`, `OneTimeframe` | `[]OrdersDelivered` | a second run may save a newer bar while the first still holds its orders; the idempotency key has no timeframe |

`OneAtATime` says that there is one slot for runs; `NeverSlides` that the feed
limit and the windows of the enabled jobs hold every bar; `SymbolsKnown` that
there are no requests, or that all jobs are on the default symbol;
`TaggedAlike` that of the jobs of one symbol all name an exchange or none does;
`KeysAgree` that jobs which share their cron state forward alike and have equal
windows; `OneTimeframe` that a script runs on one timeframe of a symbol. The
instances of `scheduler_alone` and `scheduler_overlap` satisfy those of the
properties they check. What is left free is the number of
jobs, pairs, bars and failures, outages of the trigger of any length, kills,
redeployments, and, where `OneAtATime` is not asked, any overlap.

The invariants, from the weakest: `IdleEmpty`, a run at rest holds nothing.
`AlertsPending`, the alert of a recorded signal is delivered or in a run.
`FreshOK`, the window a run holds is the newest of the series and the bars
recorded for its job are older; it is what an overlap breaks, and what makes
the check against `last_bar_time` mean what it says. `OnceOK`, an alert that a
run holds has not been delivered. `PrefixOK`, no series and no window has
lost its first bars, so that the index of an event tells its bar
(`NumberOK`) and the idempotency key tells orders apart. `SeriesOK`, the newest
bars of a series are without a hole for as many as the feed asks for.
`OrdersPending`, the order of each signal in the window of the last recorded
bar is executed or in a run.

`BarStoreProofs` proves, for every calendar, interval and number of writers:

- `StoreTypeCorrect`: `Spec => []TypeOK`.
- `OnlyFormingBarsDiffer`: `Spec => []FinalUnlessForming` when no candle lasts
  longer than the interval (`NoLongCandle`: `\A k \in Candles : OpenAt[k + 1]
  <= OpenAt[k] + Interval`, the assumption of the theorem). The invariant
  carries the property along the answer, the batch and the file of each
  writer. Of a month of 31 days, which counts as closed after 30, it is false.
- `NeverLosesBars`: `Spec => AppendOnly`. Only `PutFile` writes a file, and
  the file it puts was merged from what the file held when it was read; the
  invariant says that it still holds that, unless a second writer worked on the
  same file in between, which is what `overlapped` records.
- `ReadersSeeNoHole`: `Spec => []ReadsNoHole`. A writer goes from the oldest
  year on and a reader from the newest back. `HoleOK` says that no candle of an
  ascending batch is in R2 without the older ones, at any moment, and that of
  what a reader has, the older candles of the same batch are read or in a year
  it has yet to read. The opposite directions are what makes it hold.

`TenantGateProofs` proves, for every number of keys, requests and buckets, for
all lifetimes and limits that satisfy `LimitsAssumption`:

- `GateTypeCorrect`: `Spec => []TypeOK`, the bound of the cache included. It
  needs `PhaseOK`: a request that waits for or has a verdict is one of a key.
- `VerdictsAreFresh`: `Spec => []VerdictFresh`. `FreshOK` says of every cached
  verdict that the console held it within its lifetime before it expires, and
  of every request in flight that the console held its verdict since it came;
  a decision from the cache and one from an answer both follow. It also says
  that `held` is up to date for what the console thinks now.
- `CallersAreLimited`: `Spec => []RateLimited`. `RateOK` says that the bucket
  of a caller lists every admitted call of the last window; forgetting stale
  buckets keeps that, because all their calls have left the window.
- `CallsAreBilledOnce`: `Spec => []BilledOnce`. `BillOK`: the queue is empty
  between two steps, the calls in flight have different numbers, none of them
  has been received, and a batch on its way holds the event of its own call
  and key and no other. That a flush takes the event in the step that appends
  it is what keeps a tenant's events out of another's batch.

`RegistryProofs` proves, for every number of clients and scripts:

- `RegistryTypeCorrect`: `Spec => []TypeOK`.
- `RegistryImplementsMap`: `Spec => ImplementsMap`: as long as no two writes
  overlap, the initial state maps to one of `ScriptMap` and every step to a
  step or to none. `SequentialOK` says what the one writer knows: the index it
  read is the index there is, and how far its call has got shows in record and
  index; the other clients then wait for nothing. One lemma per kind of step
  says which step of the map it is.
- `DeletionsLast`: `Spec => []DeletedStaysDeleted`. `DeletedOK`: a deleted
  script has no record a reader accepts, and no request is about to write one;
  what requests do to the index does not matter.
- `ListingsAreComplete`: `Spec => []ListComplete`. `ListingsOK` says of every
  listing in flight that the scripts that were listed all along are in the ids
  it read, and that it has seen those it has passed.

`StrategyBrokerProofs` proves, for every number of ids, quantities, caps and
groups, from the named assumptions of `StrategyBroker`:

- `BracketsFillOnce`: `Spec => []OneLegFills`. `OrdersOK` is inductive: the two
  legs of a bracket are under their keys and in one group (`BookOK`), so that
  the one that fills removes the other, and an id with a fill counted has no
  leg left (`FillsOK`).
- `OwnOrdersDoNotWait`: `Spec => []OwnOrdersFillAtOpen`, of the same invariant:
  an older order of this kind is only there while orders are processed and its
  turn is still to come (`OwnOK`), and nothing is left to process when the
  script visits (`QueueOK`).
- `PyramidingHolds`: `Spec => []PyramidingCap`. `LegsOK` adds that the open
  trades are a finite set.
- `EntriesGated`: `Spec => EntriesAllowed`, by cases on what a fill does to the
  position it meets.

`StrategyAccountProofs` proves the arithmetic of the broker, for the same
constants. `Sizes` sums over the open trades, and what such a sum does when a
trade comes, goes or shrinks is induction over finite sets. The library's
theorems of induction take an operator, which the provers cannot instantiate,
so `SubsetInduction` is proved for a set of subsets instead, from the least
cardinality of a counterexample (`WFMin`), and the properties of `Sizes` from
it (`SumExists`, `SizesOfOneMore`, `SizesOfPart`, `SizesOfShrunk`). On these
rest two lemmas on positions, `OpenedOK` and `ClosedOK`: opening adds its
quantity, or nothing when pyramiding refuses it, and closing takes away what
it covers, trade by trade from the oldest on. `BrokerOK` is the invariant: book,
position, accounts, queue and flow.

- `BrokerTypes`: `Spec => []TypeOK`: no fill, reduction by a group or close
  leaves a negative quantity.
- `PositionMatchesTrades`: `Spec => []PositionIsLegs`.
- `NoContractLost`: `Spec => []ContractsAccounted`. `overrun` is part of the
  statement: when an exit of one entry runs over what is left of it, the rest
  opens a trade that takes the place of the others (run `exit_reverses`).

`TradeEventsProofs` proves of `EventsSpec`, for every number of ticks,
rollbacks and lost POSTs:

- `EventsTypes`: `[]EventsTypeOK`, and `RollbackKeepsAccounts`:
  `[](PositionIsLegs /\ ContractsAccounted)`. `EventsOK` adds to `BrokerOK`
  that the snapshot is of a broker in order.
- `EveryFillForwarded`: `[]FillsForwarded`. Every fill has its event in the
  buffer or the log (`FillsTold`), and those of the snapshot in the log
  (`SnapshotKept`): a rollback empties the buffer, and forgets the fills of
  which it drops the events, no others.
- `RollbackKeepsPromises`: `[](PyramidingCap /\ OneLegFills /\
  OwnOrdersFillAtOpen)`. Every step is one of the broker, a call with nothing
  to close, or the rollback; the snapshot is taken when nothing is queued, so
  that the broker's invariant holds again after going back to it.
- `OnlyRollbacksPassTheRules`: `EntriesAllowed` with the one exception a
  rollback is: it may bring back a position that the rules, stopped in the
  meantime, would not let be opened.

Every safety property that a passing run checks is a theorem. Only
model-checked are the liveness properties `CaughtUp` and `Settles`, as the
proof system has no rules for fairness, and the four properties that the code
does not keep, of which the runs show a counterexample.

## 5. Not modelled

Of the engine (`python_modules/`, vendored, by far the largest part of the
repository): the parser, the evaluator and its built-ins, which compute values
and share no state, the compiler and the broker of compiled strategies, and
the streaming session, which the worker does not use. The other vendored
packages. The AST routes, CORS and sanitising (stateless), the operator's
command line tools, and the parts of the plan below. `PROJECT.json` gives the
reason for each component.

## 6. Plan

Next, in this order:

1. `group_alerts_by_webhook`, `filter_alerts_for_bar`, `normalize_window` and
   `apply_window`, as operators against reference definitions, with lemmas
   that need no induction.
2. The hypotheses of `SchedulerDeliveryProofs` on the enabled jobs alone where
   they speak of all (`NeverSlides` does already), and `OrdersDelivered` for
   runs that overlap on different jobs.
3. A bound for `AlertAtMostOnce` with overlapping runs: as many deliveries as
   runs that were in flight together.
