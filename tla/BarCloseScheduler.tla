------------------------- MODULE BarCloseScheduler -------------------------
(***************************************************************************)
(* The bar-close scheduler: what a cron tick (entry.scheduled) and a       *)
(* POST /cron/run (entry.fetch) do, from the market feed to the orders     *)
(* and alerts they send.                                                   *)
(*                                                                         *)
(* A run is one invocation of run_scheduled_jobs followed by its           *)
(* forwarding.  Python code between two awaits is atomic; every await      *)
(* (R2, exchange, trade-worker, webhook) ends an action, so runs of        *)
(* overlapping ticks and requests interleave exactly there.  R2 has no     *)
(* conditional writes and the code takes no lock.                          *)
(*                                                                         *)
(* Time is counted in closed bars: bar b of a pair is the b-th candle.     *)
(***************************************************************************)
EXTENDS Integers, Sequences, FiniteSets

CONSTANTS
  Pairs,            \* (symbol, timeframe) pairs with a candle series
  Scripts,          \* deployed script ids
  Symbols,          \* trading symbols
  Exchanges,        \* exchange ids the trade-worker accepts
  NoExchange,       \* a job or script record without an exchange
  DefaultExchange,  \* env.DEFAULT_EXCHANGE
  DefaultSymbol,    \* "BTCUSDT", the default of payload.get("symbol", ...)
  SymbolOf,         \* the symbol of each pair
  Jobs,             \* config/cron_jobs.json: a sequence of job records
  Signals,          \* the bars on which each script emits an order and an alert
  CronRuns,         \* slots for cron ticks that may be in flight together
  ManualRuns,       \* slots for POST /cron/run requests in flight
  FeedLimit,        \* candles asked of the exchange (feed_limit)
  MaxBar,           \* bound: number of bars that ever close
  MaxFailures       \* bound: crashes, R2/HTTP/engine failures of a behaviour

Bars == 1..MaxBar
Runs == CronRuns \union ManualRuns
JobNumbers == 1..Len(Jobs)

(* The records put_cron_jobs stores, the fields the scheduler branches on.  *)
Job == [script: Scripts, pair: Pairs, exchange: Exchanges \union {NoExchange},
        enabled: BOOLEAN, forward: BOOLEAN, maxBars: Nat \ {0}]

ASSUME JobsAssumption == Jobs \in Seq(Job) /\ Jobs # << >>
ASSUME RunsAssumption == CronRuns \intersect ManualRuns = {}
ASSUME MarketAssumption ==
  /\ SymbolOf \in [Pairs -> Symbols]
  /\ Signals \in [Scripts -> SUBSET Bars]
  /\ DefaultSymbol \in Symbols
  /\ DefaultExchange \in Exchanges
  /\ NoExchange \notin Exchanges
ASSUME BoundsAssumption ==
  /\ MaxBar \in Nat /\ MaxFailures \in Nat /\ FeedLimit \in Nat \ {0}

VARIABLES
  closed,     \* how many candles of each pair the exchange has closed
  stored,     \* the bars of each pair in R2
  deployed,   \* scripts whose record exists in R2
  cronState,  \* state/cron/{job key}.json: last_bar_time, 0 when absent
  run,        \* what each invocation is doing
  accepted,   \* orders the trade-worker executed
  alerted,    \* how often each alert was delivered, counted up to 2
  failures,   \* failures so far
  persisted   \* history: the bars ever written as last_bar_time of a job

vars == << closed, stored, deployed, cronState, run, accepted, alerted,
           failures, persisted >>

----------------------------------------------------------------------------
(* Job keys, windows and what a job emits.                                 *)

(* _job_key: two jobs of one script on one pair share their state.         *)
JobKey(n) == << Jobs[n].script, Jobs[n].pair >>
JobKeys == {JobKey(n) : n \in JobNumbers}

(* An order event of job n for a bar; index is its position in the window. *)
Event == [job: JobNumbers, bar: Bars, index: Nat]

(* An order the trade-worker executed: the event and how it was addressed. *)
Order == [event: Event, symbol: Symbols, exchange: Exchanges]

(* The newest n bars of bars: ohlcv[-max_bars:].                           *)
LastBars(bars, n) == {b \in bars : Cardinality({c \in bars : c > b}) < n}

(* bar_index of an event: the engine numbers the window from 0.            *)
IndexFromNewest(b, window) == Cardinality({c \in window : c > b})
BarIndex(b, window) == Cardinality({c \in window : c < b})

(* The order events one evaluation of job n over window appends to         *)
(* all_events: those of the whole window, not only of its last bar.        *)
EventsOfLastBar(n, window) ==
  {[job |-> n, bar |-> b, index |-> BarIndex(b, window)] :
     b \in {c \in window \intersect Signals[Jobs[n].script] :
             Jobs[n].forward /\ \A d \in window : d <= c}}
EventsOf(n, window) ==
  {[job |-> n, bar |-> b, index |-> BarIndex(b, window)] :
     b \in {c \in window \intersect Signals[Jobs[n].script] : Jobs[n].forward}}

(* filter_alerts_for_bar keeps the firings of the last closed bar only.    *)
AlertsOfPreviousBar(n, last) == {<< JobKey(n), last - 1 >>} \intersect
                                (JobKeys \X Signals[Jobs[n].script])
AlertsOf(n, last) == {<< JobKey(n), last >>} \intersect
                     (JobKeys \X Signals[Jobs[n].script])

----------------------------------------------------------------------------
(* Runs.                                                                   *)

Phases == {"idle", "fetch", "merge", "put",         \* the feed, pair by pair
           "script", "bars", "state", "save",       \* the jobs, one by one
           "orders"}                                \* forwarding

IdleRun == [pc |-> "idle", force |-> FALSE, job |-> 1, bars |-> {},
            last |-> 0, events |-> {}, sent |-> {}, alerts |-> {}]

RunRecord == [pc: Phases, force: BOOLEAN, job: JobNumbers, bars: SUBSET Bars,
              last: 0..MaxBar, events: SUBSET Event, sent: SUBSET Event,
              alerts: SUBSET (JobKeys \X Bars)]

TypeOK ==
  /\ closed \in [Pairs -> 0..MaxBar]
  /\ stored \in [Pairs -> SUBSET Bars]
  /\ deployed \subseteq Scripts
  /\ cronState \in [JobKeys -> 0..MaxBar]
  /\ run \in [Runs -> RunRecord]
  /\ accepted \subseteq Order
  /\ alerted \in [JobKeys \X Bars -> 0..2]
  /\ failures \in 0..MaxFailures
  /\ persisted \in [JobKeys -> SUBSET Bars]

(* The first job is looked at by the feed loop, or by the job loop.        *)
FirstJob(r, phase) == [r EXCEPT !.pc = phase, !.job = 1, !.bars = {}, !.last = 0]

(* continue: on to the next pair, and after the last one to the jobs.      *)
NextPair(r) ==
  IF r.job < Len(Jobs)
  THEN [r EXCEPT !.pc = "fetch", !.job = @ + 1, !.bars = {}, !.last = 0]
  ELSE FirstJob(r, "script")

(* continue: on to the next job, and after the last one to forwarding.     *)
BreakAtJob(r) == FirstJob(r, "orders")
OneJobTooMany(r) ==
  IF r.job <= Len(Jobs)
  THEN [r EXCEPT !.pc = "script", !.job = @ + 1, !.bars = {}, !.last = 0]
  ELSE FirstJob(r, "orders")
NextJob(r) ==
  IF r.job < Len(Jobs)
  THEN [r EXCEPT !.pc = "script", !.job = @ + 1, !.bars = {}, !.last = 0]
  ELSE FirstJob(r, "orders")

PairOf(r) == Jobs[r.job].pair

(* refresh_pairs_for_jobs refreshes each pair of an enabled job once.      *)
RefreshedBy(n) ==
  /\ Jobs[n].enabled
  /\ \A m \in 1..(n - 1) : Jobs[m].enabled => Jobs[m].pair # Jobs[n].pair

MayFail == failures < MaxFailures /\ failures' = failures + 1

Init ==
  /\ closed = [p \in Pairs |-> 0]
  /\ stored = [p \in Pairs |-> {}]
  /\ deployed = Scripts
  /\ cronState = [k \in JobKeys |-> 0]
  /\ run = [i \in Runs |-> IdleRun]
  /\ accepted = {}
  /\ alerted = [a \in JobKeys \X Bars |-> 0]
  /\ failures = 0
  /\ persisted = [k \in JobKeys |-> {}]

----------------------------------------------------------------------------
(* The world around the runs.                                              *)

(* The exchange closes the next candle of pair p.                          *)
CloseBar(p) ==
  /\ closed[p] < MaxBar
  /\ closed' = [closed EXCEPT ![p] = @ + 1]
  /\ UNCHANGED << stored, deployed, cronState, run, accepted, alerted,
                  failures, persisted >>

(* POST /scripts and DELETE /scripts/{id}, as far as a run can tell: the   *)
(* record is there with a source, or it is not.                            *)
DeployScript(s) ==
  /\ s \notin deployed
  /\ deployed' = deployed \union {s}
  /\ UNCHANGED << closed, stored, cronState, run, accepted, alerted,
                  failures, persisted >>

DeleteScript(s) ==
  /\ s \in deployed
  /\ deployed' = deployed \ {s}
  /\ UNCHANGED << closed, stored, cronState, run, accepted, alerted,
                  failures, persisted >>

(* The cron trigger: force=False, refresh_market=True.                     *)
StartCron(i) ==
  /\ i \in CronRuns /\ run[i].pc = "idle"
  /\ run' = [run EXCEPT ![i] = [IdleRun EXCEPT !.pc = "fetch"]]
  /\ UNCHANGED << closed, stored, deployed, cronState, accepted, alerted,
                  failures, persisted >>

(* POST /cron/run: the body chooses force and refresh_market.              *)
StartManual(i, force, refresh) ==
  /\ i \in ManualRuns /\ run[i].pc = "idle"
  /\ run' = [run EXCEPT ![i] =
              [IdleRun EXCEPT !.pc = IF refresh THEN "fetch" ELSE "script",
                              !.force = force]]
  /\ UNCHANGED << closed, stored, deployed, cronState, accepted, alerted,
                  failures, persisted >>

(* The invocation ends early: the isolate is evicted or exceeds its CPU    *)
(* limit, or an R2 call outside the try blocks raises.  entry.scheduled    *)
(* and handle_cron_run turn the exception into a summary without events,   *)
(* so what the run had collected is dropped in either case.                *)
Abort(i) ==
  /\ run[i].pc # "idle"
  /\ MayFail
  /\ run' = [run EXCEPT ![i] = IdleRun]
  /\ UNCHANGED << closed, stored, deployed, cronState, accepted, alerted,
                  persisted >>

----------------------------------------------------------------------------
(* The market feed: refresh_pairs_for_jobs, one pair after the other.      *)

(* Disabled jobs, and pairs an earlier job refreshed.                      *)
SkipPair(i) ==
  /\ run[i].pc = "fetch"
  /\ ~RefreshedBy(run[i].job)
  /\ run' = [run EXCEPT ![i] = NextPair(@)]
  /\ UNCHANGED << closed, stored, deployed, cronState, accepted, alerted,
                  failures, persisted >>

(* fetch_klines with closed_only: the exchange lists its newest feed_limit *)
(* candles, of which the last is still forming, and that one is dropped.   *)
WithFormingBar(p) ==
  {b \in Bars : b <= closed[p] + 1 /\ b > closed[p] + 1 - FeedLimit}
ClosedKlines(p) ==
  {b \in Bars : b <= closed[p] /\ b > closed[p] + 1 - FeedLimit}

FetchKlines(i) ==
  /\ run[i].pc = "fetch"
  /\ RefreshedBy(run[i].job)
  /\ LET klines == ClosedKlines(PairOf(run[i]))
     IN  run' = [run EXCEPT ![i] =
                 IF klines = {} THEN NextPair(@)   \* all sources empty: an error row
                 ELSE [@ EXCEPT !.pc = "merge", !.bars = klines]]
  /\ UNCHANGED << closed, stored, deployed, cronState, accepted, alerted,
                  failures, persisted >>

(* ingest_ohlcv_to_r2 reads the file and merges what was fetched into it.  *)
MergeBars(i) ==
  /\ run[i].pc = "merge"
  /\ run' = [run EXCEPT ![i].pc = "put",
                        ![i].bars = @ \union stored[PairOf(run[i])]]
  /\ UNCHANGED << closed, stored, deployed, cronState, accepted, alerted,
                  failures, persisted >>

(* ... and writes the whole file back.                                     *)
PutBars(i) ==
  /\ run[i].pc = "put"
  /\ stored' = [stored EXCEPT ![PairOf(run[i])] = run[i].bars]
  /\ run' = [run EXCEPT ![i] = NextPair(@)]
  /\ UNCHANGED << closed, deployed, cronState, accepted, alerted, failures,
                  persisted >>

(* Any failure of a pair is caught and reported in the feed rows.          *)
FeedFails(i) ==
  /\ run[i].pc \in {"fetch", "merge", "put"}
  /\ RefreshedBy(run[i].job)
  /\ MayFail
  /\ run' = [run EXCEPT ![i] = NextPair(@)]
  /\ UNCHANGED << closed, stored, deployed, cronState, accepted, alerted,
                  persisted >>

----------------------------------------------------------------------------
(* The job loop of run_scheduled_jobs.                                     *)

(* Disabled, or get_script found no record with a source.                  *)
SkipJob(i) ==
  /\ run[i].pc = "script"
  /\ \/ ~Jobs[run[i].job].enabled
     \/ Jobs[run[i].job].script \notin deployed
  /\ run' = [run EXCEPT ![i] = NextJob(@)]
  /\ UNCHANGED << closed, stored, deployed, cronState, accepted, alerted,
                  failures, persisted >>

GetScript(i) ==
  /\ run[i].pc = "script"
  /\ Jobs[run[i].job].enabled
  /\ Jobs[run[i].job].script \in deployed
  /\ run' = [run EXCEPT ![i].pc = "bars"]
  /\ UNCHANGED << closed, stored, deployed, cronState, accepted, alerted,
                  failures, persisted >>

(* fetch_ohlcv_from_r2, then the newest max_bars of what it returned.      *)
FetchBars(i) ==
  LET r == run[i]
      window == LastBars(stored[PairOf(r)], Jobs[r.job].maxBars)
  IN  /\ r.pc = "bars"
      /\ \/ /\ stored[PairOf(r)] = {}           \* skipped: no data
            /\ run' = [run EXCEPT ![i] = NextJob(@)]
         \/ \E last \in window :
              /\ \A b \in window : b <= last
              /\ run' = [run EXCEPT ![i].pc = "state", ![i].bars = window,
                                    ![i].last = last]
      /\ UNCHANGED << closed, stored, deployed, cronState, accepted, alerted,
                      failures, persisted >>

(* The read of the bars is the one R2 call of the loop inside a try.       *)
FetchBarsFails(i) ==
  /\ run[i].pc = "bars"
  /\ MayFail
  /\ run' = [run EXCEPT ![i] = NextJob(@)]
  /\ UNCHANGED << closed, stored, deployed, cronState, accepted, alerted,
                  persisted >>

(* "no new bar": the job is skipped unless it is forced.                   *)
NotOlder(r) == r.force \/ r.last >= cronState[JobKey(r.job)]
IsDue(r) == r.force \/ r.last > cronState[JobKey(r.job)]

SkipNoNewBar(i) ==
  /\ run[i].pc = "state"
  /\ ~IsDue(run[i])
  /\ run' = [run EXCEPT ![i] = NextJob(@)]
  /\ UNCHANGED << closed, stored, deployed, cronState, accepted, alerted,
                  failures, persisted >>

(* The engine runs, without an await, on the state read just before; its   *)
(* events join all_events before the new state is written.                 *)
EvaluatedUnsaved(r) ==
  NextJob([r EXCEPT !.events = @ \union EventsOf(r.job, r.bars),
                    !.alerts = @ \union AlertsOf(r.job, r.last)])
Evaluated(r) ==
  [r EXCEPT !.pc = "save", !.events = @ \union EventsOf(r.job, r.bars)]

Evaluate(i) ==
  /\ run[i].pc = "state"
  /\ IsDue(run[i])
  /\ run' = [run EXCEPT ![i] = Evaluated(@)]
  /\ UNCHANGED << closed, stored, deployed, cronState, accepted, alerted,
                  failures, persisted >>

(* A script error or the 25 s timeout: an error row, the state stays.      *)
EngineFails(i) ==
  /\ run[i].pc = "state"
  /\ IsDue(run[i])
  /\ MayFail
  /\ run' = [run EXCEPT ![i] = NextJob(@)]
  /\ UNCHANGED << closed, stored, deployed, cronState, accepted, alerted,
                  persisted >>

(* put_cron_state, then the result row with the alerts of the last bar.    *)
Saved(r) == NextJob([r EXCEPT !.alerts = @ \union AlertsOf(r.job, r.last)])

SaveState(i) ==
  LET r == run[i] IN
  /\ r.pc = "save"
  /\ cronState' = [cronState EXCEPT ![JobKey(r.job)] = r.last]
  /\ persisted' = [persisted EXCEPT ![JobKey(r.job)] = @ \union {r.last}]
  /\ run' = [run EXCEPT ![i] = Saved(@)]
  /\ UNCHANGED << closed, stored, deployed, accepted, alerted, failures >>

----------------------------------------------------------------------------
(* Forwarding: entry.scheduled for a cron tick, entry.fetch for a request. *)

EventSymbol(e) == SymbolOf[Jobs[e.job].pair]
SameSymbol(evs, e) == {f \in evs : EventSymbol(f) = EventSymbol(e)}

(* f stands before e in all_events.                                        *)
ListedBefore(f, e) == \/ f.job < e.job
                      \/ f.job = e.job /\ f.bar < e.bar

(* A tick groups the events by symbol, in order of first appearance; a     *)
(* request forwards the list as it is.                                     *)
PostedBefore(i, evs, f, e) ==
  IF i \in ManualRuns \/ EventSymbol(f) = EventSymbol(e)
  THEN ListedBefore(f, e)
  ELSE \E g \in SameSymbol(evs, f) : \A h \in SameSymbol(evs, e) : g.job < h.job

(* A request looks for the symbol in the run's summary, which has none.    *)
UngroupedSymbol(i, e) == DefaultSymbol
PostedSymbol(i, e) == IF i \in ManualRuns THEN DefaultSymbol ELSE EventSymbol(e)

(* The default exchange of the forward_events call that posts e: a tick    *)
(* takes it from the first event of the symbol that has one.               *)
FirstTaggedExchange(i, evs, e, x) ==
  LET tagged == {f \in evs : Jobs[f.job].exchange # NoExchange}
  IN  IF i \in ManualRuns \/ tagged = {}
      THEN x = DefaultExchange
      ELSE \E f \in tagged : /\ \A g \in tagged : f.job <= g.job
                             /\ x = Jobs[f.job].exchange
IsCallExchange(i, evs, e, x) ==
  LET tagged == {f \in SameSymbol(evs, e) : Jobs[f.job].exchange # NoExchange}
  IN  IF i \in ManualRuns \/ tagged = {}
      THEN x = DefaultExchange
      ELSE \E f \in tagged : /\ \A g \in tagged : f.job <= g.job
                             /\ x = Jobs[f.job].exchange

(* The exchange of the order: the event's own, or the call's default.      *)
IsPostedExchange(i, evs, e, x) ==
  IF Jobs[e.job].exchange # NoExchange
  THEN x = Jobs[e.job].exchange
  ELSE IsCallExchange(i, evs, e, x)

(* _idempotency_key: script id, symbol, bar_index and bar_time (kind,      *)
(* direction and action are those of the script's one signal per bar).     *)
IdempotencyKey(o) ==
  << Jobs[o.event.job].script, o.symbol, o.event.index, o.event.bar >>

(* trade-worker: 200 and executed, or 409 when it has seen the key.        *)
Execute(o) ==
  accepted' = IF \E a \in accepted : IdempotencyKey(a) = IdempotencyKey(o)
              THEN accepted ELSE accepted \union {o}

(* forward_events awaits one POST after the other.                         *)
IsNextOrder(i, e) ==
  LET r == run[i] IN
  /\ r.pc = "orders"
  /\ e \in r.events \ r.sent
  /\ \A f \in r.events \ r.sent : ~PostedBefore(i, r.events, f, e)

PostOrder(i) ==
  \E e \in run[i].events, x \in Exchanges :
    /\ IsNextOrder(i, e)
    /\ IsPostedExchange(i, run[i].events, e, x)
    /\ Execute([event |-> e, symbol |-> PostedSymbol(i, e), exchange |-> x])
    /\ run' = [run EXCEPT ![i].sent = @ \union {e}]
    /\ UNCHANGED << closed, stored, deployed, cronState, alerted, failures,
                    persisted >>

(* An exception or another status: counted, never retried by this run.     *)
PostOrderFails(i) ==
  \E e \in run[i].events :
    /\ IsNextOrder(i, e)
    /\ MayFail
    /\ run' = [run EXCEPT ![i].sent = @ \union {e}]
    /\ UNCHANGED << closed, stored, deployed, cronState, accepted, alerted,
                    persisted >>

(* forward_alert_groups posts the run's alerts as one batch, after the     *)
(* orders; webhooks do not deduplicate.                                    *)
PostAlerts(i) ==
  LET r == run[i] IN
  /\ r.pc = "orders" /\ r.sent = r.events
  /\ alerted' = [a \in DOMAIN alerted |->
                   IF a \in r.alerts /\ alerted[a] < 2
                   THEN alerted[a] + 1 ELSE alerted[a]]
  /\ run' = [run EXCEPT ![i] = IdleRun]
  /\ UNCHANGED << closed, stored, deployed, cronState, accepted, failures,
                  persisted >>

----------------------------------------------------------------------------
(* A step of run i that is no failure.                                     *)
Progress(i) ==
  \/ SkipPair(i) \/ FetchKlines(i) \/ MergeBars(i) \/ PutBars(i)
  \/ SkipJob(i) \/ GetScript(i) \/ FetchBars(i)
  \/ SkipNoNewBar(i) \/ Evaluate(i) \/ SaveState(i)
  \/ PostOrder(i) \/ PostAlerts(i)

Failure(i) ==
  \/ Abort(i) \/ FeedFails(i) \/ FetchBarsFails(i) \/ EngineFails(i)
  \/ PostOrderFails(i)

Next ==
  \/ \E p \in Pairs : CloseBar(p)
  \/ \E s \in Scripts : DeployScript(s) \/ DeleteScript(s)
  \/ \E i \in CronRuns : StartCron(i)
  \/ \E i \in ManualRuns, force, refresh \in BOOLEAN :
       StartManual(i, force, refresh)
  \/ \E i \in Runs : Progress(i) \/ Failure(i)

(* Candles keep closing, the platform keeps firing the cron trigger, and   *)
(* an await that succeeds is resumed.  Failures are not fair: they are     *)
(* bounded by MaxFailures.                                                 *)
Fairness ==
  /\ \A p \in Pairs : WF_vars(CloseBar(p))
  /\ \A i \in CronRuns : WF_vars(StartCron(i))
  /\ \A i \in Runs : WF_vars(Progress(i))

Spec == Init /\ [][Next]_vars
FairSpec == Spec /\ Fairness

----------------------------------------------------------------------------
(* Properties.                                                             *)

(* No bar is stored, evaluated or traded on before its candle closed.      *)
NoLookahead ==
  /\ \A p \in Pairs : \A b \in stored[p] : b <= closed[p]
  /\ \A n \in JobNumbers : cronState[JobKey(n)] <= closed[Jobs[n].pair]
  /\ \A o \in accepted : o.event.bar <= closed[Jobs[o.event.job].pair]

(* An order is executed, and an alert delivered, only after a bar at least *)
(* as new as its own was recorded as the job's last bar: put_cron_state    *)
(* comes first, so a run that dies before it forwards nothing twice.       *)
ForwardedAfterSave ==
  /\ \A o \in accepted :
       \E b \in persisted[JobKey(o.event.job)] : o.event.bar <= b
  /\ \A a \in JobKeys \X Bars : alerted[a] > 0 => a[2] \in persisted[a[1]]

(* The engine evaluates a job only when its last closed bar advanced, that *)
(* is on a bar newer than every bar recorded for the job before, unless    *)
(* the run is forced.                                                      *)
OnlyOnNewBar ==
  [][\A i \in Runs :
       run[i].pc = "state" /\ run'[i].pc = "save" /\ ~run[i].force =>
         \A b \in persisted[JobKey(run[i].job)] : b < run[i].last]_vars

(* The alert of a bar is delivered at most once.                           *)
AlertAtMostOnce == \A a \in JobKeys \X Bars : alerted[a] <= 1

(* The order of a script on a pair for a bar is executed at most once,     *)
(* however often the bar is evaluated and its event sent again.            *)
OrderAtMostOnce ==
  \A o, q \in accepted :
    JobKey(o.event.job) = JobKey(q.event.job) /\ o.event.bar = q.event.bar
      => o = q

(* An order is placed on the symbol whose candles produced it.             *)
OrderOnItsSymbol == \A o \in accepted : o.symbol = EventSymbol(o.event)

(* An order goes to its job's exchange, or to DEFAULT_EXCHANGE when its    *)
(* job names none, though one tick posts the orders of all jobs (jobs of   *)
(* one symbol must agree on the exchange, see IsCallExchange).             *)
OrderOnItsExchange ==
  \A o \in accepted :
    o.exchange = IF Jobs[o.event.job].exchange = NoExchange
                 THEN DefaultExchange ELSE Jobs[o.event.job].exchange

Quiet == \A i \in Runs : run[i].pc = "idle"

(* When nothing has failed and no run is in flight, every signal in the    *)
(* window of the last evaluated bar has been executed: bars between two    *)
(* ticks are caught up with.                                               *)
OrdersDelivered ==
  failures = 0 /\ Quiet =>
    \A n \in JobNumbers :
      \A b \in Signals[Jobs[n].script] \intersect stored[Jobs[n].pair] :
        /\ Jobs[n].forward
        /\ b <= cronState[JobKey(n)]
        /\ b > cronState[JobKey(n)] - Jobs[n].maxBars
        => \E o \in accepted : JobKey(o.event.job) = JobKey(n) /\ o.event.bar = b

(* When nothing has failed and no run is in flight, the alert of every bar *)
(* recorded as evaluated has been delivered.                               *)
AlertsDelivered ==
  failures = 0 /\ Quiet =>
    \A n \in JobNumbers :
      \A b \in persisted[JobKey(n)] \intersect Signals[Jobs[n].script] :
        alerted[<< JobKey(n), b >>] > 0

(* After the last candle, every enabled job whose script stays deployed    *)
(* ends with that candle recorded, in spite of finitely many failures, of  *)
(* stale writes by slow runs and of jobs before it that cannot run.        *)
CaughtUp ==
  \A n \in JobNumbers :
    Jobs[n].enabled /\ <>[](Jobs[n].script \in deployed)
      => <>[](cronState[JobKey(n)] = MaxBar)

=============================================================================
