------------------------------ MODULE BarStore ------------------------------
(***************************************************************************)
(* The candles of one (symbol, timeframe) pair in R2: the market feed that *)
(* fetches and filters them, ingest_ohlcv_to_r2 that merges them into one  *)
(* file per year, and fetch_ohlcv_from_r2 that reads the files back.       *)
(*                                                                         *)
(* A file is read whole and written whole, with an await in between and no *)
(* conditional write.  Every await ends an action.                         *)
(*                                                                         *)
(* A bar is abstracted to the instant whose prices it carries: the bar of  *)
(* candle k is final when that instant is the candle's close.              *)
(***************************************************************************)
EXTENDS Integers, FiniteSets

CONSTANTS
  MaxCandle,      \* bound: number of candles
  OpenAt,         \* when each candle opens; candle k closes at OpenAt[k + 1]
  YearOf,         \* the calendar year, and so the file, of each candle
  Interval,       \* _TF_MS of the timeframe
  FeedLimit,      \* candles asked of the exchange
  FeedRuns,       \* slots for cron ticks and POST /feed/refresh requests
  HistoryRuns,    \* slots for POST /ingest of scripts/fetch_and_ingest.py
  BackfillRuns,   \* slots for POST /ingest of closed candles of any client
  Readers,        \* slots for fetch_ohlcv_from_r2
  MaxTime,        \* bound: the clock stops there
  MaxPosts,       \* bound: POST /ingest requests of a behaviour
  MaxFailures     \* bound: failed HTTP and R2 calls of a behaviour

Candles == 1..MaxCandle
Times == 0..MaxTime
Years == {YearOf[k] : k \in Candles}
Writers == FeedRuns \union HistoryRuns \union BackfillRuns

ASSUME BoundsAssumption ==
  MaxCandle \in Nat /\ MaxTime \in Nat /\ MaxPosts \in Nat /\ MaxFailures \in Nat

ASSUME CalendarAssumption ==
  /\ OpenAt \in [1..(MaxCandle + 1) -> Nat \ {0}]
  /\ \A j, k \in 1..(MaxCandle + 1) : j < k => OpenAt[j] < OpenAt[k]
  /\ YearOf \in [Candles -> Nat]
  /\ \A j, k \in Candles : j < k => YearOf[j] <= YearOf[k]
  /\ Interval \in Nat \ {0} /\ FeedLimit \in Nat \ {0}

ASSUME SlotsAssumption == FeedRuns \intersect (HistoryRuns \union BackfillRuns) = {}

VARIABLES
  now,        \* the time
  stored,     \* the year files: the bar of each candle, Absent when there is none
  writer,     \* what each feed run and ingest request is doing
  reader,     \* what each reader is doing, and what it has read
  posts,      \* ingest requests so far
  failures,   \* failures so far
  overlapped, \* history: a file was read while another writer was to write it
  unsettled,  \* history: candles that were forming in an answer or a request
  batchOf     \* history: the ascending batch that first stored a candle

vars == << now, stored, writer, reader, posts, failures, overlapped, unsettled,
           batchOf >>

----------------------------------------------------------------------------
Absent == 0
NoBars == [k \in Candles |-> Absent]
Bars == [Candles -> Times]          \* a list of bars: at most one per candle

CandlesIn(bars) == {k \in Candles : bars[k] # Absent}

Opened(t) == {k \in Candles : OpenAt[k] <= t}
Closed(k, t) == OpenAt[k + 1] <= t

(* The bar of candle k as an exchange shows it at time t.                  *)
BarAt(k, t) == IF Closed(k, t) THEN OpenAt[k + 1] ELSE t
BarsAt(ks, t) == [k \in Candles |-> IF k \in ks THEN BarAt(k, t) ELSE Absent]

(* The newest n candles of ks.                                             *)
Newest(ks, n) == {k \in ks : Cardinality({j \in ks : j > k}) < n}

Restricted(bars, ks) == [k \in Candles |-> IF k \in ks THEN bars[k] ELSE Absent]

(* The candles of the file of year y.                                      *)
FileOf(y) == {k \in Candles : YearOf[k] = y}

YearsOf(bars) == {YearOf[k] : k \in CandlesIn(bars)}

(* only_closed_bars, by the worker's clock t.                              *)
ClosesNext(bars, t) ==
  Restricted(bars, {k \in Candles : OpenAt[k] + Interval <= t + 1})
ClosesEarlier(bars, t) ==
  Restricted(bars, {k \in Candles : OpenAt[k] + Interval < t})
OnlyClosed(bars, t) ==
  Restricted(bars, {k \in Candles : OpenAt[k] + Interval <= t})

(* The merge of a file and a batch: by time, and the bar that is there     *)
(* already wins.                                                           *)
BatchWins(file, batch) ==
  [k \in Candles |-> IF batch[k] # Absent THEN batch[k] ELSE file[k]]
Merged(file, batch) ==
  [k \in Candles |-> IF file[k] # Absent THEN file[k] ELSE batch[k]]

----------------------------------------------------------------------------
(* A writer: the batch it ingests, the years left to write, and the file   *)
(* content it is about to put.                                             *)
IdleWriter == [pc |-> "idle", batch |-> NoBars, sorted |-> TRUE, todo |-> {},
               year |-> 0, file |-> NoBars]

WriterRecord ==
  [pc: {"idle", "answer", "get", "put"}, batch: Bars, sorted: BOOLEAN,
   todo: SUBSET Years, year: Years \union {0}, file: Bars]

IdleReader == [pc |-> "idle", todo |-> {}, got |-> NoBars]
ReaderRecord == [pc: {"idle", "read"}, todo: SUBSET Years, got: Bars]

TypeOK ==
  /\ now \in Times
  /\ stored \in Bars
  /\ writer \in [Writers -> WriterRecord]
  /\ reader \in [Readers -> ReaderRecord]
  /\ posts \in 0..MaxPosts
  /\ failures \in 0..MaxFailures
  /\ overlapped \in BOOLEAN
  /\ unsettled \subseteq Candles
  /\ batchOf \in [Candles -> SUBSET Candles]

MayPost == posts < MaxPosts /\ posts' = posts + 1
MayFail == failures < MaxFailures /\ failures' = failures + 1

Init ==
  /\ now = 0
  /\ stored = NoBars
  /\ writer = [i \in Writers |-> IdleWriter]
  /\ reader = [i \in Readers |-> IdleReader]
  /\ posts = 0
  /\ failures = 0
  /\ overlapped = FALSE
  /\ unsettled = {}
  /\ batchOf = [k \in Candles |-> {}]

(* for year, year_bars in by_year.items(): on to the next file, or done.   *)
YearAfter(w) == IF w.todo = {} THEN IdleWriter
                ELSE [w EXCEPT !.pc = "get", !.year = @ + 1, !.file = NoBars]
NextYear(w) == IF w.todo = {} THEN IdleWriter
               ELSE [w EXCEPT !.pc = "get", !.year = 0, !.file = NoBars]

(* ingest_ohlcv_to_r2 with a list of bars; none is no work at all.         *)
Ingest(batch, sorted) ==
  NextYear([IdleWriter EXCEPT !.batch = batch, !.sorted = sorted,
                              !.todo = YearsOf(batch)])

Tick ==
  /\ now < MaxTime
  /\ now' = now + 1
  /\ UNCHANGED << stored, writer, reader, posts, failures, overlapped,
                  unsettled, batchOf >>

----------------------------------------------------------------------------
(* The market feed.                                                        *)

(* The exchange answers with its newest candles, the forming one included. *)
RequestKlines(i) ==
  LET bars == BarsAt(Newest(Opened(now), FeedLimit), now)
  IN  /\ i \in FeedRuns /\ writer[i].pc = "idle"
      /\ writer' = [writer EXCEPT ![i] = [IdleWriter EXCEPT !.pc = "answer",
                                                            !.batch = bars]]
      /\ UNCHANGED << now, stored, reader, posts, failures, overlapped,
                      unsettled, batchOf >>

(* The answer arrives: forming candles are dropped by the worker's clock,  *)
(* and nothing left is an error ("empty").                                 *)
ReceiveKlines(i) ==
  LET batch == OnlyClosed(writer[i].batch, now)
  IN  /\ writer[i].pc = "answer"
      /\ writer' = [writer EXCEPT ![i] = Ingest(batch, TRUE)]
      /\ unsettled' = unsettled \union
           {k \in CandlesIn(writer[i].batch) :
              writer[i].batch[k] < OpenAt[k + 1] /\ Closed(k, now)}
      /\ UNCHANGED << now, stored, reader, posts, failures, overlapped,
                      batchOf >>

(* POST /ingest of scripts/fetch_and_ingest.py: every candle from a start  *)
(* time to now, in ascending order.                                        *)
PostHistory(i) ==
  \E from \in Opened(now) :
    LET ks == {k \in Opened(now) : k >= from}
    IN  /\ i \in HistoryRuns /\ writer[i].pc = "idle" /\ MayPost
        /\ writer' = [writer EXCEPT ![i] = Ingest(BarsAt(ks, now), TRUE)]
        /\ unsettled' = unsettled \union {k \in ks : ~Closed(k, now)}
        /\ UNCHANGED << now, stored, reader, failures, overlapped, batchOf >>

(* POST /ingest of another client: closed candles, in any order.           *)
PostBackfill(i) ==
  \E ks \in SUBSET {k \in Candles : Closed(k, now)} :
    /\ i \in BackfillRuns /\ writer[i].pc = "idle" /\ MayPost
    /\ ks # {}
    /\ writer' = [writer EXCEPT ![i] = Ingest(BarsAt(ks, now), FALSE)]
    /\ UNCHANGED << now, stored, reader, failures, overlapped, unsettled,
                    batchOf >>

----------------------------------------------------------------------------
(* ingest_ohlcv_to_r2, one year after the other.                           *)

(* The years come in the order in which the list first names them.         *)
IsNextYear(w, y) == y \in w.todo /\ (w.sorted => \A z \in w.todo : y <= z)

GetFile(i) ==
  \E y \in writer[i].todo :
    /\ writer[i].pc = "get"
    /\ IsNextYear(writer[i], y)
    /\ writer' = [writer EXCEPT ![i].pc = "put", ![i].year = y,
                    ![i].file = Merged(Restricted(stored, FileOf(y)),
                                       Restricted(writer[i].batch, FileOf(y)))]
    /\ overlapped' = (overlapped \/ \E j \in Writers :
                        writer[j].pc = "put" /\ writer[j].year = y)
    /\ UNCHANGED << now, stored, reader, posts, failures, unsettled,
                    batchOf >>

PutFile(i) ==
  LET w == writer[i] IN
  /\ w.pc = "put"
  /\ stored' = [k \in Candles |-> IF k \in FileOf(w.year) THEN w.file[k]
                                  ELSE stored[k]]
  /\ writer' = [writer EXCEPT ![i] = NextYear([w EXCEPT !.todo = @ \ {w.year}])]
  /\ batchOf' = [k \in Candles |->
                   IF stored[k] = Absent /\ stored'[k] # Absent /\ w.sorted
                   THEN CandlesIn(w.batch) ELSE batchOf[k]]
  /\ UNCHANGED << now, reader, posts, failures, overlapped, unsettled >>

(* A failed call to the exchange or to R2: the pair's error row, or a 500. *)
(* Years written before stay written, and years after are not tried.       *)
WriterFails(i) ==
  /\ writer[i].pc # "idle"
  /\ MayFail
  /\ writer' = [writer EXCEPT ![i] = IdleWriter]
  /\ UNCHANGED << now, stored, reader, posts, overlapped, unsettled,
                  batchOf >>

----------------------------------------------------------------------------
(* fetch_ohlcv_from_r2: from the current year back.                        *)

StartRead(i) ==
  /\ reader[i].pc = "idle" /\ Opened(now) # {}
  /\ reader' = [reader EXCEPT ![i] =
                 [IdleReader EXCEPT !.pc = "read",
                                    !.todo = {YearOf[k] : k \in Opened(now)}]]
  /\ UNCHANGED << now, stored, writer, posts, failures, overlapped, unsettled,
                  batchOf >>

IsOldestYear(r, y) == y \in r.todo /\ \A z \in r.todo : y <= z
IsReadYear(r, y) == y \in r.todo /\ \A z \in r.todo : z <= y

ReadFile(i) ==
  \E y \in reader[i].todo :
    /\ reader[i].pc = "read"
    /\ IsReadYear(reader[i], y)
    /\ reader' = [reader EXCEPT ![i].todo = @ \ {y},
                    ![i].got = [k \in Candles |-> IF k \in FileOf(y)
                                                  THEN stored[k] ELSE @[k]]]
    /\ UNCHANGED << now, stored, writer, posts, failures, overlapped,
                    unsettled, batchOf >>

(* The list is complete and the caller goes on with it, or the read raised. *)
EndRead(i) ==
  /\ reader[i].pc = "read"
  /\ reader[i].todo = {}
  /\ reader' = [reader EXCEPT ![i] = IdleReader]
  /\ UNCHANGED << now, stored, writer, posts, failures, overlapped, unsettled,
                  batchOf >>

ReadFails(i) ==
  /\ reader[i].pc = "read"
  /\ MayFail
  /\ reader' = [reader EXCEPT ![i] = IdleReader]
  /\ UNCHANGED << now, stored, writer, posts, overlapped, unsettled,
                  batchOf >>

----------------------------------------------------------------------------
Work(i) == ReceiveKlines(i) \/ GetFile(i) \/ PutFile(i)
Read(i) == ReadFile(i) \/ EndRead(i)

Next ==
  \/ Tick
  \/ \E i \in Writers :
       \/ RequestKlines(i) \/ PostHistory(i) \/ PostBackfill(i)
       \/ Work(i) \/ WriterFails(i)
  \/ \E i \in Readers : StartRead(i) \/ Read(i) \/ ReadFails(i)

(* Time passes, the feed is run again and again, and what was begun goes   *)
(* on.  Clients need not post, and nobody needs to read.                   *)
Fairness ==
  /\ WF_vars(Tick)
  /\ \A i \in FeedRuns : WF_vars(RequestKlines(i))
  /\ \A i \in Writers : WF_vars(Work(i))
  /\ \A i \in Readers : WF_vars(Read(i))

Spec == Init /\ [][Next]_vars
FairSpec == Spec /\ Fairness

----------------------------------------------------------------------------
(* Properties.                                                             *)

(* A bar in R2 carries the prices its candle closed with, unless the       *)
(* candle closed while the feed's answer was under way, or a client posted *)
(* it while it was forming: the filter lets no other forming bar in, and   *)
(* no writer mixes up bars.                                                *)
FinalUnlessForming ==
  \A k \in CandlesIn(stored) \ unsettled : stored[k] = OpenAt[k + 1]

(* As long as no two writers overlap on a file, a bar in R2 is never lost  *)
(* and never changed, by no sequence of feeds, backfills and failures.     *)
AppendOnly ==
  [][~overlapped' => \A k \in CandlesIn(stored) : stored'[k] = stored[k]]_vars

(* As long as no two writers overlap on a file, a reader that runs while   *)
(* an ascending batch is being written over several years never sees a     *)
(* candle of the batch without the older ones: the writer goes forward in  *)
(* time and the reader backward.                                           *)
ReadsNoHole ==
  ~overlapped =>
    \A i \in Readers : reader[i].pc = "read" /\ reader[i].todo = {} =>
      \A k \in CandlesIn(reader[i].got) :
        \A j \in batchOf[k] : j < k => j \in CandlesIn(reader[i].got)

(* When clients stop posting, the feed settles: the candles it asks for    *)
(* last end up in R2 for good, in spite of failures and of writers that    *)
(* overwrote each other's files.                                           *)
Settles ==
  <>[](\A i \in HistoryRuns \union BackfillRuns : writer[i].pc = "idle")
    => <>[](\A k \in Newest(Opened(MaxTime), FeedLimit) :
              Closed(k, MaxTime) => stored[k] # Absent)

=============================================================================
