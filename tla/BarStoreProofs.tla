--------------------------- MODULE BarStoreProofs ---------------------------
(***************************************************************************)
(* What holds of BarStore for any calendar, interval, number of candles,   *)
(* writers and readers, and any number of requests and failures.           *)
(***************************************************************************)
EXTENDS BarStore, TLAPS

(* The calendar, unfolded for one candle.                                  *)
LEMMA CandleFacts ==
  ASSUME NEW k \in Candles
  PROVE  /\ OpenAt[k] \in Nat \ {0} /\ OpenAt[k + 1] \in Nat \ {0}
         /\ OpenAt[k] < OpenAt[k + 1]
         /\ YearOf[k] \in Years
<1>1. k \in 1..(MaxCandle + 1) /\ k + 1 \in 1..(MaxCandle + 1) /\ k < k + 1
  BY BoundsAssumption DEF Candles
<1> QED
  BY <1>1, CalendarAssumption DEF Years

----------------------------------------------------------------------------
(* Types.                                                                  *)

LEMMA BarsTypes ==
  /\ NoBars \in Bars
  /\ \A bars \in Bars : \A ks : Restricted(bars, ks) \in Bars
  /\ \A bars \in Bars : CandlesIn(bars) \subseteq Candles
  /\ \A file, batch \in Bars : Merged(file, batch) \in Bars
  /\ \A bars \in Bars : \A t : OnlyClosed(bars, t) \in Bars
  /\ \A bars \in Bars : YearsOf(bars) \subseteq Years
<1>1. Absent \in Times
  BY BoundsAssumption DEF Absent, Times
<1>2. NoBars \in Bars
  BY <1>1 DEF NoBars, Bars
<1>3. \A bars \in Bars : \A ks : Restricted(bars, ks) \in Bars
  BY <1>1 DEF Restricted, Bars
<1>4. \A bars \in Bars : CandlesIn(bars) \subseteq Candles
  BY DEF CandlesIn
<1>5. \A file, batch \in Bars : Merged(file, batch) \in Bars
  BY DEF Merged, Bars
<1>6. \A bars \in Bars : \A t : OnlyClosed(bars, t) \in Bars
  BY <1>3 DEF OnlyClosed
<1>7. \A bars \in Bars : YearsOf(bars) \subseteq Years
  BY <1>4, CandleFacts DEF YearsOf
<1> QED
  BY <1>2, <1>3, <1>4, <1>5, <1>6, <1>7

(* What the exchange shows of opened candles is a list of bars.            *)
LEMMA BarsAtType ==
  ASSUME NEW t \in Times, NEW ks \in SUBSET Opened(t)
  PROVE  BarsAt(ks, t) \in Bars
<1>1. \A k \in Candles : Closed(k, t) => OpenAt[k + 1] \in Times
  BY CandleFacts, BoundsAssumption DEF Closed, Times
<1>2. Absent \in Times
  BY BoundsAssumption DEF Absent, Times
<1> QED
  BY <1>1, <1>2 DEF BarsAt, BarAt, Bars

(* Moving on to the next file, or ending, keeps a writer well formed, and  *)
(* so does the start of an ingest.                                         *)
LEMMA WriterTypes ==
  /\ IdleWriter \in WriterRecord
  /\ \A w \in WriterRecord : NextYear(w) \in WriterRecord
  /\ \A batch \in Bars, sorted \in BOOLEAN : Ingest(batch, sorted) \in WriterRecord
<1>1. IdleWriter \in WriterRecord
  BY BarsTypes DEF IdleWriter, WriterRecord
<1>2. \A w \in WriterRecord : NextYear(w) \in WriterRecord
  BY <1>1, BarsTypes DEF NextYear, WriterRecord
<1>3. ASSUME NEW batch \in Bars, NEW sorted \in BOOLEAN
      PROVE  [IdleWriter EXCEPT !.batch = batch, !.sorted = sorted,
                                !.todo = YearsOf(batch)] \in WriterRecord
  <2>1. YearsOf(batch) \in SUBSET Years
    BY BarsTypes
  <2> QED
    BY <1>1, <2>1 DEF WriterRecord
<1> QED
  BY <1>1, <1>2, <1>3 DEF Ingest

LEMMA ReaderTypes == IdleReader \in ReaderRecord
BY BarsTypes DEF IdleReader, ReaderRecord

LEMMA InitType == Init => TypeOK
<1> SUFFICES ASSUME Init PROVE TypeOK
  OBVIOUS
<1>1. 0 \in Times /\ posts \in 0..MaxPosts /\ failures \in 0..MaxFailures
  BY BoundsAssumption DEF Init, Times
<1> QED
  BY <1>1, BarsTypes, WriterTypes, ReaderTypes DEF Init, TypeOK

(* The steps that give a writer its batch.                                 *)
LEMMA BatchType ==
  ASSUME TypeOK, NEW i \in Writers,
         RequestKlines(i) \/ ReceiveKlines(i) \/ PostHistory(i) \/ PostBackfill(i)
  PROVE  TypeOK'
<1>1. now \in Times /\ writer[i] \in WriterRecord
  BY DEF TypeOK
<1>2. CASE RequestKlines(i)
  <2> DEFINE bars == BarsAt(Newest(Opened(now), FeedLimit), now)
  <2>1. bars \in Bars
    BY <1>1, BarsAtType DEF Newest
  <2>2. [IdleWriter EXCEPT !.pc = "answer", !.batch = bars] \in WriterRecord
    BY <2>1, WriterTypes DEF WriterRecord
  <2> QED
    BY <1>2, <2>2 DEF RequestKlines, TypeOK
<1>3. CASE ReceiveKlines(i)
  <2>1. OnlyClosed(writer[i].batch, now) \in Bars
    BY <1>1, BarsTypes DEF WriterRecord
  <2>2. Ingest(OnlyClosed(writer[i].batch, now), TRUE) \in WriterRecord
    BY <2>1, WriterTypes
  <2>3. unsettled' \subseteq Candles
    BY <1>1, <1>3, BarsTypes DEF ReceiveKlines, TypeOK, WriterRecord
  <2> QED
    BY <1>3, <2>2, <2>3 DEF ReceiveKlines, TypeOK
<1>4. CASE PostHistory(i)
  <2>1. PICK from \in Opened(now) :
          LET ks == {k \in Opened(now) : k >= from}
          IN  /\ MayPost
              /\ writer' = [writer EXCEPT ![i] = Ingest(BarsAt(ks, now), TRUE)]
              /\ unsettled' = unsettled \union {k \in ks : ~Closed(k, now)}
              /\ UNCHANGED << now, stored, reader, failures, overlapped, batchOf >>
    BY <1>4 DEF PostHistory
  <2> DEFINE ks == {k \in Opened(now) : k >= from}
  <2>2. Ingest(BarsAt(ks, now), TRUE) \in WriterRecord
    <3>1. BarsAt(ks, now) \in Bars
      BY <1>1, BarsAtType
    <3> QED
      BY <3>1, WriterTypes
  <2>3. writer' \in [Writers -> WriterRecord]
    BY <2>1, <2>2 DEF TypeOK
  <2>4. unsettled' \subseteq Candles
    BY <2>1 DEF TypeOK, Opened
  <2>5. posts' \in 0..MaxPosts
    BY <2>1, BoundsAssumption DEF MayPost, TypeOK
  <2> QED
    BY <2>1, <2>3, <2>4, <2>5 DEF TypeOK
<1>5. CASE PostBackfill(i)
  <2>1. PICK ks \in SUBSET {k \in Candles : Closed(k, now)} :
          /\ MayPost
          /\ writer' = [writer EXCEPT ![i] = Ingest(BarsAt(ks, now), FALSE)]
          /\ UNCHANGED << now, stored, reader, failures, overlapped, unsettled,
                          batchOf >>
    BY <1>5 DEF PostBackfill
  <2>2. Ingest(BarsAt(ks, now), FALSE) \in WriterRecord
    <3>1. ks \subseteq Opened(now)
      BY <1>1, CandleFacts DEF Opened, Closed, Times
    <3>2. BarsAt(ks, now) \in Bars
      BY <1>1, <3>1, BarsAtType
    <3> QED
      BY <3>2, WriterTypes
  <2>3. writer' \in [Writers -> WriterRecord]
    BY <2>1, <2>2 DEF TypeOK
  <2>4. posts' \in 0..MaxPosts
    BY <2>1, BoundsAssumption DEF MayPost, TypeOK
  <2> QED
    BY <2>1, <2>3, <2>4 DEF TypeOK
<1> QED
  BY <1>2, <1>3, <1>4, <1>5

(* The steps of ingest_ohlcv_to_r2.                                        *)
LEMMA IngestType ==
  ASSUME TypeOK, NEW i \in Writers, GetFile(i) \/ PutFile(i) \/ WriterFails(i)
  PROVE  TypeOK'
<1>1. writer[i] \in WriterRecord
  BY DEF TypeOK
<1>2. CASE GetFile(i)
  <2>1. PICK y \in writer[i].todo :
          writer' = [writer EXCEPT ![i].pc = "put", ![i].year = y,
                      ![i].file = Merged(Restricted(stored, FileOf(y)),
                                         Restricted(writer[i].batch, FileOf(y)))]
    BY <1>2 DEF GetFile
  <2> DEFINE file == Merged(Restricted(stored, FileOf(y)),
                            Restricted(writer[i].batch, FileOf(y)))
  <2>2. file \in Bars
    BY <1>1, BarsTypes DEF TypeOK, WriterRecord
  <2>3. [writer[i] EXCEPT !.pc = "put", !.year = y, !.file = file] \in WriterRecord
    BY <1>1, <2>1, <2>2 DEF WriterRecord
  <2>4. writer' = [writer EXCEPT ![i] = [writer[i] EXCEPT !.pc = "put",
                                           !.year = y, !.file = file]]
    BY <2>1 DEF TypeOK
  <2>5. writer' \in [Writers -> WriterRecord]
    BY <2>3, <2>4 DEF TypeOK
  <2>6. overlapped' \in BOOLEAN
    BY <1>2 DEF GetFile, TypeOK
  <2> QED
    BY <1>2, <2>5, <2>6 DEF GetFile, TypeOK
<1>3. CASE PutFile(i)
  <2>1. [writer[i] EXCEPT !.todo = @ \ {writer[i].year}] \in WriterRecord
    BY <1>1 DEF WriterRecord
  <2>2. writer' \in [Writers -> WriterRecord]
    BY <1>3, <2>1, WriterTypes DEF PutFile, TypeOK
  <2>3. stored' \in Bars
    BY <1>1, <1>3 DEF PutFile, TypeOK, WriterRecord, Bars
  <2>4. batchOf' \in [Candles -> SUBSET Candles]
    <3>1. CandlesIn(writer[i].batch) \in SUBSET Candles
      BY DEF CandlesIn
    <3> QED
      BY <1>3, <3>1 DEF PutFile, TypeOK
  <2> QED
    BY <1>3, <2>2, <2>3, <2>4 DEF PutFile, TypeOK
<1>4. CASE WriterFails(i)
  BY <1>4, WriterTypes, BoundsAssumption DEF WriterFails, MayFail, TypeOK
<1> QED
  BY <1>2, <1>3, <1>4

(* The steps of fetch_ohlcv_from_r2.                                       *)
LEMMA ReadType ==
  ASSUME TypeOK, NEW i \in Readers,
         StartRead(i) \/ ReadFile(i) \/ EndRead(i) \/ ReadFails(i)
  PROVE  TypeOK'
<1>1. reader[i] \in ReaderRecord
  BY DEF TypeOK
<1>2. CASE StartRead(i)
  <2>1. {YearOf[k] : k \in Opened(now)} \subseteq Years
    BY DEF Opened, Years
  <2>2. [IdleReader EXCEPT !.pc = "read", !.todo = {YearOf[k] : k \in Opened(now)}]
          \in ReaderRecord
    BY <2>1, ReaderTypes DEF ReaderRecord
  <2> QED
    BY <1>2, <2>2 DEF StartRead, TypeOK
<1>3. CASE ReadFile(i)
  <2>1. PICK y \in reader[i].todo :
          reader' = [reader EXCEPT ![i].todo = @ \ {y},
                      ![i].got = [k \in Candles |-> IF k \in FileOf(y)
                                                    THEN stored[k] ELSE @[k]]]
    BY <1>3 DEF ReadFile
  <2> DEFINE got == [k \in Candles |-> IF k \in FileOf(y) THEN stored[k]
                                       ELSE reader[i].got[k]]
  <2>2. got \in Bars
    BY <1>1 DEF TypeOK, ReaderRecord, Bars
  <2>3. [reader[i] EXCEPT !.todo = @ \ {y}, !.got = got] \in ReaderRecord
    BY <1>1, <2>2 DEF ReaderRecord
  <2>4. reader' = [reader EXCEPT ![i] = [reader[i] EXCEPT !.todo = @ \ {y},
                                                          !.got = got]]
    BY <2>1 DEF TypeOK
  <2> QED
    BY <1>3, <2>3, <2>4 DEF ReadFile, TypeOK
<1>4. CASE EndRead(i)
  BY <1>4, ReaderTypes DEF EndRead, TypeOK
<1>5. CASE ReadFails(i)
  BY <1>5, ReaderTypes, BoundsAssumption DEF ReadFails, MayFail, TypeOK
<1> QED
  BY <1>2, <1>3, <1>4, <1>5

LEMMA NextType == TypeOK /\ [Next]_vars => TypeOK'
<1> SUFFICES ASSUME TypeOK, [Next]_vars PROVE TypeOK'
  OBVIOUS
<1>1. CASE Tick
  BY <1>1, BoundsAssumption DEF Tick, TypeOK, Times
<1>2. CASE \E i \in Writers : \/ RequestKlines(i) \/ ReceiveKlines(i)
                              \/ PostHistory(i) \/ PostBackfill(i)
  BY <1>2, BatchType
<1>3. CASE \E i \in Writers : GetFile(i) \/ PutFile(i) \/ WriterFails(i)
  BY <1>3, IngestType
<1>4. CASE \E i \in Readers : StartRead(i) \/ ReadFile(i) \/ EndRead(i) \/ ReadFails(i)
  BY <1>4, ReadType
<1>5. CASE UNCHANGED vars
  BY <1>5 DEF vars, TypeOK
<1> QED
  BY <1>1, <1>2, <1>3, <1>4, <1>5 DEF Next, Work, Read

(* Types: every writer holds lists of bars of known candles and every file *)
(* it has yet to write is the file of a year, whatever fails when.         *)
THEOREM StoreTypeCorrect == Spec => []TypeOK
<1> QED
  BY InitType, NextType, PTL DEF Spec

----------------------------------------------------------------------------
(* Bars differ from their candles only where a candle was forming.         *)

(* No candle lasts longer than the interval the filter adds to its open.   *)
NoLongCandle == \A k \in Candles : OpenAt[k + 1] <= OpenAt[k] + Interval

(* A list whose bars are final, but for candles known to be unsettled.     *)
Final(bars, except) ==
  \A k \in CandlesIn(bars) \ except : bars[k] = OpenAt[k + 1]

(* What a writer holds between its awaits.                                 *)
HeldOK(w, except) ==
  /\ w.pc = "answer" =>
       \A k \in CandlesIn(w.batch) : w.batch[k] <= OpenAt[k + 1]
  /\ w.pc \in {"get", "put"} => Final(w.batch, except)
  /\ w.pc = "put" => Final(w.file, except)

SettledOK ==
  /\ Final(stored, unsettled)
  /\ \A i \in Writers : HeldOK(writer[i], unsettled)

(* Operations on lists of bars keep them final.                            *)
LEMMA FinalLists ==
  ASSUME NEW except
  PROVE  /\ \A bars \in Bars : \A ks :
              Final(bars, except) => Final(Restricted(bars, ks), except)
         /\ \A file, batch \in Bars :
              Final(file, except) /\ Final(batch, except)
                => Final(Merged(file, batch), except)
         /\ \A bars \in Bars : \A more :
              Final(bars, except) => Final(bars, except \union more)
<1>1. \A bars \in Bars : \A ks :
        Final(bars, except) => Final(Restricted(bars, ks), except)
  BY DEF Final, Restricted, CandlesIn
<1>2. \A file, batch \in Bars :
        Final(file, except) /\ Final(batch, except)
          => Final(Merged(file, batch), except)
  BY DEF Final, Merged, CandlesIn
<1>3. \A bars \in Bars : \A more :
        Final(bars, except) => Final(bars, except \union more)
  BY DEF Final, CandlesIn
<1> QED
  BY <1>1, <1>2, <1>3

(* A writer that begins or goes on to its next file holds what it held.    *)
LEMMA HeldByWriters ==
  ASSUME NEW except
  PROVE  /\ HeldOK(IdleWriter, except)
         /\ \A w \in WriterRecord :
              Final(w.batch, except) => HeldOK(NextYear(w), except)
         /\ \A batch \in Bars, sorted \in BOOLEAN :
              Final(batch, except) => HeldOK(Ingest(batch, sorted), except)
<1>1. HeldOK(IdleWriter, except)
  BY DEF HeldOK, IdleWriter
<1>2. \A w \in WriterRecord :
        Final(w.batch, except) => HeldOK(NextYear(w), except)
  BY <1>1 DEF NextYear, HeldOK, WriterRecord
<1>3. ASSUME NEW batch \in Bars, NEW sorted \in BOOLEAN, Final(batch, except)
      PROVE  HeldOK(Ingest(batch, sorted), except)
  <2> DEFINE w == [IdleWriter EXCEPT !.batch = batch, !.sorted = sorted,
                                     !.todo = YearsOf(batch)]
  <2>1. w \in WriterRecord /\ w.batch = batch
    <3>1. YearsOf(batch) \in SUBSET Years
      BY BarsTypes
    <3> QED
      BY <3>1, WriterTypes DEF WriterRecord, IdleWriter
  <2> QED
    BY <1>2, <1>3, <2>1 DEF Ingest
<1> QED
  BY <1>1, <1>2, <1>3

(* More unsettled candles leave every list final.                          *)
LEMMA MoreUnsettled ==
  ASSUME TypeOK, SettledOK, NEW more
  PROVE  /\ Final(stored, unsettled \union more)
         /\ \A i \in Writers : HeldOK(writer[i], unsettled \union more)
<1>1. \A i \in Writers : writer[i].batch \in Bars /\ writer[i].file \in Bars
  BY DEF TypeOK, WriterRecord
<1> QED
  BY <1>1, FinalLists DEF SettledOK, HeldOK, TypeOK

(* What the exchange shows is at most as old as the candle's close, and    *)
(* final for closed candles.                                               *)
LEMMA ShownBars ==
  ASSUME NEW t \in Times, NEW ks \in SUBSET Candles
  PROVE  \A k \in CandlesIn(BarsAt(ks, t)) :
           /\ k \in ks
           /\ BarsAt(ks, t)[k] <= OpenAt[k + 1]
           /\ Closed(k, t) => BarsAt(ks, t)[k] = OpenAt[k + 1]
<1> SUFFICES ASSUME NEW k \in CandlesIn(BarsAt(ks, t))
             PROVE  /\ k \in ks
                    /\ BarsAt(ks, t)[k] <= OpenAt[k + 1]
                    /\ Closed(k, t) => BarsAt(ks, t)[k] = OpenAt[k + 1]
  OBVIOUS
<1>1. k \in ks /\ k \in Candles /\ BarsAt(ks, t)[k] = BarAt(k, t)
  BY DEF CandlesIn, BarsAt
<1>2. OpenAt[k + 1] \in Nat
  BY <1>1, CandleFacts
<1> QED
  BY <1>1, <1>2 DEF BarAt, Closed, Times

(* Steps that leave the files alone and give one writer a batch.           *)
LEMMA BatchSettled ==
  ASSUME NoLongCandle, TypeOK, SettledOK, NEW i \in Writers,
         RequestKlines(i) \/ ReceiveKlines(i) \/ PostHistory(i) \/ PostBackfill(i)
  PROVE  SettledOK'
<1>1. now \in Times /\ writer[i] \in WriterRecord
  BY DEF TypeOK
<1>2. CASE RequestKlines(i)
  <2> DEFINE bars == BarsAt(Newest(Opened(now), FeedLimit), now)
  <2>1. \A k \in CandlesIn(bars) : bars[k] <= OpenAt[k + 1]
    BY <1>1, ShownBars DEF Newest, Opened
  <2> DEFINE w == [IdleWriter EXCEPT !.pc = "answer", !.batch = bars]
  <2>2. HeldOK(w, unsettled)
    <3>1. w.pc = "answer" /\ w.batch = bars
      BY DEF IdleWriter
    <3> QED
      BY <2>1, <3>1 DEF HeldOK
  <2>3. writer' = [writer EXCEPT ![i] = w] /\ UNCHANGED << stored, unsettled >>
    BY <1>2 DEF RequestKlines
  <2> QED
    BY <2>2, <2>3 DEF SettledOK, TypeOK
<1>3. CASE ReceiveKlines(i)
  <2> DEFINE answer == writer[i].batch
             kept   == OnlyClosed(answer, now)
             late   == {k \in CandlesIn(answer) :
                          answer[k] < OpenAt[k + 1] /\ Closed(k, now)}
  <2>1. answer \in Bars /\ kept \in Bars
    BY <1>1, BarsTypes DEF WriterRecord
  <2>2. \A k \in CandlesIn(answer) : answer[k] <= OpenAt[k + 1]
    BY <1>3 DEF ReceiveKlines, SettledOK, HeldOK
  <2>3. ASSUME NEW k \in CandlesIn(kept) \ (unsettled \union late)
        PROVE  kept[k] = OpenAt[k + 1]
    <3>1. /\ k \in Candles /\ k \in CandlesIn(answer) /\ kept[k] = answer[k]
          /\ OpenAt[k] + Interval <= now
      BY DEF CandlesIn, OnlyClosed, Restricted
    <3>2. OpenAt[k] \in Nat /\ OpenAt[k + 1] \in Nat /\ answer[k] \in Nat
      BY <2>1, <3>1, CandleFacts DEF Bars, Times
    <3>3. Closed(k, now)
      BY <1>1, <3>1, <3>2, CalendarAssumption DEF NoLongCandle, Closed, Times
    <3> QED
      BY <2>2, <2>3, <3>1, <3>2, <3>3
  <2>4. Final(kept, unsettled \union late)
    BY <2>3 DEF Final
  <2>5. HeldOK(Ingest(kept, TRUE), unsettled \union late)
    BY <2>1, <2>4, HeldByWriters
  <2>6. /\ writer' = [writer EXCEPT ![i] = Ingest(kept, TRUE)]
        /\ unsettled' = unsettled \union late /\ stored' = stored
    BY <1>3 DEF ReceiveKlines
  <2> QED
    BY <2>5, <2>6, MoreUnsettled DEF SettledOK, TypeOK
<1>4. CASE PostHistory(i)
  <2>1. PICK from \in Opened(now) :
          LET ks == {k \in Opened(now) : k >= from}
          IN  /\ writer' = [writer EXCEPT ![i] = Ingest(BarsAt(ks, now), TRUE)]
              /\ unsettled' = unsettled \union {k \in ks : ~Closed(k, now)}
              /\ stored' = stored
    BY <1>4 DEF PostHistory
  <2> DEFINE ks == {k \in Opened(now) : k >= from}
             forming == {k \in ks : ~Closed(k, now)}
  <2>2. BarsAt(ks, now) \in Bars
    BY <1>1, BarsAtType
  <2>3. Final(BarsAt(ks, now), unsettled \union forming)
    BY <1>1, ShownBars DEF Final, Opened
  <2>4. HeldOK(Ingest(BarsAt(ks, now), TRUE), unsettled \union forming)
    BY <2>2, <2>3, HeldByWriters
  <2> QED
    BY <2>1, <2>4, MoreUnsettled DEF SettledOK, TypeOK
<1>5. CASE PostBackfill(i)
  <2>1. PICK ks \in SUBSET {k \in Candles : Closed(k, now)} :
          /\ writer' = [writer EXCEPT ![i] = Ingest(BarsAt(ks, now), FALSE)]
          /\ UNCHANGED << stored, unsettled >>
    BY <1>5 DEF PostBackfill
  <2>2. BarsAt(ks, now) \in Bars
    <3>1. ks \subseteq Opened(now)
      BY <1>1, CandleFacts DEF Opened, Closed, Times
    <3> QED
      BY <1>1, <3>1, BarsAtType
  <2>3. Final(BarsAt(ks, now), unsettled)
    BY <1>1, ShownBars DEF Final
  <2>4. HeldOK(Ingest(BarsAt(ks, now), FALSE), unsettled)
    BY <2>2, <2>3, HeldByWriters
  <2> QED
    BY <2>1, <2>4 DEF SettledOK, TypeOK
<1> QED
  BY <1>2, <1>3, <1>4, <1>5

(* Steps of the merge.                                                     *)
LEMMA IngestSettled ==
  ASSUME TypeOK, SettledOK, NEW i \in Writers,
         GetFile(i) \/ PutFile(i) \/ WriterFails(i)
  PROVE  SettledOK'
<1>1. /\ writer[i] \in WriterRecord /\ stored \in Bars
      /\ writer[i].batch \in Bars /\ writer[i].file \in Bars
  BY DEF TypeOK, WriterRecord
<1>2. CASE GetFile(i)
  <2>1. PICK y \in writer[i].todo :
          writer' = [writer EXCEPT ![i].pc = "put", ![i].year = y,
                      ![i].file = Merged(Restricted(stored, FileOf(y)),
                                         Restricted(writer[i].batch, FileOf(y)))]
    BY <1>2 DEF GetFile
  <2> DEFINE file == Merged(Restricted(stored, FileOf(y)),
                            Restricted(writer[i].batch, FileOf(y)))
             w == [writer[i] EXCEPT !.pc = "put", !.year = y, !.file = file]
  <2>2. Final(writer[i].batch, unsettled) /\ Final(stored, unsettled)
    BY <1>2 DEF GetFile, SettledOK, HeldOK
  <2>3. Final(file, unsettled)
    <3>1. /\ Restricted(stored, FileOf(y)) \in Bars
          /\ Restricted(writer[i].batch, FileOf(y)) \in Bars
      BY <1>1, BarsTypes
    <3>2. /\ Final(Restricted(stored, FileOf(y)), unsettled)
          /\ Final(Restricted(writer[i].batch, FileOf(y)), unsettled)
      BY <1>1, <2>2, FinalLists
    <3> QED
      BY <3>1, <3>2, FinalLists
  <2>4. HeldOK(w, unsettled)
    <3>1. w.pc = "put" /\ w.batch = writer[i].batch /\ w.file = file
      BY <1>1 DEF WriterRecord
    <3> QED
      BY <2>2, <2>3, <3>1 DEF HeldOK
  <2>5. writer' = [writer EXCEPT ![i] = w] /\ UNCHANGED << stored, unsettled >>
    BY <1>2, <2>1 DEF GetFile, TypeOK
  <2> QED
    BY <2>4, <2>5 DEF SettledOK, TypeOK
<1>3. CASE PutFile(i)
  <2>1. Final(writer[i].batch, unsettled) /\ Final(writer[i].file, unsettled)
    BY <1>3 DEF PutFile, SettledOK, HeldOK
  <2>2. Final(stored', unsettled)
    BY <1>1, <1>3, <2>1 DEF PutFile, SettledOK, Final, CandlesIn, Bars
  <2> DEFINE w == [writer[i] EXCEPT !.todo = @ \ {writer[i].year}]
  <2>3. HeldOK(NextYear(w), unsettled)
    <3>1. w \in WriterRecord /\ w.batch = writer[i].batch
      BY <1>1 DEF WriterRecord
    <3> QED
      BY <2>1, <3>1, HeldByWriters
  <2>4. writer' = [writer EXCEPT ![i] = NextYear(w)] /\ unsettled' = unsettled
    BY <1>3 DEF PutFile
  <2> QED
    BY <2>2, <2>3, <2>4 DEF SettledOK, TypeOK
<1>4. CASE WriterFails(i)
  BY <1>4, HeldByWriters DEF WriterFails, SettledOK, TypeOK
<1> QED
  BY <1>2, <1>3, <1>4

LEMMA NextSettled ==
  NoLongCandle /\ TypeOK /\ SettledOK /\ [Next]_vars => SettledOK'
<1> SUFFICES ASSUME NoLongCandle, TypeOK, SettledOK, [Next]_vars PROVE SettledOK'
  OBVIOUS
<1>1. CASE \E i \in Writers : \/ RequestKlines(i) \/ ReceiveKlines(i)
                              \/ PostHistory(i) \/ PostBackfill(i)
  BY <1>1, BatchSettled
<1>2. CASE \E i \in Writers : GetFile(i) \/ PutFile(i) \/ WriterFails(i)
  BY <1>2, IngestSettled
<1>3. CASE \/ Tick \/ UNCHANGED vars
           \/ \E i \in Readers : \/ StartRead(i) \/ ReadFile(i)
                                 \/ EndRead(i) \/ ReadFails(i)
  <2>1. UNCHANGED << stored, writer, unsettled >>
    BY <1>3 DEF Tick, StartRead, ReadFile, EndRead, ReadFails, vars
  <2> QED
    BY <2>1 DEF SettledOK
<1> QED
  BY <1>1, <1>2, <1>3 DEF Next, Work, Read

(* When no candle lasts longer than the interval, a bar in R2 carries the  *)
(* prices its candle closed with, unless the candle closed while an answer *)
(* was under way or a client posted it forming: no writer mixes up bars,   *)
(* however they overlap and fail.                                          *)
THEOREM OnlyFormingBarsDiffer == NoLongCandle => (Spec => []FinalUnlessForming)
<1> SUFFICES ASSUME NoLongCandle PROVE Spec => []FinalUnlessForming
  OBVIOUS
<1>1. Init => SettledOK
  <2>1. CandlesIn(NoBars) = {}
    BY DEF CandlesIn, NoBars
  <2> QED
    BY <2>1, HeldByWriters DEF Init, SettledOK, Final
<1>2. TypeOK /\ SettledOK /\ [Next]_vars => SettledOK'
  BY NextSettled
<1>3. SettledOK => FinalUnlessForming
  BY DEF SettledOK, Final, FinalUnlessForming
<1> QED
  BY <1>1, <1>2, <1>3, StoreTypeCorrect, PTL DEF Spec

----------------------------------------------------------------------------
(* Bars are not lost.                                                      *)

(* While no writers overlapped, the file a writer is about to put has      *)
(* every bar that is stored, and nobody else is about to put that file.    *)
CurrentFile(i) ==
  writer[i].pc = "put" =>
    /\ \A k \in FileOf(writer[i].year) \intersect CandlesIn(stored) :
         writer[i].file[k] = stored[k]
    /\ \A j \in Writers \ {i} :
         ~(writer[j].pc = "put" /\ writer[j].year = writer[i].year)

AloneOK == ~overlapped => \A i \in Writers : CurrentFile(i)

(* A step that takes one writer away from its file.                        *)
LEMMA LeaveFile ==
  ASSUME TypeOK, AloneOK, NEW i \in Writers, NEW w,
         w.pc # "put", writer' = [writer EXCEPT ![i] = w],
         UNCHANGED << stored, overlapped >>
  PROVE  AloneOK'
BY DEF AloneOK, CurrentFile, TypeOK

(* No writer that begins, ends or goes on to its next file is to put one.  *)
LEMMA NotPutting ==
  /\ IdleWriter.pc # "put"
  /\ \A w \in WriterRecord : NextYear(w).pc # "put"
  /\ \A batch \in Bars, sorted \in BOOLEAN : Ingest(batch, sorted).pc # "put"
<1>1. IdleWriter.pc # "put"
  BY DEF IdleWriter
<1>2. \A w \in WriterRecord : NextYear(w).pc # "put"
  BY <1>1 DEF NextYear, WriterRecord
<1>3. ASSUME NEW batch \in Bars, NEW sorted \in BOOLEAN
      PROVE  [IdleWriter EXCEPT !.batch = batch, !.sorted = sorted,
                                !.todo = YearsOf(batch)] \in WriterRecord
  <2>1. YearsOf(batch) \in SUBSET Years
    BY BarsTypes
  <2> QED
    BY <2>1, WriterTypes DEF WriterRecord
<1> QED
  BY <1>1, <1>2, <1>3 DEF Ingest

LEMMA GetAlone ==
  ASSUME TypeOK, AloneOK, NEW i \in Writers, GetFile(i)
  PROVE  AloneOK'
<1>1. PICK y \in writer[i].todo :
        /\ writer' = [writer EXCEPT ![i].pc = "put", ![i].year = y,
                    ![i].file = Merged(Restricted(stored, FileOf(y)),
                                       Restricted(writer[i].batch, FileOf(y)))]
        /\ overlapped' = (overlapped \/ \E j \in Writers :
                            writer[j].pc = "put" /\ writer[j].year = y)
        /\ stored' = stored
  BY DEF GetFile
<1> DEFINE file == Merged(Restricted(stored, FileOf(y)),
                          Restricted(writer[i].batch, FileOf(y)))
<1>2. \A k \in FileOf(y) \intersect CandlesIn(stored) : file[k] = stored[k]
  BY DEF Merged, Restricted, FileOf, CandlesIn
<1>3. /\ writer'[i].pc = "put" /\ writer'[i].year = y /\ writer'[i].file = file
      /\ \A j \in Writers \ {i} : writer'[j] = writer[j]
  BY <1>1 DEF TypeOK, WriterRecord
<1> SUFFICES ASSUME ~overlapped', NEW j \in Writers PROVE CurrentFile(j)'
  BY DEF AloneOK
<1>4. /\ ~overlapped
      /\ \A m \in Writers : ~(writer[m].pc = "put" /\ writer[m].year = y)
  BY <1>1 DEF TypeOK
<1>5. CASE j = i
  BY <1>1, <1>2, <1>3, <1>4, <1>5 DEF CurrentFile
<1>6. CASE j # i
  <2>1. CurrentFile(j)
    BY <1>4 DEF AloneOK
  <2> QED
    BY <1>1, <1>3, <1>4, <1>6, <2>1 DEF CurrentFile
<1> QED
  BY <1>5, <1>6

(* A put replaces the file of one year, by a file that has every bar.      *)
LEMMA PutAlone ==
  ASSUME TypeOK, AloneOK, NEW i \in Writers, PutFile(i)
  PROVE  /\ AloneOK'
         /\ ~overlapped' => \A k \in CandlesIn(stored) : stored'[k] = stored[k]
<1> DEFINE y == writer[i].year
           w == [writer[i] EXCEPT !.todo = @ \ {y}]
<1>1. /\ writer[i].pc = "put" /\ overlapped' = overlapped
      /\ writer' = [writer EXCEPT ![i] = NextYear(w)]
      /\ stored' = [k \in Candles |-> IF k \in FileOf(y) THEN writer[i].file[k]
                                      ELSE stored[k]]
  BY DEF PutFile
<1>2. NextYear(w).pc # "put"
  <2>1. w \in WriterRecord
    BY DEF TypeOK, WriterRecord
  <2> QED
    BY <2>1, NotPutting
<1>3. ASSUME ~overlapped, NEW k \in CandlesIn(stored) PROVE stored'[k] = stored[k]
  BY <1>1, <1>3 DEF AloneOK, CurrentFile, CandlesIn
<1>4. ASSUME ~overlapped, NEW j \in Writers PROVE CurrentFile(j)'
  <2> SUFFICES ASSUME writer'[j].pc = "put" PROVE CurrentFile(j)'
    BY DEF CurrentFile
  <2>1. j # i /\ writer'[j] = writer[j]
    BY <1>1, <1>2 DEF TypeOK
  <2>2. CurrentFile(j) /\ writer[j].year # y
    BY <1>1, <1>4, <2>1 DEF AloneOK, CurrentFile
  <2>3. \A k \in FileOf(writer[j].year) : k \notin FileOf(y)
    BY <2>2 DEF FileOf
  <2>4. \A k \in FileOf(writer[j].year) : k \in Candles /\ stored'[k] = stored[k]
    BY <1>1, <2>3 DEF FileOf
  <2>5. \A m \in Writers \ {j} :
          ~(writer'[m].pc = "put" /\ writer'[m].year = writer[j].year)
    BY <1>1, <1>2, <2>1, <2>2 DEF CurrentFile, TypeOK
  <2>6. \A k \in FileOf(writer[j].year) \intersect CandlesIn(stored') :
          writer[j].file[k] = stored'[k]
    BY <2>1, <2>2, <2>4 DEF CurrentFile, CandlesIn
  <2> QED
    BY <2>1, <2>5, <2>6 DEF CurrentFile
<1> QED
  BY <1>1, <1>3, <1>4 DEF AloneOK

LEMMA NextAlone ==
  ASSUME TypeOK, AloneOK, [Next]_vars
  PROVE  /\ AloneOK'
         /\ ~overlapped' => \A k \in CandlesIn(stored) : stored'[k] = stored[k]
<1>1. CASE \E i \in Writers : PutFile(i)
  BY <1>1, PutAlone
<1>2. CASE \E i \in Writers : GetFile(i)
  BY <1>2, GetAlone DEF GetFile
<1>3. CASE \E i \in Writers : \/ RequestKlines(i) \/ ReceiveKlines(i)
                              \/ PostHistory(i) \/ PostBackfill(i)
                              \/ WriterFails(i)
  <2>1. PICK i \in Writers : \E w :
          w.pc # "put" /\ writer' = [writer EXCEPT ![i] = w]
    <3>1. PICK i \in Writers : \/ RequestKlines(i) \/ ReceiveKlines(i)
                               \/ PostHistory(i) \/ PostBackfill(i)
                               \/ WriterFails(i)
      BY <1>3
    <3>2. now \in Times /\ writer[i] \in WriterRecord
      BY DEF TypeOK
    <3>3. CASE RequestKlines(i)
      <4>1. [IdleWriter EXCEPT !.pc = "answer",
               !.batch = BarsAt(Newest(Opened(now), FeedLimit), now)].pc # "put"
        BY DEF IdleWriter
      <4> QED
        BY <3>3, <4>1 DEF RequestKlines
    <3>4. CASE ReceiveKlines(i)
      <4>1. OnlyClosed(writer[i].batch, now) \in Bars
        BY <3>2, BarsTypes DEF WriterRecord
      <4> QED
        BY <3>4, <4>1, NotPutting DEF ReceiveKlines
    <3>5. CASE PostHistory(i)
      BY <3>2, <3>5, BarsAtType, NotPutting DEF PostHistory
    <3>6. CASE PostBackfill(i)
      <4>1. {k \in Candles : Closed(k, now)} \subseteq Opened(now)
        BY <3>2, CandleFacts DEF Opened, Closed, Times
      <4> QED
        BY <3>2, <3>6, <4>1, BarsAtType, NotPutting DEF PostBackfill
    <3>7. CASE WriterFails(i)
      BY <3>7, NotPutting DEF WriterFails
    <3> QED
      BY <3>1, <3>3, <3>4, <3>5, <3>6, <3>7
  <2>2. UNCHANGED << stored, overlapped >>
    BY <1>3 DEF RequestKlines, ReceiveKlines, PostHistory, PostBackfill, WriterFails
  <2>3. PICK w : w.pc # "put" /\ writer' = [writer EXCEPT ![i] = w]
    BY <2>1
  <2> QED
    BY <2>2, <2>3, LeaveFile
<1>4. CASE \/ Tick \/ UNCHANGED vars
           \/ \E i \in Readers : \/ StartRead(i) \/ ReadFile(i)
                                 \/ EndRead(i) \/ ReadFails(i)
  <2>1. UNCHANGED << stored, writer, overlapped >>
    BY <1>4 DEF Tick, StartRead, ReadFile, EndRead, ReadFails, vars
  <2> QED
    BY <2>1 DEF AloneOK, CurrentFile
<1> QED
  BY <1>1, <1>2, <1>3, <1>4 DEF Next, Work, Read

(* As long as no writer reads a file that another one is about to write,   *)
(* no bar in R2 is ever lost or changed, whatever is fetched, posted, in   *)
(* which order, and whichever calls fail.                                  *)
THEOREM NeverLosesBars == Spec => AppendOnly
<1>1. Init => AloneOK
  BY DEF Init, AloneOK, CurrentFile, IdleWriter
<1>2. TypeOK /\ AloneOK /\ [Next]_vars => AloneOK'
  BY NextAlone
<1>3. TypeOK /\ AloneOK /\ [Next]_vars =>
        [~overlapped' => \A k \in CandlesIn(stored) : stored'[k] = stored[k]]_vars
  BY NextAlone
<1> QED
  BY <1>1, <1>2, <1>3, StoreTypeCorrect, PTL DEF Spec, AppendOnly

----------------------------------------------------------------------------
(* Readers see no hole.                                                    *)

(* A batch in ascending order is stored up to the years its writer has yet *)
(* to write, and the file about to be put adds nothing but the batch.      *)
GoesForward(w, have) ==
  w.pc \in {"get", "put"} =>
    /\ w.sorted => \A k \in CandlesIn(w.batch) : YearOf[k] \in w.todo \/ k \in have
    /\ w.pc = "put" =>
         /\ IsNextYear(w, w.year)
         /\ FileOf(w.year) \intersect CandlesIn(w.batch) \subseteq CandlesIn(w.file)
         /\ CandlesIn(w.file) \subseteq have \union CandlesIn(w.batch)

(* A stored candle has the older ones of its batch with it.                *)
BatchesWhole(have, of) ==
  /\ \A k \in have : \A j \in of[k] : j < k => j \in have
  /\ \A k \in Candles \ have : of[k] = {}

(* A reader goes back from the newest year; what a candle it has read      *)
(* still lacks is in the years it has yet to read.                         *)
GoesBack(r, have, of) ==
  r.pc = "read" =>
    /\ \A y \in r.todo, z \in Years : z < y => z \in r.todo
    /\ CandlesIn(r.got) \subseteq have
    /\ \A k \in CandlesIn(r.got) : \A j \in of[k] :
         j < k => YearOf[j] \in r.todo \/ j \in CandlesIn(r.got)

HoleOK ==
  ~overlapped =>
    /\ BatchesWhole(CandlesIn(stored), batchOf)
    /\ \A i \in Writers : GoesForward(writer[i], CandlesIn(stored))
    /\ \A i \in Readers : GoesBack(reader[i], CandlesIn(stored), batchOf)

LEMMA YearsAscend ==
  ASSUME NEW j \in Candles, NEW k \in Candles
  PROVE  /\ YearOf[j] \in Nat /\ j \in Int /\ k \in Int
         /\ OpenAt[j] \in Nat
         /\ j < k => YearOf[j] <= YearOf[k] /\ OpenAt[j] < OpenAt[k]
<1>1. j \in 1..(MaxCandle + 1) /\ k \in 1..(MaxCandle + 1)
  BY BoundsAssumption DEF Candles
<1> QED
  BY <1>1, CalendarAssumption DEF Candles

(* More candles in R2 spoil neither writers nor readers.                   *)
LEMMA MoreStored ==
  ASSUME NEW have, NEW more, have \subseteq more
  PROVE  /\ \A w : GoesForward(w, have) => GoesForward(w, more)
         /\ \A r, of : GoesBack(r, have, of) => GoesBack(r, more, of)
<1>1. \A w : GoesForward(w, have) => GoesForward(w, more)
  BY DEF GoesForward
<1>2. \A r, of : GoesBack(r, have, of) => GoesBack(r, more, of)
  BY DEF GoesBack
<1> QED
  BY <1>1, <1>2

(* A writer that begins has all its years to write.                        *)
LEMMA BeginsForward ==
  ASSUME NEW have
  PROVE  /\ GoesForward(IdleWriter, have)
         /\ \A batch \in Bars, sorted \in BOOLEAN : GoesForward(Ingest(batch, sorted), have)
<1>1. GoesForward(IdleWriter, have)
  BY DEF GoesForward, IdleWriter
<1>2. ASSUME NEW batch \in Bars, NEW sorted \in BOOLEAN
      PROVE  GoesForward(Ingest(batch, sorted), have)
  <2> DEFINE w == [IdleWriter EXCEPT !.batch = batch, !.sorted = sorted,
                                     !.todo = YearsOf(batch)]
  <2>1. w \in WriterRecord /\ w.batch = batch /\ w.todo = YearsOf(batch)
    <3>1. YearsOf(batch) \in SUBSET Years
      BY BarsTypes
    <3> QED
      BY <3>1, WriterTypes DEF WriterRecord, IdleWriter
  <2>2. \A k \in CandlesIn(batch) : YearOf[k] \in YearsOf(batch)
    BY DEF YearsOf
  <2> DEFINE n == [w EXCEPT !.pc = "get", !.year = 0, !.file = NoBars]
  <2>3. n.pc = "get" /\ n.batch = batch /\ n.todo = YearsOf(batch)
    BY <2>1 DEF WriterRecord
  <2>4. GoesForward(n, have)
    BY <2>2, <2>3 DEF GoesForward
  <2>5. NextYear(w) = IdleWriter \/ NextYear(w) = n
    BY DEF NextYear
  <2> QED
    BY <1>1, <2>4, <2>5 DEF Ingest
<1> QED
  BY <1>1, <1>2

(* A step of one writer that leaves the files alone.                       *)
LEMMA WriterHole ==
  ASSUME TypeOK, HoleOK, NEW i \in Writers, NEW w,
         writer' = [writer EXCEPT ![i] = w],
         UNCHANGED << stored, reader, batchOf >>,
         ~overlapped' => ~overlapped /\ GoesForward(w, CandlesIn(stored))
  PROVE  HoleOK'
<1> SUFFICES ASSUME ~overlapped'
             PROVE  /\ BatchesWhole(CandlesIn(stored'), batchOf')
                    /\ \A j \in Writers : GoesForward(writer'[j], CandlesIn(stored'))
                    /\ \A j \in Readers : GoesBack(reader'[j], CandlesIn(stored'), batchOf')
  BY DEF HoleOK, GoesForward, IsNextYear
<1>1. /\ BatchesWhole(CandlesIn(stored), batchOf)
      /\ \A j \in Writers : GoesForward(writer[j], CandlesIn(stored))
      /\ \A j \in Readers : GoesBack(reader[j], CandlesIn(stored), batchOf)
  BY DEF HoleOK
<1>2. \A j \in Writers : writer'[j] = IF j = i THEN w ELSE writer[j]
  BY DEF TypeOK
<1> QED
  BY <1>1, <1>2

LEMMA GetHole ==
  ASSUME TypeOK, HoleOK, NEW i \in Writers, GetFile(i)
  PROVE  HoleOK'
<1>1. PICK y \in writer[i].todo :
        /\ writer[i].pc = "get" /\ IsNextYear(writer[i], y)
        /\ writer' = [writer EXCEPT ![i].pc = "put", ![i].year = y,
                    ![i].file = Merged(Restricted(stored, FileOf(y)),
                                       Restricted(writer[i].batch, FileOf(y)))]
        /\ overlapped' = (overlapped \/ \E j \in Writers :
                            writer[j].pc = "put" /\ writer[j].year = y)
        /\ UNCHANGED << stored, reader, batchOf >>
  BY DEF GetFile
<1> DEFINE file == Merged(Restricted(stored, FileOf(y)),
                          Restricted(writer[i].batch, FileOf(y)))
           w == [writer[i] EXCEPT !.pc = "put", !.year = y, !.file = file]
<1>2. writer' = [writer EXCEPT ![i] = w]
  BY <1>1 DEF TypeOK
<1>3. /\ w.pc = "put" /\ w.year = y /\ w.file = file /\ w.todo = writer[i].todo
      /\ w.batch = writer[i].batch /\ w.sorted = writer[i].sorted
  BY DEF TypeOK, WriterRecord
<1>4. \A k \in Candles : k \in CandlesIn(file) <=>
        k \in FileOf(y) /\ (k \in CandlesIn(stored) \/ k \in CandlesIn(writer[i].batch))
  BY DEF Merged, Restricted, CandlesIn
<1>5. IsNextYear(w, y)
  BY <1>1, <1>3 DEF IsNextYear
<1>6. CandlesIn(file) \subseteq Candles /\ FileOf(y) \subseteq Candles
  BY DEF CandlesIn, FileOf
<1> HIDE DEF w, file
<1>7. ASSUME ~overlapped' PROVE ~overlapped /\ GoesForward(w, CandlesIn(stored))
  <2>1. ~overlapped
    BY <1>1, <1>7 DEF TypeOK
  <2>2. writer[i].sorted => \A k \in CandlesIn(writer[i].batch) :
          YearOf[k] \in writer[i].todo \/ k \in CandlesIn(stored)
    BY <1>1, <2>1 DEF HoleOK, GoesForward
  <2> QED
    BY <1>3, <1>4, <1>5, <1>6, <2>1, <2>2 DEF GoesForward
<1> QED
  BY <1>1, <1>2, <1>7, WriterHole

(* The put of a year: an ascending batch has its older candles stored by   *)
(* then, or puts them in the same file.                                    *)
LEMMA PutHole ==
  ASSUME TypeOK, AloneOK, HoleOK, NEW i \in Writers, PutFile(i)
  PROVE  HoleOK'
<1> DEFINE w == writer[i]
           y == w.year
           have == CandlesIn(stored)
           more == CandlesIn(stored')
           batch == CandlesIn(w.batch)
           left == [w EXCEPT !.todo = @ \ {y}]
<1>1. /\ w.pc = "put" /\ overlapped' = overlapped /\ reader' = reader
      /\ writer' = [writer EXCEPT ![i] = NextYear(left)]
      /\ stored' = [k \in Candles |-> IF k \in FileOf(y) THEN w.file[k] ELSE stored[k]]
      /\ batchOf' = [k \in Candles |->
                       IF stored[k] = Absent /\ stored'[k] # Absent /\ w.sorted
                       THEN batch ELSE batchOf[k]]
  BY DEF PutFile
<1> SUFFICES ASSUME ~overlapped'
             PROVE  /\ BatchesWhole(more, batchOf')
                    /\ \A j \in Writers : GoesForward(writer'[j], more)
                    /\ \A j \in Readers : GoesBack(reader'[j], more, batchOf')
  BY <1>1 DEF HoleOK, GoesForward, IsNextYear, CandlesIn
<1>2. /\ BatchesWhole(have, batchOf)
      /\ \A j \in Writers : GoesForward(writer[j], have)
      /\ \A j \in Readers : GoesBack(reader[j], have, batchOf)
  BY <1>1 DEF HoleOK
<1>3. /\ w.sorted => \A k \in batch : YearOf[k] \in w.todo \/ k \in have
      /\ y \in w.todo /\ (w.sorted => \A z \in w.todo : y <= z)
      /\ FileOf(y) \intersect batch \subseteq CandlesIn(w.file)
      /\ CandlesIn(w.file) \subseteq have \union batch
  BY <1>1, <1>2 DEF GoesForward, IsNextYear
<1>4. have \subseteq more
  <2>1. \A k \in have : stored'[k] = stored[k]
    BY <1>1, PutAlone
  <2> QED
    BY <2>1 DEF CandlesIn
<1>5. /\ have \subseteq Candles /\ more \subseteq Candles /\ batch \subseteq Candles
      /\ \A k \in Candles : (k \in have <=> stored[k] # Absent)
                            /\ (k \in more <=> stored'[k] # Absent)
  BY DEF CandlesIn
<1>6. \A k \in more \ have : k \in FileOf(y) /\ k \in batch
  <2>1. \A k \in Candles \ FileOf(y) : stored'[k] = stored[k]
    BY <1>1
  <2>2. \A k \in FileOf(y) : k \in Candles /\ stored'[k] = w.file[k]
    BY <1>1 DEF FileOf
  <2> QED
    BY <1>3, <1>5, <2>1, <2>2 DEF CandlesIn
<1>7. FileOf(y) \intersect batch \subseteq more
  BY <1>1, <1>3 DEF CandlesIn, FileOf
<1>8. \A k \in have : batchOf'[k] = batchOf[k]
  BY <1>1, <1>5
<1> HIDE DEF have, more, batch
<1>9. BatchesWhole(more, batchOf')
  <2>1. ASSUME NEW k \in more, NEW j \in batchOf'[k], j < k
        PROVE  j \in more
    <3>1. CASE k \in have
      BY <1>2, <1>4, <1>8, <2>1, <3>1 DEF BatchesWhole
    <3>2. CASE k \notin have
      <4>1. k \in Candles /\ batchOf[k] = {}
        BY <1>2, <1>5, <3>2 DEF BatchesWhole
      <4>2. w.sorted /\ j \in batch
        BY <1>1, <2>1, <4>1
      <4>3. YearOf[j] \in Int /\ YearOf[j] <= YearOf[k] /\ YearOf[k] = y /\ y \in Int
        BY <1>5, <1>6, <2>1, <3>2, <4>1, <4>2, YearsAscend DEF FileOf
      <4>4. CASE YearOf[j] \in w.todo
        <5>1. YearOf[j] = y
          BY <1>3, <4>2, <4>3, <4>4
        <5> QED
          BY <1>5, <1>7, <4>2, <5>1 DEF FileOf
      <4>5. CASE j \in have
        BY <1>4, <4>5
      <4> QED
        BY <1>3, <4>2, <4>4, <4>5
    <3> QED
      BY <3>1, <3>2
  <2>2. ASSUME NEW k \in Candles \ more PROVE batchOf'[k] = {}
    BY <1>1, <1>2, <1>4, <1>5, <2>2 DEF BatchesWhole
  <2> QED
    BY <2>1, <2>2 DEF BatchesWhole
<1>10. GoesForward(NextYear(left), more)
  <2>1. /\ left.sorted = w.sorted /\ left.batch = w.batch
        /\ left.todo = w.todo \ {y}
    BY DEF TypeOK, WriterRecord
  <2> DEFINE n == [left EXCEPT !.pc = "get", !.year = 0, !.file = NoBars]
  <2>2. n.pc = "get" /\ n.sorted = w.sorted /\ n.batch = w.batch
        /\ n.todo = w.todo \ {y}
    BY <2>1 DEF TypeOK, WriterRecord
  <2>3. w.sorted => \A k \in batch : YearOf[k] \in w.todo \ {y} \/ k \in more
    BY <1>3, <1>4, <1>5, <1>7 DEF FileOf
  <2> HIDE DEF n
  <2>4. GoesForward(n, more)
    BY <2>2, <2>3 DEF GoesForward, batch
  <2>5. NextYear(left) = IdleWriter \/ NextYear(left) = n
    BY DEF NextYear, n
  <2> QED
    BY <2>4, <2>5, BeginsForward
<1>11. \A j \in Writers : GoesForward(writer'[j], more)
  <2>1. \A j \in Writers : writer'[j] = IF j = i THEN NextYear(left) ELSE writer[j]
    BY <1>1 DEF TypeOK
  <2>2. \A j \in Writers : GoesForward(writer[j], more)
    BY <1>2, <1>4, MoreStored
  <2> HIDE DEF left, w
  <2> QED
    BY <1>10, <2>1, <2>2
<1>12. ASSUME NEW j \in Readers PROVE GoesBack(reader'[j], more, batchOf')
  <2>1. GoesBack(reader[j], have, batchOf)
    BY <1>2
  <2>2. reader'[j] = reader[j]
    BY <1>1
  <2> QED
    BY <1>4, <1>8, <2>1, <2>2 DEF GoesBack
<1> QED
  BY <1>9, <1>11, <1>12

(* The read of a year: what a stored candle lacks is in the same file or   *)
(* in an older one.                                                        *)
LEMMA ReadHole ==
  ASSUME TypeOK, HoleOK, NEW i \in Readers, ReadFile(i), ~overlapped
  PROVE  GoesBack(reader'[i], CandlesIn(stored), batchOf)
<1> DEFINE r == reader[i]
           have == CandlesIn(stored)
           old == CandlesIn(r.got)
<1>1. PICK y \in r.todo :
        /\ r.pc = "read" /\ IsReadYear(r, y)
        /\ reader' = [reader EXCEPT ![i].todo = @ \ {y},
                    ![i].got = [k \in Candles |-> IF k \in FileOf(y)
                                                  THEN stored[k] ELSE @[k]]]
  BY DEF ReadFile
<1> DEFINE got == [k \in Candles |-> IF k \in FileOf(y) THEN stored[k] ELSE r.got[k]]
           s == [r EXCEPT !.todo = @ \ {y}, !.got = got]
           new == CandlesIn(got)
<1>2. reader'[i] = s /\ s.pc = "read" /\ s.todo = r.todo \ {y} /\ s.got = got
  BY <1>1 DEF TypeOK, ReaderRecord
<1>3. BatchesWhole(have, batchOf) /\ GoesBack(r, have, batchOf)
  BY DEF HoleOK
<1>4. /\ \A k \in Candles : k \in new <=> IF k \in FileOf(y) THEN k \in have ELSE k \in old
      /\ new \subseteq Candles /\ old \subseteq Candles /\ have \subseteq Candles
  BY DEF CandlesIn
<1>5. /\ \A x \in r.todo, z \in Years : z < x => z \in r.todo
      /\ old \subseteq have /\ \A z \in r.todo : z <= y
      /\ \A k \in old : \A j \in batchOf[k] : j < k => YearOf[j] \in r.todo \/ j \in old
  BY <1>1, <1>3 DEF GoesBack, IsReadYear
<1>6. r.todo \subseteq Years /\ Years \subseteq Int /\ y \in Int
      /\ batchOf \in [Candles -> SUBSET Candles]
  BY YearsAscend DEF TypeOK, ReaderRecord, Years
<1> HIDE DEF new, old, have, got, s, r
<1>7. ASSUME NEW x \in r.todo \ {y}, NEW z \in Years, z < x
      PROVE  z \in r.todo \ {y}
  <2>1. x \in Int /\ z \in Int /\ x <= y /\ z \in r.todo
    BY <1>5, <1>6, <1>7
  <2>2. z < y
    BY <1>6, <1>7, <2>1
  <2> QED
    BY <1>6, <2>1, <2>2
<1>8. new \subseteq have
  BY <1>4, <1>5
<1>9. ASSUME NEW k \in new, NEW j \in batchOf[k], j < k
      PROVE  YearOf[j] \in r.todo \ {y} \/ j \in new
  <2>1. k \in Candles /\ j \in Candles /\ j \in have
    BY <1>3, <1>4, <1>6, <1>8, <1>9 DEF BatchesWhole
  <2>2. CASE YearOf[j] = y
    BY <1>4, <2>1, <2>2 DEF FileOf
  <2>3. CASE YearOf[j] # y /\ k \in FileOf(y)
    <3>1. YearOf[k] = y /\ YearOf[j] < y /\ YearOf[j] \in Years
      BY <1>9, <2>1, <2>3, YearsAscend DEF FileOf, Years
    <3>2. YearOf[j] \in r.todo
      BY <1>1, <1>5, <3>1
    <3> QED
      BY <2>3, <3>2
  <2>4. CASE YearOf[j] # y /\ k \notin FileOf(y)
    <3>1. k \in old
      BY <1>4, <2>1, <2>4
    <3>2. YearOf[j] \in r.todo \/ j \in old
      BY <1>5, <1>9, <3>1
    <3> QED
      BY <1>4, <2>1, <2>4, <3>2 DEF FileOf
  <2> QED
    BY <2>2, <2>3, <2>4
<1> QED
  BY <1>2, <1>7, <1>8, <1>9 DEF GoesBack, new, have

LEMMA ReaderHole ==
  ASSUME TypeOK, HoleOK, NEW i \in Readers,
         StartRead(i) \/ ReadFile(i) \/ EndRead(i) \/ ReadFails(i)
  PROVE  HoleOK'
<1>1. UNCHANGED << stored, writer, overlapped, batchOf >>
  BY DEF StartRead, ReadFile, EndRead, ReadFails
<1>2. \A j \in Readers \ {i} : reader'[j] = reader[j]
  BY DEF StartRead, ReadFile, EndRead, ReadFails, TypeOK
<1>3. GoesBack(IdleReader, CandlesIn(stored), batchOf)
  BY DEF GoesBack, IdleReader
<1>4. ASSUME ~overlapped PROVE GoesBack(reader'[i], CandlesIn(stored), batchOf)
  <2>1. CASE StartRead(i)
    <3> DEFINE s == [IdleReader EXCEPT !.pc = "read",
                                       !.todo = {YearOf[k] : k \in Opened(now)}]
    <3>1. reader'[i] = s
      BY <2>1 DEF StartRead, TypeOK
    <3>2. s.todo = {YearOf[k] : k \in Opened(now)} /\ CandlesIn(s.got) = {}
      BY DEF IdleReader, CandlesIn, NoBars
    <3>3. ASSUME NEW k \in Opened(now), NEW m \in Candles, YearOf[m] < YearOf[k]
          PROVE  m \in Opened(now)
      <4>1. k \in Candles /\ OpenAt[k] <= now /\ now \in Int
        BY DEF Opened, TypeOK, Times
      <4>2. ~(k < m) /\ k # m
        BY <3>3, <4>1, YearsAscend
      <4>3. OpenAt[m] < OpenAt[k] /\ OpenAt[m] \in Int /\ OpenAt[k] \in Int
        BY <4>1, <4>2, YearsAscend
      <4> QED
        BY <4>1, <4>3 DEF Opened
    <3>4. ASSUME NEW k \in Opened(now), NEW z \in Years, z < YearOf[k]
          PROVE  z \in s.todo
      <4>1. PICK m \in Candles : z = YearOf[m]
        BY DEF Years
      <4>2. m \in Opened(now)
        BY <3>3, <3>4, <4>1
      <4> QED
        BY <3>2, <4>1, <4>2
    <3> HIDE DEF s
    <3>5. \A x \in s.todo, z \in Years : z < x => z \in s.todo
      BY <3>2, <3>4
    <3> QED
      BY <3>1, <3>2, <3>5 DEF GoesBack
  <2>2. CASE ReadFile(i)
    BY <1>4, <2>2, ReadHole
  <2>3. CASE EndRead(i) \/ ReadFails(i)
    BY <1>3, <2>3 DEF EndRead, ReadFails, TypeOK
  <2> QED
    BY <2>1, <2>2, <2>3
<1>5. ~overlapped => \A j \in Readers : GoesBack(reader'[j], CandlesIn(stored), batchOf)
  BY <1>2, <1>4 DEF HoleOK
<1> QED
  BY <1>1, <1>5 DEF HoleOK, BatchesWhole, GoesForward, GoesBack, CandlesIn, IsNextYear

LEMMA NextHole ==
  ASSUME TypeOK, AloneOK, HoleOK, [Next]_vars
  PROVE  HoleOK'
<1>1. CASE \E i \in Writers : PutFile(i)
  BY <1>1, PutHole
<1>2. CASE \E i \in Writers : GetFile(i)
  BY <1>2, GetHole
<1>3. CASE \E i \in Writers : \/ RequestKlines(i) \/ ReceiveKlines(i)
                              \/ PostHistory(i) \/ PostBackfill(i)
                              \/ WriterFails(i)
  <2>1. PICK i \in Writers : \/ RequestKlines(i) \/ ReceiveKlines(i)
                             \/ PostHistory(i) \/ PostBackfill(i)
                             \/ WriterFails(i)
    BY <1>3
  <2>2. now \in Times /\ writer[i] \in WriterRecord
    BY DEF TypeOK
  <2>3. UNCHANGED << stored, reader, batchOf, overlapped >>
    BY <2>1 DEF RequestKlines, ReceiveKlines, PostHistory, PostBackfill, WriterFails
  <2>4. \E w : /\ writer' = [writer EXCEPT ![i] = w]
               /\ GoesForward(w, CandlesIn(stored))
    <3>1. CASE RequestKlines(i)
      <4> DEFINE w == [IdleWriter EXCEPT !.pc = "answer",
                         !.batch = BarsAt(Newest(Opened(now), FeedLimit), now)]
      <4>1. w.pc = "answer"
        BY DEF IdleWriter
      <4>2. GoesForward(w, CandlesIn(stored))
        BY <4>1 DEF GoesForward
      <4> QED
        BY <3>1, <4>2 DEF RequestKlines
    <3>2. CASE ReceiveKlines(i)
      <4>1. OnlyClosed(writer[i].batch, now) \in Bars
        BY <2>2, BarsTypes DEF WriterRecord
      <4> QED
        BY <3>2, <4>1, BeginsForward DEF ReceiveKlines
    <3>3. CASE PostHistory(i)
      <4>1. PICK from \in Opened(now) :
              writer' = [writer EXCEPT ![i] =
                           Ingest(BarsAt({k \in Opened(now) : k >= from}, now), TRUE)]
        BY <3>3 DEF PostHistory
      <4>2. BarsAt({k \in Opened(now) : k >= from}, now) \in Bars
        BY <2>2, BarsAtType
      <4> QED
        BY <4>1, <4>2, BeginsForward
    <3>4. CASE PostBackfill(i)
      <4>1. PICK ks \in SUBSET {k \in Candles : Closed(k, now)} :
              writer' = [writer EXCEPT ![i] = Ingest(BarsAt(ks, now), FALSE)]
        BY <3>4 DEF PostBackfill
      <4>2. ks \subseteq Opened(now)
        BY <2>2, CandleFacts DEF Opened, Closed, Times
      <4>3. BarsAt(ks, now) \in Bars
        BY <2>2, <4>2, BarsAtType
      <4> QED
        BY <4>1, <4>3, BeginsForward
    <3>5. CASE WriterFails(i)
      BY <3>5, BeginsForward DEF WriterFails
    <3> QED
      BY <2>1, <3>1, <3>2, <3>3, <3>4, <3>5
  <2> QED
    BY <2>3, <2>4, WriterHole
<1>4. CASE Tick \/ UNCHANGED vars
  <2>1. UNCHANGED << stored, writer, reader, overlapped, batchOf >>
    BY <1>4 DEF Tick, vars
  <2> QED
    BY <2>1 DEF HoleOK, BatchesWhole, GoesForward, GoesBack, CandlesIn, IsNextYear
<1>5. CASE \E i \in Readers : StartRead(i) \/ ReadFile(i) \/ EndRead(i) \/ ReadFails(i)
  BY <1>5, ReaderHole
<1> QED
  BY <1>1, <1>2, <1>3, <1>4, <1>5 DEF Next, Work, Read

(* As long as no two writers overlap on a file, whoever reads the years    *)
(* while an ascending batch is being written over several of them gets no  *)
(* candle of the batch without the older ones, wherever the writer and the *)
(* reader meet, and wherever either of them fails.                         *)
THEOREM ReadersSeeNoHole == Spec => []ReadsNoHole
<1>1. Init => AloneOK /\ HoleOK
  <2> SUFFICES ASSUME Init PROVE AloneOK /\ HoleOK
    OBVIOUS
  <2>1. AloneOK
    BY DEF Init, AloneOK, CurrentFile, IdleWriter
  <2>2. CandlesIn(stored) = {} /\ \A k \in Candles : batchOf[k] = {}
    BY DEF Init, CandlesIn, NoBars
  <2>3. \A i \in Writers : GoesForward(writer[i], CandlesIn(stored))
    BY BeginsForward DEF Init
  <2>4. \A i \in Readers : GoesBack(reader[i], CandlesIn(stored), batchOf)
    BY DEF Init, GoesBack, IdleReader
  <2> QED
    BY <2>1, <2>2, <2>3, <2>4 DEF HoleOK, BatchesWhole
<1>2. TypeOK /\ AloneOK /\ HoleOK /\ [Next]_vars => AloneOK' /\ HoleOK'
  BY NextAlone, NextHole
<1>3. HoleOK => ReadsNoHole
  BY DEF HoleOK, GoesBack, ReadsNoHole
<1> QED
  BY <1>1, <1>2, <1>3, StoreTypeCorrect, PTL DEF Spec

=============================================================================
