------------------------- MODULE TradeEventsProofs -------------------------
(***************************************************************************)
(* Proofs about TradeEvents: the broker stays in order when the visits of  *)
(* unconfirmed ticks are rolled back, and every fill reaches the           *)
(* trade-worker, or is an order whose POST has just failed.                *)
(***************************************************************************)
EXTENDS TradeEvents, StrategyAccountProofs

----------------------------------------------------------------------------
(* Events.                                                                 *)

(* The order event of a fill, given by its direction and bar.              *)
IsOrderOf(e, f) == e.kind = "order" /\ e.sized /\ e.dir = f[1] /\ e.bar = f[2]
HasOrder(es, f) == \E n \in DOMAIN es : IsOrderOf(es[n], f)

LEMMA OrderStays ==
  ASSUME NEW s \in Seq(Event), NEW t \in Seq(Event), NEW f, HasOrder(s, f) \/ HasOrder(t, f)
  PROVE  HasOrder(s \o t, f)
<1>1. ASSUME NEW n \in DOMAIN s
      PROVE  n \in DOMAIN (s \o t) /\ (s \o t)[n] = s[n]
  OBVIOUS
<1>2. ASSUME NEW n \in DOMAIN t
      PROVE  /\ Len(s) + n \in DOMAIN (s \o t)
             /\ (s \o t)[Len(s) + n] = t[n]
  OBVIOUS
<1>3. CASE HasOrder(s, f)
  BY <1>1, <1>3 DEF HasOrder
<1>4. CASE HasOrder(t, f)
  BY <1>2, <1>4 DEF HasOrder
<1> QED
  BY <1>3, <1>4

LEMMA SaidIsEvent ==
  ASSUME bar \in 0..MaxBars, NEW kind \in Kinds, NEW d \in Sides \union {None}
  PROVE  Said(kind, d) \in Event
BY DEF Said, Event

(* The actions of an event, and the keys of its POSTs.                     *)
LEMMA ActionsAreActions ==
  ASSUME NEW e \in Event
  PROVE  /\ ActionsOf(e) \subseteq Actions
         /\ e.kind = "order" /\ e.sized => ActionsOf(e) # {}
<1>1. CASE ~e.sized
  BY <1>1 DEF ActionsOf
<1>2. CASE e.sized /\ e.kind \in {"order", "entry"}
  <2>1. ActionsOf(e) = {IF e.dir = Long THEN "LONG" ELSE "SHORT"}
    BY <1>2 DEF ActionsOf
  <2> QED
    BY <2>1 DEF Actions
<1>3. CASE e.sized /\ e.kind \in {"exit", "close"}
  <2>1. ActionsOf(e) = {IF e.dir = Short THEN "CLOSE_SHORT" ELSE "CLOSE_LONG"}
    BY <1>3 DEF ActionsOf
  <2> QED
    BY <1>3, <2>1 DEF Actions
<1>4. CASE e.sized /\ e.kind \notin {"order", "entry", "exit", "close"}
  <2>1. ActionsOf(e) = {"CLOSE_LONG", "CLOSE_SHORT"}
    BY <1>4 DEF ActionsOf
  <2> QED
    BY <1>4, <2>1 DEF Actions
<1> QED
  BY <1>1, <1>2, <1>3, <1>4

LEMMA PostsAreTyped ==
  ASSUME log \in Seq(Event), NEW posts, posts \subseteq Posts
  PROVE  KeysOf(posts) \subseteq OrderKey
<1>1. ASSUME NEW post \in Posts
      PROVE  KeyOf(log[post[1]], post[2]) \in OrderKey
  <2>1. PICK n \in DOMAIN log : \E action \in ActionsOf(log[n]) : post = << n, action >>
    BY DEF Posts
  <2>2. PICK action \in ActionsOf(log[n]) : post = << n, action >>
    BY <2>1
  <2>3. log[n] \in Event
    OBVIOUS
  <2>4. action \in Actions
    BY <2>3, ActionsAreActions
  <2> QED
    BY <2>2, <2>3, <2>4 DEF KeyOf, OrderKey, Event
<1> QED
  BY <1>1 DEF KeysOf

----------------------------------------------------------------------------
(* The invariant.                                                          *)

Fills == Sides \X (0..MaxBars)

(* A snapshot of a broker in order, whose fills the log tells of.          *)
SnapshotOK(snap, told) ==
  /\ TypedBook(snap.pending)
  /\ PositionOK(snap.position)
  /\ snap.blocked \in BOOLEAN
  /\ AccountsOK(snap.account, snap.position)
  /\ snap.fills \in [Ids -> Nat]
  /\ snap.filled \subseteq Fills
  /\ \A f \in snap.filled : HasOrder(told, f)

EventsTyped ==
  /\ phase \in {"open", "visit", "done", "posted"}
  /\ buffer \in Seq(Event) /\ log \in Seq(Event)
  /\ accepted \subseteq OrderKey /\ lost \subseteq OrderKey
  /\ filled \subseteq Fills
  /\ ticks \in 0..MaxTicks

(* Every fill has its order event, in the buffer or moved to the log; when *)
(* the run has ended it is in the log.                                     *)
FillsTold ==
  /\ \A f \in filled : HasOrder(log, f) \/ HasOrder(buffer, f)
  /\ phase \in {"done", "posted"} => visiting /\ buffer = << >>

SnapshotKept == InVisit /\ ticks < MaxTicks => SnapshotOK(before, log)

EventsOK ==
  /\ BrokerOK
  /\ EventsTyped
  /\ FillsTold
  /\ SnapshotKept
  /\ FillsForwarded

----------------------------------------------------------------------------
(* The steps.                                                              *)

(* What is recorded during the bar leaves the log and the snapshot alone.  *)
LEMMA RecordingKeeps ==
  ASSUME EventsOK, BrokerOK', NEW es \in Seq(Event),
         buffer' = buffer \o es, phase' = phase, log' = log, accepted' = accepted,
         lost' = lost, before' = before, ticks' = ticks,
         phase \notin {"done", "posted"},
         filled' \subseteq Fills,
         \A f \in filled' : f \in filled \/ HasOrder(es, f)
  PROVE  EventsOK'
<1>1. EventsTyped'
  <2>1. buffer \o es \in Seq(Event)
    BY DEF EventsOK, EventsTyped
  <2> QED
    BY <2>1 DEF EventsOK, EventsTyped
<1>2. ASSUME NEW f \in filled'
      PROVE  HasOrder(log', f) \/ HasOrder(buffer', f)
  <2>1. buffer \in Seq(Event)
    BY DEF EventsOK, EventsTyped
  <2>2. CASE f \in filled
    BY <2>1, <2>2, OrderStays DEF EventsOK, FillsTold
  <2>3. CASE HasOrder(es, f)
    BY <2>1, <2>3, OrderStays
  <2> QED
    BY <2>2, <2>3
<1>3. FillsTold'
  BY <1>2 DEF FillsTold
<1>4. SnapshotKept'
  BY DEF EventsOK, SnapshotKept, InVisit
<1>5. FillsForwarded'
  BY DEF FillsForwarded
<1> QED
  BY <1>1, <1>3, <1>4, <1>5 DEF EventsOK

(* A step of which nothing is recorded.                                    *)
LEMMA SilentKeeps ==
  ASSUME EventsOK, BrokerOK', UNCHANGED events, visiting => visiting' \/ InVisit
  PROVE  EventsOK'
<1>1. /\ phase' = phase /\ buffer' = buffer /\ log' = log /\ accepted' = accepted
      /\ lost' = lost /\ filled' = filled /\ before' = before /\ ticks' = ticks
  BY DEF events
<1>2. EventsTyped'
  BY <1>1 DEF EventsOK, EventsTyped
<1>3. FillsTold'
  BY <1>1 DEF EventsOK, FillsTold, InVisit
<1>4. SnapshotKept'
  BY <1>1 DEF EventsOK, SnapshotKept, InVisit
<1>5. FillsForwarded'
  BY <1>1 DEF EventsOK, FillsForwarded
<1> QED
  BY <1>2, <1>3, <1>4, <1>5 DEF EventsOK

LEMMA EventsFacts ==
  ASSUME EventsOK
  PROVE  /\ BrokerOK /\ bar \in 0..MaxBars
         /\ buffer \in Seq(Event) /\ log \in Seq(Event) /\ filled \subseteq Fills
BY DEF EventsOK, EventsTyped, BrokerOK, FlowOK

LEMMA RecordsKeeps ==
  ASSUME EventsOK, BrokerOK', InVisit, NEW es \in Seq(Event), Records(es)
  PROVE  EventsOK'
<1>1. filled' \subseteq Fills /\ phase \notin {"done", "posted"}
  BY EventsFacts DEF Records, InVisit
<1> QED
  BY <1>1, RecordingKeeps DEF Records

LEMMA PlaceRecordsKeeps ==
  ASSUME EventsOK, InVisit, PlaceRecords
  PROVE  EventsOK'
<1>1. PICK id \in Ids, market \in BOOLEAN, d \in Sides, q \in Qtys, cap \in Caps :
        /\ \/ Entry(id, market, d, q, cap)
           \/ \E oca \in Groups \union {None} : PlaceOrder(id, market, d, q, cap, oca)
        /\ Records(<< Said("order", d) >>)
  BY DEF PlaceRecords
<1>2. BrokerOK'
  BY <1>1, EntryKeeps, PlaceOrderKeeps, EventsFacts
<1>3. Said("order", d) \in Event
  BY SaidIsEvent, EventsFacts DEF Kinds
<1>4. << Said("order", d) >> \in Seq(Event)
  BY <1>3
<1> QED
  BY <1>1, <1>2, <1>4, RecordsKeeps

LEMMA ExitRecordsKeeps ==
  ASSUME EventsOK, InVisit, ExitRecords
  PROVE  EventsOK'
<1>1. PICK id \in Ids, from \in Ids \union {None} : \E q \in ExitQtys(from) :
        \/ /\ ExitAtMarket(id, from, q)
           /\ Records(<< Said("exit", None), Said("order", Opposite(side)) >>)
        \/ /\ Bracket(id, from, q) \/ ExitAtPrice(id, from, q)
           /\ Records(<< Said("exit", None) >>)
  BY DEF ExitRecords
<1>2. PICK q \in ExitQtys(from) :
        \/ /\ ExitAtMarket(id, from, q)
           /\ Records(<< Said("exit", None), Said("order", Opposite(side)) >>)
        \/ /\ Bracket(id, from, q) \/ ExitAtPrice(id, from, q)
           /\ Records(<< Said("exit", None) >>)
  BY <1>1
<1>3. Said("exit", None) \in Event
  BY SaidIsEvent, EventsFacts DEF Kinds
<1>4. CASE /\ ExitAtMarket(id, from, q)
           /\ Records(<< Said("exit", None), Said("order", Opposite(side)) >>)
  <2>1. BrokerOK'
    BY <1>4, ExitAtMarketKeeps, EventsFacts
  <2>2. Opposite(side) \in Sides
    BY <1>4, ExitFacts, EventsFacts DEF ExitAtMarket
  <2>3. Said("order", Opposite(side)) \in Event
    BY <2>2, SaidIsEvent, EventsFacts DEF Kinds
  <2>4. << Said("exit", None), Said("order", Opposite(side)) >> \in Seq(Event)
    BY <1>3, <2>3
  <2> QED
    BY <1>4, <2>1, <2>4, RecordsKeeps
<1>5. CASE /\ Bracket(id, from, q) \/ ExitAtPrice(id, from, q)
           /\ Records(<< Said("exit", None) >>)
  <2>1. BrokerOK'
    BY <1>5, BracketKeeps, ExitAtPriceKeeps, EventsFacts
  <2>2. << Said("exit", None) >> \in Seq(Event)
    BY <1>3
  <2> QED
    BY <1>5, <2>1, <2>2, RecordsKeeps
<1> QED
  BY <1>2, <1>4, <1>5

LEMMA CloseRecordsKeeps ==
  ASSUME EventsOK, InVisit, CloseRecords
  PROVE  EventsOK'
<1>1. << Said("close", None) >> \in Seq(Event) /\ << Said("close_all", None) >> \in Seq(Event)
  <2>1. Said("close", None) \in Event /\ Said("close_all", None) \in Event
    BY SaidIsEvent, EventsFacts DEF Kinds
  <2> QED
    BY <2>1
<1>2. ASSUME NothingToClose
      PROVE  BrokerOK'
  <2>1. Call /\ OnlyPlaces /\ pending' = pending
    BY <1>2 DEF NothingToClose
  <2>2. TypedBook(pending')
    BY <2>1, EventsFacts DEF BrokerOK
  <2> QED
    BY <2>1, <2>2, PlacingKeeps, EventsFacts
<1>3. ASSUME \E id \in Ids, q \in Qtys \union {size} : Close(id, q)
      PROVE  BrokerOK'
  BY <1>3, CloseKeeps, EventsFacts
<1>4. ASSUME PlaceCloseAll
      PROVE  BrokerOK'
  BY <1>4, PlaceCloseAllKeeps, EventsFacts
<1>5. BrokerOK'
  BY <1>2, <1>3, <1>4 DEF CloseRecords
<1>6. Records(<< Said("close", None) >>) \/ Records(<< Said("close_all", None) >>)
  BY DEF CloseRecords
<1> QED
  BY <1>1, <1>5, <1>6, RecordsKeeps

LEMMA CancelRecordsKeeps ==
  ASSUME EventsOK, InVisit, CancelRecords
  PROVE  EventsOK'
<1>1. BrokerOK'
  BY CancelKeeps, EventsFacts DEF CancelRecords
<1> QED
  BY <1>1, SilentKeeps DEF CancelRecords

(* Orders are only processed before the run has ended.                     *)
LEMMA ProcessingPhase ==
  ASSUME EventsOK, NEW k \in Keys, IsNext(k)
  PROVE  ~visiting /\ phase \notin {"done", "posted"}
<1>1. ~visiting
  BY DueKey, EventsFacts
<1> QED
  BY <1>1 DEF EventsOK, FillsTold

LEMMA PassesOverKeeps ==
  ASSUME EventsOK, PassesOver
  PROVE  EventsOK'
<1>1. PICK k \in Keys : Drop(k) \/ Keep(k) \/ Reject(k)
  BY DEF PassesOver
<1>2. BrokerOK'
  BY <1>1, PassKeepsBroker, EventsFacts
<1>3. IsNext(k)
  BY <1>1 DEF Drop, Keep, Reject, IsDue
<1>4. ~visiting
  BY <1>3, ProcessingPhase
<1> QED
  BY <1>2, <1>4, SilentKeeps DEF PassesOver

LEMMA FillRecordsKeeps ==
  ASSUME EventsOK, NEW k \in Keys, FillRecords(k)
  PROVE  EventsOK'
<1> DEFINE d == pending[k].side
           order == << Said("order", d) >>
           f == << d, bar >>
<1>1. Fill(k) /\ IsNext(k)
  BY DEF FillRecords, Fill, FillOpens, FillCovers, IsDue
<1>2. BrokerOK'
  BY <1>1, FillKeepsBroker, EventsFacts
<1>3. d \in Sides /\ bar \in 0..MaxBars
  BY <1>1, DueKey, EventsFacts DEF GoodOrder, Order
<1> HIDE DEF d
<1>4. Said("order", d) \in Event /\ IsOrderOf(Said("order", d), f)
  <2>1. Said("order", d) \in Event
    BY <1>3, SaidIsEvent DEF Kinds
  <2> QED
    BY <2>1 DEF Said, IsOrderOf
<1>5. order \in Seq(Event) /\ HasOrder(order, f)
  BY <1>4 DEF HasOrder
<1>6. EntryOf(k) \in Seq(Event)
  <2>1. Said("entry", d) \in Event
    BY <1>3, SaidIsEvent DEF Kinds
  <2> QED
    BY <2>1 DEF EntryOf, d
<1>7. FillCovers(k) => ReversalOf(k) \in Seq(Event)
  <2> SUFFICES ASSUME FillCovers(k)
               PROVE  ReversalOf(k) \in Seq(Event)
    OBVIOUS
  <2>1. side \in Sides
    BY <1>3, OtherSide DEF FillCovers, d
  <2>2. Said("close", side) \in Event
    BY <1>3, <2>1, SaidIsEvent DEF Kinds
  <2> QED
    BY <2>2 DEF ReversalOf
<1> HIDE DEF order
<1>8. buffer \in Seq(Event)
  BY EventsFacts
<1>9. PICK es \in Seq(Event) : buffer' = buffer \o es /\ HasOrder(es, f)
  <2>1. CASE FillOpens(k) /\ buffer' = buffer \o EntryOf(k) \o order
    <3> DEFINE es == EntryOf(k) \o order
    <3>1. es \in Seq(Event) /\ HasOrder(es, f)
      BY <1>5, <1>6, OrderStays
    <3>2. buffer' = buffer \o es
      BY <1>5, <1>6, <1>8, <2>1
    <3> QED
      BY <3>1, <3>2
  <2>2. CASE FillCovers(k) /\ buffer' = buffer \o ReversalOf(k) \o EntryOf(k) \o order
    <3> DEFINE start == ReversalOf(k) \o EntryOf(k)
               es == start \o order
    <3>1. start \in Seq(Event)
      BY <1>6, <1>7, <2>2
    <3>2. es \in Seq(Event) /\ HasOrder(es, f)
      <4> HIDE DEF start
      <4>1. es \in Seq(Event)
        BY <1>5, <3>1
      <4> QED
        BY <1>5, <3>1, <4>1, OrderStays
    <3>3. buffer' = buffer \o es
      BY <1>5, <1>6, <1>7, <1>8, <2>2
    <3> QED
      BY <3>2, <3>3
  <2> QED
    BY <2>1, <2>2 DEF FillRecords, order, d
<1>10. filled' = filled \union {f}
  BY DEF FillRecords, d
<1>11. f \in Fills
  BY <1>3 DEF Fills
<1> HIDE DEF f
<1>12. filled' \subseteq Fills /\ \A g \in filled' : g \in filled \/ HasOrder(es, g)
  BY <1>9, <1>10, <1>11, EventsFacts
<1>13. phase \notin {"done", "posted"}
  BY <1>1, ProcessingPhase
<1> QED
  BY <1>2, <1>9, <1>12, <1>13, RecordingKeeps DEF FillRecords


----------------------------------------------------------------------------
(* The bar loop: the snapshot is taken when the log has been brought up to *)
(* date, and going back to it forgets fills only with their events.        *)

LEMMA DrainedLog ==
  ASSUME EventsOK, Drained
  PROVE  /\ log' \in Seq(Event) /\ buffer' \in Seq(Event) /\ buffer' = << >>
         /\ \A f \in filled : HasOrder(log', f)
<1>1. log' = log \o buffer /\ buffer' = << >>
  BY DEF Drained
<1>2. log' \in Seq(Event) /\ buffer' \in Seq(Event)
  BY <1>1, EventsFacts
<1>3. ASSUME NEW f \in filled
      PROVE  HasOrder(log', f)
  BY <1>1, EventsFacts, OrderStays DEF EventsOK, FillsTold
<1> QED
  BY <1>1, <1>2, <1>3

LEMMA SnapshotInOrder ==
  ASSUME EventsOK, NEW told, \A f \in filled : HasOrder(told, f)
  PROVE  SnapshotOK(Snapshot, told)
<1>1. /\ TypedBook(pending) /\ PositionOK(Position) /\ blocked \in BOOLEAN
      /\ AccountsOK(account, Position) /\ fills \in [Ids -> Nat] /\ filled \subseteq Fills
  BY EventsFacts DEF BrokerOK, FlowOK
<1>2. /\ Snapshot.pending = pending /\ Snapshot.position = Position
      /\ Snapshot.blocked = blocked /\ Snapshot.account = account
      /\ Snapshot.fills = fills /\ Snapshot.filled = filled
  BY DEF Snapshot
<1> QED
  BY <1>1, <1>2 DEF SnapshotOK

LEMMA BeginVisitKeeps ==
  ASSUME EventsOK, BeginVisit
  PROVE  EventsOK'
<1>1. BrokerOK'
  BY LoopKeepsBroker, EventsFacts DEF BeginVisit
<1>2. /\ phase' = "visit" /\ Drained
      /\ before' = IF ticks < MaxTicks THEN Snapshot ELSE None
      /\ accepted' = accepted /\ lost' = lost /\ filled' = filled /\ ticks' = ticks
  BY DEF BeginVisit
<1>3. /\ log' \in Seq(Event) /\ buffer' \in Seq(Event) /\ buffer' = << >>
      /\ \A f \in filled : HasOrder(log', f)
  BY <1>2, DrainedLog
<1>4. EventsTyped'
  BY <1>2, <1>3 DEF EventsOK, EventsTyped
<1>5. FillsTold'
  BY <1>2, <1>3 DEF FillsTold
<1>6. SnapshotKept'
  <2>1. ticks < MaxTicks => SnapshotOK(before', log')
    BY <1>2, <1>3, SnapshotInOrder
  <2> QED
    BY <1>2, <2>1 DEF SnapshotKept
<1>7. FillsForwarded'
  BY <1>2 DEF FillsForwarded
<1> QED
  BY <1>1, <1>4, <1>5, <1>6, <1>7 DEF EventsOK

LEMMA ResumeVisitKeeps ==
  ASSUME EventsOK, ResumeVisit
  PROVE  EventsOK'
<1>1. BrokerOK'
  BY LoopKeepsBroker, EventsFacts DEF ResumeVisit
<1> QED
  BY <1>1, SilentKeeps DEF ResumeVisit

LEMMA UnconfirmedTickKeeps ==
  ASSUME EventsOK, UnconfirmedTick
  PROVE  EventsOK'
<1>1. /\ InVisit /\ visiting /\ ticks < MaxTicks /\ ticks' = ticks + 1
      /\ Restores(before)
      /\ before' = IF ticks' < MaxTicks THEN before ELSE None
      /\ bar' = bar /\ queue' = queue /\ visiting' = visiting /\ touched' = touched
      /\ calls' = calls /\ halts' = halts /\ phase' = phase /\ log' = log
      /\ accepted' = accepted /\ lost' = lost
  BY DEF UnconfirmedTick
<1>2. SnapshotOK(before, log)
  BY <1>1 DEF EventsOK, SnapshotKept
<1>3. /\ pending' = before.pending /\ Becomes(before.position)
      /\ blocked' = before.blocked
      /\ entered' = before.account[1] /\ exited' = before.account[2]
      /\ overrun' = before.account[3]
      /\ fills' = before.fills /\ filled' = before.filled /\ buffer' = << >>
  BY <1>1 DEF Restores
<1>4. BrokerOK'
  <2>1. TypedBook(pending)'
    BY <1>2, <1>3 DEF SnapshotOK
  <2>2. PositionOK(Position)' /\ size' = before.position.size
    BY <1>2, <1>3, BecomesOK DEF SnapshotOK
  <2>3. AccountsOK(account, Position)'
    <3>1. /\ account[1]' = before.account[1] /\ account[2]' = before.account[2]
          /\ account[3]' = before.account[3]
          /\ Position.size' = before.position.size
      BY <1>3, <2>2 DEF account, Position
    <3>2. AccountsOK(before.account, before.position)
      BY <1>2 DEF SnapshotOK
    <3> QED
      BY <3>1, <3>2 DEF AccountsOK
  <2>4. FlowOK'
    BY <1>1, <1>2, <1>3, EventsFacts DEF SnapshotOK, BrokerOK, FlowOK
  <2>5. QueueOK'
    BY <1>1, EventsFacts DEF BrokerOK, QueueOK
  <2> QED
    BY <2>1, <2>2, <2>3, <2>4, <2>5 DEF BrokerOK
<1>5. EventsTyped'
  <2>1. ticks' \in 0..MaxTicks
    BY <1>1, LostAssumption DEF EventsOK, EventsTyped
  <2>2. filled' \subseteq Fills /\ buffer' \in Seq(Event)
    BY <1>2, <1>3 DEF SnapshotOK
  <2> QED
    BY <1>1, <2>1, <2>2 DEF EventsOK, EventsTyped
<1>6. FillsTold'
  BY <1>1, <1>2, <1>3 DEF FillsTold, SnapshotOK, InVisit
<1>7. SnapshotKept'
  BY <1>1, <1>2 DEF SnapshotKept
<1>8. FillsForwarded'
  BY <1>1 DEF FillsForwarded, InVisit
<1> QED
  BY <1>4, <1>5, <1>6, <1>7, <1>8 DEF EventsOK

LEMMA EndVisitKeeps ==
  ASSUME EventsOK, EndVisit
  PROVE  EventsOK'
<1>1. /\ visiting /\ phase' = "done" /\ Drained /\ UNCHANGED vars
      /\ accepted' = accepted /\ lost' = lost /\ filled' = filled /\ ticks' = ticks
  BY DEF EndVisit
<1>2. BrokerOK' /\ visiting'
  <2>1. visiting' = visiting
    BY <1>1 DEF vars
  <2> QED
    BY <1>1, <2>1, LoopKeepsBroker, EventsFacts
<1>3. /\ log' \in Seq(Event) /\ buffer' \in Seq(Event) /\ buffer' = << >>
      /\ \A f \in filled : HasOrder(log', f)
  BY <1>1, DrainedLog
<1>4. EventsTyped'
  BY <1>1, <1>3 DEF EventsOK, EventsTyped
<1>5. FillsTold'
  BY <1>1, <1>2, <1>3 DEF FillsTold
<1>6. SnapshotKept' /\ FillsForwarded'
  BY <1>1 DEF SnapshotKept, FillsForwarded, InVisit
<1> QED
  BY <1>2, <1>4, <1>5, <1>6 DEF EventsOK

LEMMA BeginBarKeeps ==
  ASSUME EventsOK, BeginBar
  PROVE  EventsOK'
<1>1. BrokerOK'
  BY LoopKeepsBroker, EventsFacts DEF BeginBar
<1>2. /\ phase' = "open" /\ lost' = {} /\ buffer' = buffer /\ log' = log
      /\ accepted' = accepted /\ filled' = filled /\ ticks' = ticks
  BY DEF BeginBar
<1>3. EventsTyped'
  BY <1>2 DEF EventsOK, EventsTyped
<1>4. FillsTold'
  BY <1>2 DEF EventsOK, FillsTold
<1>5. SnapshotKept' /\ FillsForwarded'
  BY <1>2 DEF SnapshotKept, FillsForwarded, InVisit
<1> QED
  BY <1>1, <1>3, <1>4, <1>5 DEF EventsOK

(* Every order event of the log is posted, and the POST either arrives or  *)
(* fails.                                                                  *)
LEMMA ForwardEventsKeeps ==
  ASSUME EventsOK, ForwardEvents
  PROVE  EventsOK'
<1>1. /\ phase = "done" /\ phase' = "posted" /\ UNCHANGED vars
      /\ buffer' = buffer /\ log' = log /\ filled' = filled /\ ticks' = ticks
  BY DEF ForwardEvents
<1>2. PICK failed \in UNION {kSubset(n, Posts) : n \in 0..MaxLost} :
        /\ accepted' = accepted \union KeysOf(Posts \ failed)
        /\ lost' = KeysOf(failed)
  BY DEF ForwardEvents
<1>3. failed \subseteq Posts
  BY <1>2 DEF kSubset
<1>4. BrokerOK' /\ visiting' = visiting
  BY <1>1, LoopKeepsBroker, EventsFacts DEF vars
<1>5. accepted' \subseteq OrderKey /\ lost' \subseteq OrderKey
  <2>1. KeysOf(Posts \ failed) \subseteq OrderKey /\ KeysOf(failed) \subseteq OrderKey
    BY <1>3, PostsAreTyped, EventsFacts
  <2> QED
    BY <1>2, <2>1 DEF EventsOK, EventsTyped
<1>6. EventsTyped'
  BY <1>1, <1>5 DEF EventsOK, EventsTyped
<1>7. FillsTold'
  BY <1>1, <1>4 DEF EventsOK, FillsTold
<1>8. ASSUME NEW f \in filled
      PROVE  \E key \in accepted' \union lost' :
               key.kind = "order" /\ key.dir = f[1] /\ key.bar = f[2]
  <2>1. HasOrder(log, f)
    <3>1. ~HasOrder(<< >>, f)
      BY DEF HasOrder
    <3> QED
      BY <1>1, <3>1 DEF EventsOK, FillsTold
  <2>2. PICK n \in DOMAIN log : IsOrderOf(log[n], f)
    BY <2>1 DEF HasOrder
  <2>3. PICK action \in ActionsOf(log[n]) : TRUE
    <3>1. log[n] \in Event
      BY EventsFacts
    <3> QED
      BY <2>2, <3>1, ActionsAreActions DEF IsOrderOf
  <2> DEFINE post == << n, action >>
             key == KeyOf(log[post[1]], post[2])
  <2>4. post \in Posts
    BY DEF Posts
  <2>5. key \in KeysOf(Posts \ failed) \union KeysOf(failed)
    <3> HIDE DEF post
    <3> QED
      BY <2>4 DEF KeysOf
  <2>6. key.kind = "order" /\ key.dir = f[1] /\ key.bar = f[2]
    BY <2>2 DEF KeyOf, IsOrderOf
  <2> HIDE DEF key
  <2> QED
    BY <1>2, <2>5, <2>6
<1>9. FillsForwarded'
  BY <1>1, <1>8 DEF FillsForwarded
<1>10. SnapshotKept'
  BY <1>1 DEF SnapshotKept, InVisit
<1> QED
  BY <1>4, <1>6, <1>7, <1>9, <1>10 DEF EventsOK

LEMMA RiskHaltsKeeps ==
  ASSUME EventsOK, RiskHalts \/ UNCHANGED allVars
  PROVE  EventsOK'
<1>1. UNCHANGED events /\ visiting' = visiting
  BY DEF RiskHalts, Halt, allVars, vars
<1>2. BrokerOK'
  BY LoopKeepsBroker, EventsFacts DEF RiskHalts, allVars
<1> QED
  BY <1>1, <1>2, SilentKeeps

LEMMA NextKeepsEvents ==
  ASSUME EventsOK, [EventsNext]_allVars
  PROVE  EventsOK'
<1>1. CASE InVisit /\ (PlaceRecords \/ ExitRecords \/ CloseRecords \/ CancelRecords)
  BY <1>1, PlaceRecordsKeeps, ExitRecordsKeeps, CloseRecordsKeeps, CancelRecordsKeeps
<1>2. CASE PassesOver
  BY <1>2, PassesOverKeeps
<1>3. CASE \E k \in Keys : FillRecords(k)
  BY <1>3, FillRecordsKeeps
<1>4. CASE BeginVisit \/ ResumeVisit \/ UnconfirmedTick \/ EndVisit \/ BeginBar
  BY <1>4, BeginVisitKeeps, ResumeVisitKeeps, UnconfirmedTickKeeps, EndVisitKeeps,
     BeginBarKeeps
<1>5. CASE ForwardEvents \/ RiskHalts \/ UNCHANGED allVars
  BY <1>5, ForwardEventsKeeps, RiskHaltsKeeps
<1> QED
  BY <1>1, <1>2, <1>3, <1>4, <1>5 DEF EventsNext

LEMMA InitEvents == EventsInit => EventsOK
<1> SUFFICES ASSUME EventsInit
             PROVE  EventsOK
  OBVIOUS
<1>1. BrokerOK
  BY InitBroker DEF EventsInit
<1>2. /\ phase = "visit" /\ buffer = << >> /\ log = << >>
      /\ accepted = {} /\ lost = {} /\ filled = {}
      /\ before = (IF MaxTicks > 0 THEN Snapshot ELSE None) /\ ticks = 0
  BY DEF EventsInit
<1>3. EventsTyped
  <2>1. ticks \in 0..MaxTicks
    BY <1>2, LostAssumption
  <2>2. buffer \in Seq(Event) /\ log \in Seq(Event)
    BY <1>2
  <2> QED
    BY <1>2, <2>1, <2>2 DEF EventsTyped
<1>4. FillsTold
  BY <1>2 DEF FillsTold
<1>5. FillsForwarded
  BY <1>2 DEF FillsForwarded
<1>6. SnapshotKept
  <2>1. SnapshotOK(Snapshot, log)
    <3>1. /\ TypedBook(pending) /\ PositionOK(Position) /\ blocked \in BOOLEAN
          /\ AccountsOK(account, Position) /\ fills \in [Ids -> Nat]
      BY <1>1 DEF BrokerOK, FlowOK
    <3>2. /\ Snapshot.pending = pending /\ Snapshot.position = Position
          /\ Snapshot.blocked = blocked /\ Snapshot.account = account
          /\ Snapshot.fills = fills /\ Snapshot.filled = {}
      BY <1>2 DEF Snapshot
    <3> QED
      BY <3>1, <3>2 DEF SnapshotOK
  <2>2. ticks < MaxTicks => before = Snapshot
    BY <1>2
  <2> QED
    BY <2>1, <2>2 DEF SnapshotKept
<1> QED
  BY <1>1, <1>3, <1>4, <1>5, <1>6 DEF EventsOK

(* The invariant holds of every run of the script, whatever is rolled     *)
(* back and whichever POSTs fail.                                          *)
THEOREM EventsInvariant == EventsSpec => []EventsOK
<1>1. EventsOK /\ [EventsNext]_allVars => EventsOK'
  BY NextKeepsEvents
<1> QED
  BY InitEvents, <1>1, PTL DEF EventsSpec

----------------------------------------------------------------------------
(* The theorems.                                                           *)

(* The state of the broker, the buffer, the log and the keys at the        *)
(* trade-worker are what they should be, also after a rollback.            *)
THEOREM EventsTypes == EventsSpec => []EventsTypeOK
<1>1. EventsOK => EventsTypeOK
  BY BrokerTyped DEF EventsOK, EventsTyped, EventsTypeOK, Fills
<1> QED
  BY <1>1, EventsInvariant, PTL

(* Going back to the snapshot of an unconfirmed tick leaves the position   *)
(* that of its trades, and every contract accounted for.                   *)
THEOREM RollbackKeepsAccounts == EventsSpec => [](PositionIsLegs /\ ContractsAccounted)
<1>1. EventsOK => PositionIsLegs /\ ContractsAccounted
  <2> SUFFICES ASSUME BrokerOK
               PROVE  PositionIsLegs /\ ContractsAccounted
    BY DEF EventsOK
  <2>1. PositionIsLegs
    BY PositionFacts DEF BrokerOK, PositionIsLegs
  <2>2. ContractsAccounted
    BY DEF BrokerOK, AccountsOK, account, Position, ContractsAccounted
  <2> QED
    BY <2>1, <2>2
<1> QED
  BY <1>1, EventsInvariant, PTL

(* When a tick has posted its events, every fill of the broker is an order *)
(* at the trade-worker or one whose POST has just failed: no fill is lost  *)
(* between the buffer, the log, a rollback and the forwarder.              *)
THEOREM EveryFillForwarded == EventsSpec => []FillsForwarded
<1>1. EventsOK => FillsForwarded
  BY DEF EventsOK
<1> QED
  BY <1>1, EventsInvariant, PTL

----------------------------------------------------------------------------
(* What the broker promises of its orders and trades survives a rollback.  *)

(* A snapshot of a book in order: a bracket that has filled has no leg     *)
(* left, and an order under its own id is of this bar.                     *)
BookOf(snap) ==
  /\ snap.pending = [k \in Keys |-> snap.pending[k]]
  /\ \A k \in Keys : snap.pending[k] # None =>
       /\ Formed(snap.pending[k])
       /\ k \in LegKeys => IsLeg(snap.pending[k], k)
       /\ IsOwn(snap.pending[k], k) => snap.pending[k].bar = bar
  /\ snap.fills \in [Ids -> {0, 1}]
  /\ \A id \in Ids : snap.fills[id] = 1 =>
       snap.pending[<< id, "limit" >>] = None /\ snap.pending[<< id, "stop" >>] = None
  /\ FewLegs(snap.position.legs)

RulesOK ==
  /\ OrdersOK /\ LegsOK
  /\ phase \in {"done", "posted"} => visiting
  /\ InVisit /\ ticks < MaxTicks => BookOf(before)

(* A step is one of the broker, a call that has nothing to close, or the   *)
(* rollback.                                                               *)
LEMMA EventSteps ==
  ASSUME [EventsNext]_allVars
  PROVE  [Next]_vars \/ NothingToClose \/ UnconfirmedTick
<1>1. CASE InVisit /\ (PlaceRecords \/ ExitRecords \/ CloseRecords \/ CancelRecords)
  <2>1. PlaceRecords => ScriptCalls
    BY DEF PlaceRecords, ScriptCalls
  <2>2. ExitRecords => ScriptCalls
    BY DEF ExitRecords, ScriptCalls
  <2>3. CloseRecords => ScriptCalls \/ NothingToClose
    BY DEF CloseRecords, ScriptCalls
  <2>4. CancelRecords => ScriptCalls
    BY DEF CancelRecords, ScriptCalls
  <2> QED
    BY <1>1, <2>1, <2>2, <2>3, <2>4 DEF Next
<1>2. CASE PassesOver \/ \E k \in Keys : FillRecords(k)
  <2>1. PassesOver => Processing
    BY DEF PassesOver, Processing
  <2>2. (\E k \in Keys : FillRecords(k)) => Processing
    BY DEF FillRecords, Processing
  <2> QED
    BY <1>2, <2>1, <2>2 DEF Next
<1>3. CASE BeginVisit \/ ResumeVisit \/ BeginBar \/ RiskHalts
  BY <1>3 DEF BeginVisit, ResumeVisit, BeginBar, RiskHalts, Next, Processing
<1>4. CASE EndVisit \/ ForwardEvents \/ UNCHANGED allVars
  BY <1>4 DEF EndVisit, ForwardEvents, allVars
<1> QED
  BY <1>1, <1>2, <1>3, <1>4 DEF EventsNext

LEMMA StepsKeepRules ==
  ASSUME OrdersOK, LegsOK, [Next]_vars \/ NothingToClose
  PROVE  OrdersOK' /\ LegsOK'
<1>1. CASE NothingToClose
  <2>1. legs' = legs
    BY <1>1 DEF NothingToClose, OnlyPlaces, position
  <2>2. /\ pending' = pending /\ visiting' = visiting /\ bar' = bar
        /\ queue' = queue /\ fills' = fills
    BY <1>1 DEF NothingToClose, Call, OnlyPlaces
  <2>3. OrdersOK'
    BY <2>2 DEF OrdersOK, BookOK, FillsOK, QueueOK, OwnOK, Live
  <2> QED
    BY <2>1, <2>3 DEF LegsOK, FewLegs
<1>2. CASE [Next]_vars
  <2>1. LegsOK'
    BY <1>2, OnlyFillsTouchPosition, FillsKeepFewLegs DEF LegsOK, FewLegs
  <2> QED
    BY <1>2, <2>1, NextKeepsOrders
<1> QED
  BY <1>1, <1>2

(* What is left alone when neither a visit begins, nor a bar, nor a        *)
(* rollback is made.                                                       *)
LEMMA QuietSteps ==
  ASSUME RulesOK,
         \/ InVisit /\ (PlaceRecords \/ ExitRecords \/ CloseRecords \/ CancelRecords)
         \/ PassesOver \/ \E k \in Keys : FillRecords(k)
         \/ ResumeVisit \/ RiskHalts \/ UNCHANGED allVars
  PROVE  /\ bar' = bar /\ phase' = phase /\ before' = before /\ ticks' = ticks
         /\ phase \in {"done", "posted"} => visiting'
<1>1. CASE InVisit /\ (PlaceRecords \/ ExitRecords \/ CloseRecords \/ CancelRecords)
  <2>1. phase' = phase /\ before' = before /\ ticks' = ticks
    BY <1>1 DEF PlaceRecords, ExitRecords, CloseRecords, CancelRecords, Records, events
  <2>2. ScriptCalls \/ NothingToClose
    BY <1>1 DEF PlaceRecords, ExitRecords, CloseRecords, CancelRecords, ScriptCalls
  <2>3. ScriptCalls => bar' = bar
    BY CallSteps DEF RulesOK, OrdersOK, CallStep
  <2>4. NothingToClose => bar' = bar
    BY DEF NothingToClose, OnlyPlaces
  <2> QED
    BY <1>1, <2>1, <2>2, <2>3, <2>4 DEF InVisit
<1>2. CASE PassesOver \/ \E k \in Keys : FillRecords(k)
  <2>1. phase' = phase /\ before' = before /\ ticks' = ticks
    BY <1>2 DEF PassesOver, FillRecords, events
  <2>2. PICK k \in Keys : Drop(k) \/ Keep(k) \/ Reject(k) \/ Fill(k)
    BY <1>2 DEF PassesOver, FillRecords, Fill
  <2>3. bar' = bar /\ IsNext(k)
    BY <2>2 DEF Drop, Keep, Reject, Fill, FillOpens, FillCovers, IsDue
  <2>4. phase \notin {"done", "posted"}
    BY <2>3, NextIsQueued DEF RulesOK
  <2> QED
    BY <2>1, <2>3, <2>4
<1>3. CASE ResumeVisit \/ RiskHalts \/ UNCHANGED allVars
  BY <1>3 DEF ResumeVisit, RiskHalts, Visit, Halt, allVars, vars, events, RulesOK
<1> QED
  BY <1>1, <1>2, <1>3

(* The snapshot is taken when nothing is queued.                           *)
LEMMA SnapshotBook ==
  ASSUME OrdersOK, LegsOK, queue = {}
  PROVE  BookOf(Snapshot)
<1>1. /\ Snapshot.pending = pending /\ Snapshot.fills = fills
      /\ Snapshot.position.legs = legs
  BY DEF Snapshot, Position
<1>2. FewLegs(Snapshot.position.legs)
  BY <1>1 DEF LegsOK, FewLegs
<1> QED
  BY <1>1, <1>2 DEF OrdersOK, BookOK, FillsOK, OwnOK, Live, BookOf

LEMMA RollbackKeepsRules ==
  ASSUME RulesOK, UnconfirmedTick
  PROVE  RulesOK'
<1>1. /\ InVisit /\ visiting /\ ticks < MaxTicks
      /\ before' = IF ticks' < MaxTicks THEN before ELSE None
      /\ bar' = bar /\ queue' = queue /\ visiting' = visiting /\ phase' = phase
      /\ pending' = before.pending /\ Becomes(before.position) /\ fills' = before.fills
  BY DEF UnconfirmedTick, Restores
<1>2. BookOf(before) /\ queue = {}
  BY <1>1 DEF RulesOK, OrdersOK, QueueOK
<1>3. BookOK' /\ FillsOK' /\ OwnOK'
  BY <1>1, <1>2 DEF BookOf, BookOK, FillsOK, OwnOK, Live
<1>4. QueueOK'
  BY <1>1, <1>2 DEF QueueOK
<1>5. LegsOK'
  <2>1. legs' = before.position.legs
    BY <1>1 DEF Becomes
  <2> QED
    BY <1>2, <2>1 DEF BookOf, LegsOK, FewLegs
<1>6. ticks' < MaxTicks => BookOf(before)'
  BY <1>1, <1>2 DEF BookOf, FewLegs
<1> QED
  BY <1>1, <1>3, <1>4, <1>5, <1>6 DEF RulesOK, OrdersOK

LEMMA NextKeepsRules ==
  ASSUME RulesOK, [EventsNext]_allVars
  PROVE  RulesOK'
<1>1. CASE UnconfirmedTick
  BY <1>1, RollbackKeepsRules
<1>2. CASE ~UnconfirmedTick
  <2>1. OrdersOK' /\ LegsOK'
    BY <1>2, EventSteps, StepsKeepRules DEF RulesOK
  <2>2. CASE BeginVisit
    <3>1. /\ queue = {} /\ bar' = bar /\ phase' = "visit"
          /\ before' = IF ticks < MaxTicks THEN Snapshot ELSE None
          /\ ticks' = ticks
      BY <2>2 DEF BeginVisit, Visit
    <3>2. BookOf(Snapshot)
      BY <3>1, SnapshotBook DEF RulesOK
    <3>3. ticks' < MaxTicks => BookOf(before)'
      BY <3>1, <3>2 DEF BookOf, FewLegs
    <3> QED
      BY <2>1, <3>1, <3>3 DEF RulesOK
  <2>3. CASE EndVisit \/ BeginBar \/ ForwardEvents
    <3>1. phase' # "visit" /\ (phase' \in {"done", "posted"} => visiting')
      BY <2>3 DEF EndVisit, BeginBar, ForwardEvents, vars, RulesOK
    <3> QED
      BY <2>1, <3>1 DEF RulesOK, InVisit
  <2>4. CASE \/ InVisit /\ (PlaceRecords \/ ExitRecords \/ CloseRecords \/ CancelRecords)
             \/ PassesOver \/ \E k \in Keys : FillRecords(k)
             \/ ResumeVisit \/ RiskHalts \/ UNCHANGED allVars
    <3>1. /\ bar' = bar /\ phase' = phase /\ before' = before /\ ticks' = ticks
          /\ phase \in {"done", "posted"} => visiting'
      BY <2>4, QuietSteps
    <3>2. InVisit' /\ ticks' < MaxTicks => BookOf(before)'
      BY <3>1 DEF RulesOK, InVisit, BookOf, FewLegs
    <3> QED
      BY <2>1, <3>1, <3>2 DEF RulesOK
  <2> QED
    BY <1>2, <2>2, <2>3, <2>4 DEF EventsNext
<1> QED
  BY <1>1, <1>2

LEMMA InitRules == EventsInit => RulesOK
<1> SUFFICES ASSUME EventsInit
             PROVE  RulesOK
  OBVIOUS
<1>1. Init /\ phase = "visit" /\ before = (IF MaxTicks > 0 THEN Snapshot ELSE None) /\ ticks = 0
  BY DEF EventsInit
<1>2. OrdersOK
  BY <1>1, InitOrders
<1>3. LegsOK /\ queue = {}
  BY <1>1, FS_EmptySet, RiskAssumption DEF Init, LegsOK, FewLegs
<1>4. BookOf(Snapshot)
  BY <1>2, <1>3, SnapshotBook
<1> QED
  BY <1>1, <1>2, <1>3, <1>4 DEF RulesOK

(* A visit that is rolled back leaves no order of it behind: also with     *)
(* unconfirmed ticks one leg of a bracket fills at most, no own order      *)
(* waits for a second open, and pyramiding is kept.                        *)
THEOREM RollbackKeepsPromises ==
  EventsSpec => [](PyramidingCap /\ OneLegFills /\ OwnOrdersFillAtOpen)
<1>1. RulesOK /\ [EventsNext]_allVars => RulesOK'
  BY NextKeepsRules
<1>2. RulesOK => PyramidingCap /\ OneLegFills /\ OwnOrdersFillAtOpen
  <2> SUFFICES ASSUME OrdersOK, LegsOK
               PROVE  PyramidingCap /\ OneLegFills /\ OwnOrdersFillAtOpen
    BY DEF RulesOK
  <2>1. PyramidingCap
    BY DEF LegsOK, FewLegs, PyramidingCap
  <2>2. OneLegFills
    BY DEF OrdersOK, FillsOK, OneLegFills
  <2>3. OwnOrdersFillAtOpen
    BY DEF OrdersOK, OwnOK, OwnOrdersFillAtOpen, IsOwn
  <2> QED
    BY <2>1, <2>2, <2>3
<1> QED
  BY InitRules, <1>1, <1>2, PTL DEF EventsSpec

(* Also with unconfirmed ticks: what adds to the position, opens or turns  *)
(* it is a fill the risk rules allow, or the rollback to a position of     *)
(* before.                                                                 *)
THEOREM OnlyRollbacksPassTheRules ==
  EventsSpec => [][Adds => UnconfirmedTick \/ Allows(blocked', side')]_allVars
<1>1. [EventsNext]_allVars => [Adds => UnconfirmedTick \/ Allows(blocked', side')]_allVars
  <2> SUFFICES ASSUME [EventsNext]_allVars, Adds, ~UnconfirmedTick
               PROVE  Allows(blocked', side')
    OBVIOUS
  <2>1. CASE [Next]_vars
    BY <2>1, AddsAreAllowed
  <2>2. CASE NothingToClose
    BY <2>2 DEF NothingToClose, OnlyPlaces, position, account, Adds
  <2> QED
    BY <2>1, <2>2, EventSteps
<1> QED
  BY <1>1, PTL DEF EventsSpec

=============================================================================
