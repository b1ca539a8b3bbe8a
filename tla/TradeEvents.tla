---------------------------- MODULE TradeEvents ----------------------------
(***************************************************************************)
(* From a fill of the simulated broker to an order at the trade-worker.    *)
(* The calls and the fills of StrategyBroker record events in the buffer   *)
(* of the strategy; the bar loop (runtime/host.py) moves the buffer to the *)
(* log of the run; and when the run of a tick has ended, the whole log is  *)
(* posted, event by event (trade_forwarder.py).  The trade-worker executes *)
(* an order unless it knows its idempotency key.  A later tick runs the    *)
(* script over the same bars and one more: its log is a longer one.        *)
(***************************************************************************)
EXTENDS StrategyBroker, Sequences

CONSTANTS
  MaxLost,  \* bound: POSTs of a tick that fail
  MaxTicks  \* bound: visits of unconfirmed realtime ticks

ASSUME LostAssumption == MaxLost \in Nat /\ MaxTicks \in Nat

VARIABLES
  phase,    \* of the bar: "open", "visit", "done", and "posted" after a tick
  buffer,   \* strategy_state._events
  log,      \* all_events, the "events" of the run
  accepted, \* keys of the orders that the trade-worker has executed
  lost,     \* history: keys of which a POST of the last tick failed
  filled,   \* history: direction and bar of each fill
  before,   \* the snapshot of the broker before the visit
  ticks     \* realtime ticks that were rolled back

events == << phase, buffer, log, accepted, lost, filled, before, ticks >>
allVars == << vars, events >>

Kinds == {"order", "entry", "exit", "close", "close_all"}
Actions == {"LONG", "SHORT", "CLOSE_LONG", "CLOSE_SHORT"}
Event == [kind: Kinds, dir: Sides \union {None}, sized: BOOLEAN, bar: 0..MaxBars]
OrderKey == [kind: Kinds, dir: Sides \union {None}, bar: 0..MaxBars, action: Actions]

EventsTypeOK ==
  /\ TypeOK
  /\ phase \in {"open", "visit", "done", "posted"}
  /\ buffer \in Seq(Event) /\ log \in Seq(Event)
  /\ accepted \subseteq OrderKey /\ lost \subseteq OrderKey
  /\ filled \subseteq Sides \X (0..MaxBars)
  /\ ticks \in 0..MaxTicks

(* StrategyState.snapshot, taken when a tick may be unconfirmed; the       *)
(* histories are part of it.                                               *)
Snapshot ==
  [pending |-> pending, position |-> Position, blocked |-> blocked,
   account |-> account, fills |-> fills, filled |-> filled]

EventsInit ==
  /\ Init
  /\ phase = "visit"
  /\ buffer = << >> /\ log = << >>
  /\ accepted = {} /\ lost = {} /\ filled = {}
  /\ before = IF MaxTicks > 0 THEN Snapshot ELSE None
  /\ ticks = 0

----------------------------------------------------------------------------
(* What the calls and the fills record.  Events of which nothing is ever   *)
(* posted (cancellations, refused orders) are left out; close_all's has no *)
(* quantity.                                                               *)
Said(kind, d) == [kind |-> kind, dir |-> d, sized |-> kind # "close_all", bar |-> bar]

Records(es) ==
  /\ buffer' = buffer \o es
  /\ UNCHANGED << phase, log, accepted, lost, filled, before, ticks >>

InVisit == phase = "visit"

PlaceRecords ==
  \E id \in Ids, market \in BOOLEAN, d \in Sides, q \in Qtys, cap \in Caps :
    /\ \/ Entry(id, market, d, q, cap)
       \/ \E oca \in Groups \union {None} : PlaceOrder(id, market, d, q, cap, oca)
    /\ Records(<< Said("order", d) >>)

ExitRecords ==
  \E id \in Ids, from \in Ids \union {None} : \E q \in ExitQtys(from) :
    \/ /\ ExitAtMarket(id, from, q)
       /\ Records(<< Said("exit", None), Said("order", Opposite(side)) >>)
    \/ /\ Bracket(id, from, q) \/ ExitAtPrice(id, from, q)
       /\ Records(<< Said("exit", None) >>)

(* strategy.close with a quantity of its own, and strategy.close_all,      *)
(* record their event when there is no position, too.                      *)
NothingToClose == Call /\ side = Flat /\ UNCHANGED pending /\ OnlyPlaces

CloseRecords ==
  \/ /\ \/ NothingToClose
        \/ \E id \in Ids, q \in Qtys \union {size} : Close(id, q)
     /\ Records(<< Said("close", None) >>)
  \/ /\ NothingToClose \/ PlaceCloseAll
     /\ Records(<< Said("close_all", None) >>)

CancelRecords ==
  /\ CancelAll \/ \E id \in Ids : Cancel(id)
  /\ UNCHANGED events

(* A fill records the close of an entry that reverses, the entry if it     *)
(* opens anything, and the order it fills.                                 *)
EntryOfOldSide(k) == IF entered' = entered THEN << >> ELSE << Said("entry", side) >>
EntryOf(k) == IF entered' = entered THEN << >> ELSE << Said("entry", pending[k].side) >>
ReversalOf(k) == IF pending[k].entry THEN << Said("close", side) >> ELSE << >>

FillRecords(k) ==
  LET order == << Said("order", pending[k].side) >>
  IN  /\ \/ FillOpens(k) /\ buffer' = buffer \o EntryOf(k) \o order
         \/ FillCovers(k) /\ buffer' = buffer \o ReversalOf(k) \o EntryOf(k) \o order
      /\ filled' = filled \union {<< pending[k].side, bar >>}
      /\ UNCHANGED << phase, log, accepted, lost, before, ticks >>

PassesOver ==
  /\ \E k \in Keys : Drop(k) \/ Keep(k) \/ Reject(k)
  /\ UNCHANGED events

----------------------------------------------------------------------------
(* The bar loop.  What the fills at the start of the bar recorded is moved *)
(* to the log before the visit, which begins with an empty buffer; a       *)
(* processing inside the visit leaves the buffer alone.                    *)
NotDrained == log' = log /\ buffer' = << >>
Drained == log' = log \o buffer /\ buffer' = << >>

BeginVisit ==
  /\ Visit
  /\ phase = "open"
  /\ phase' = "visit" /\ Drained
  /\ before' = IF ticks < MaxTicks THEN Snapshot ELSE None
  /\ UNCHANGED << accepted, lost, filled, ticks >>

ResumeVisit == Visit /\ InVisit /\ UNCHANGED events

(* The visit was one of an unconfirmed realtime tick: the broker goes back *)
(* to where it was, and what the visit recorded is dropped.                *)
Restores(snap) ==
  /\ pending' = snap.pending /\ Becomes(snap.position) /\ blocked' = snap.blocked
  /\ entered' = snap.account[1] /\ exited' = snap.account[2] /\ overrun' = snap.account[3]
  /\ fills' = snap.fills /\ filled' = snap.filled
  /\ buffer' = << >>

UnconfirmedTick ==
  /\ InVisit /\ visiting
  /\ ticks < MaxTicks /\ ticks' = ticks + 1
  /\ Restores(before)
  /\ before' = IF ticks' < MaxTicks THEN before ELSE None
  /\ UNCHANGED << bar, queue, visiting, touched, calls, halts,
                  phase, log, accepted, lost >>

EndVisit ==
  /\ InVisit /\ visiting
  /\ phase' = "done" /\ Drained
  /\ before' = None
  /\ UNCHANGED << vars, accepted, lost, filled, ticks >>

BeginBar ==
  /\ phase \in {"done", "posted"}
  /\ NextBar
  /\ phase' = "open" /\ lost' = {}
  /\ UNCHANGED << buffer, log, accepted, filled, before, ticks >>

----------------------------------------------------------------------------
(* The trade forwarder.                                                    *)

(* _map_event_to_payload: the actions of the payloads of an event.  One    *)
(* without a quantity is not posted; an exit or a close without a          *)
(* direction is of a long.                                                 *)
ActionsOf(e) ==
  CASE ~e.sized -> {}
    [] e.sized /\ e.kind \in {"order", "entry"} ->
         {IF e.dir = Long THEN "LONG" ELSE "SHORT"}
    [] e.sized /\ e.kind \in {"exit", "close"} ->
         {IF e.dir = Short THEN "CLOSE_SHORT" ELSE "CLOSE_LONG"}
    [] OTHER -> {"CLOSE_LONG", "CLOSE_SHORT"}

(* _idempotency_key: neither the id of the order nor its quantity.         *)
KeyOf(e, action) == [kind |-> e.kind, dir |-> e.dir, bar |-> e.bar, action |-> action]

Posts == UNION {{<< n, action >> : action \in ActionsOf(log[n])} : n \in DOMAIN log}
KeysOf(posts) == {KeyOf(log[post[1]], post[2]) : post \in posts}

(* forward_events, when the run of a tick has ended: it goes on after a    *)
(* POST that fails, and never repeats it.  Nothing changes the log or what *)
(* is accepted meanwhile, so that the POSTs are one step.                  *)
ForwardEvents ==
  /\ phase = "done"
  /\ phase' = "posted"
  /\ \E failed \in UNION {kSubset(n, Posts) : n \in 0..MaxLost} :
       /\ accepted' = accepted \union KeysOf(Posts \ failed)
       /\ lost' = KeysOf(failed)
  /\ UNCHANGED << vars, buffer, log, filled, before, ticks >>

RiskHalts == Halt /\ UNCHANGED events

EventsNext ==
  \/ InVisit /\ (PlaceRecords \/ ExitRecords \/ CloseRecords \/ CancelRecords)
  \/ PassesOver \/ \E k \in Keys : FillRecords(k)
  \/ BeginVisit \/ ResumeVisit \/ UnconfirmedTick \/ EndVisit \/ BeginBar
  \/ ForwardEvents \/ RiskHalts

EventsSpec == EventsInit /\ [][EventsNext]_allVars

----------------------------------------------------------------------------
(* Properties.                                                             *)

(* When a tick has posted its events, every fill of the broker is an order *)
(* of its direction and its bar at the trade-worker, unless the POST of it *)
(* has just failed; also a fill at the start of a bar, before the script   *)
(* ran, and one of an earlier bar whose own tick failed or never came.     *)
FillsForwarded ==
  phase = "posted" =>
    \A f \in filled : \E key \in accepted \union lost :
      key.kind = "order" /\ key.dir = f[1] /\ key.bar = f[2]

(* Said of the code: close_all is posted as a close of the long and a      *)
(* close of the short side.                                                *)
CloseAllForwarded ==
  phase = "posted" =>
    \A n \in DOMAIN log : log[n].kind = "close_all" =>
      {KeyOf(log[n], "CLOSE_LONG"), KeyOf(log[n], "CLOSE_SHORT")}
        \subseteq accepted \union lost

=============================================================================
