--------------------------- MODULE StrategyBroker ---------------------------
(***************************************************************************)
(* The broker that the Pine engine simulates behind strategy.* (engine     *)
(* module builtins/strategy.py, driven by the bar loop of runtime/host.py).*)
(* A script places, replaces and cancels orders while it visits a bar; the *)
(* orders fill when a later bar starts, and again whenever the script      *)
(* places a bracket.  Prices are left out: whether a priced order is       *)
(* touched by a bar is a free choice, the same for the whole of the bar.   *)
(***************************************************************************)
EXTENDS Integers, FiniteSets, FiniteSetsExt

CONSTANTS
  Long, Short, \* the directions of a position or an order
  Ids,         \* order ids of scripts
  CloseAll,    \* the id of the order of strategy.close_all
  None,        \* no order, no from_entry, no OCA group
  Qtys,        \* quantities a script may ask for
  Caps,        \* values of max_fill_per_bar; 0 is no cap
  OcaNames,    \* names of OCA groups; a bracket's is its id
  Groups,      \* OCA groups a strategy.order may be placed in
  Allowed,     \* the directions of strategy.risk.allow_entry_in
  Pyramiding,  \* strategy(pyramiding=...)
  MaxBars,     \* bound: bars
  MaxCalls,    \* bound: calls of the script
  MaxHalts     \* bound: times the risk rules stop entries

Sides == {Long, Short}
Flat == "flat"
OcaTypes == {"cancel", "reduce"}

ASSUME SidesAssumption == Long # Short /\ Flat \notin Sides
ASSUME NamesAssumption == CloseAll \notin Ids /\ None \notin Ids \union {CloseAll}
ASSUME NoneAssumption == None \notin [name: OcaNames, type: OcaTypes]
ASSUME QtysAssumption == Qtys \subseteq Nat \ {0} /\ Caps \subseteq Nat
ASSUME GroupsAssumption == Ids \subseteq OcaNames /\ Groups \subseteq [name: OcaNames, type: OcaTypes]
ASSUME RiskAssumption == Allowed \subseteq Sides /\ Pyramiding \in Nat
ASSUME BoundsAssumption == MaxBars \in Nat /\ MaxCalls \in Nat /\ MaxHalts \in Nat

VARIABLES
  pending,  \* pending_orders: the order under each key
  side,     \* position_direction
  size,     \* position_size, never negative
  legs,     \* open_trades, numbered from the oldest
  blocked,  \* the risk rules let no entry through
  bar,      \* bar_index
  queue,    \* keys that process_pending_orders has still to look at
  visiting, \* the script is visiting the bar; else orders are processed
  touched,  \* the priced orders whose price the bar touches
  entered,  \* history: contracts of all entries
  exited,   \* history: contracts of closed_trades
  overrun,  \* history: an exit of one entry has run over the other entries
  fills,    \* history: fills of the present bracket of an id
  calls, halts

position == << side, size, legs >>
account == << entered, exited, overrun >>
vars == << pending, position, blocked, bar, queue, visiting, touched,
           account, fills, calls, halts >>

----------------------------------------------------------------------------
(* The key of an order in pending_orders is an id, or an id and a suffix;  *)
(* the id that an order carries itself may be that of another key.         *)
Parts == {"own", "close", "limit", "stop"}
Keys == (Ids \union {CloseAll}) \X Parts
Own(id) == << id, "own" >>

(* side is where the order trades to, left its remaining_qty.              *)
Order == [order: Keys, market: BOOLEAN, side: Sides, left: Nat, cap: Nat,
          oca: [name: OcaNames, type: OcaTypes] \union {None}, from: Ids \union {None},
          entry: BOOLEAN, bar: Nat, no: Nat]

Leg == [no: Nat, id: Keys, size: Nat]

Live(k) == pending[k] # None
Empty == [k \in Keys |-> None]

TypeOK ==
  /\ pending \in [Keys -> Order \union {None}]
  /\ side \in Sides \union {Flat}
  /\ size \in Nat
  /\ legs \subseteq Leg
  /\ blocked \in BOOLEAN
  /\ bar \in 0..MaxBars
  /\ queue \subseteq Keys
  /\ visiting \in BOOLEAN
  /\ touched \subseteq Keys
  /\ entered \in Nat /\ exited \in Nat
  /\ overrun \in BOOLEAN
  /\ fills \in [Ids -> Nat]
  /\ calls \in 0..MaxCalls
  /\ halts \in 0..MaxHalts

Init ==
  /\ pending = Empty
  /\ side = Flat /\ size = 0 /\ legs = {}
  /\ blocked = FALSE
  /\ bar = 0 /\ queue = {} /\ visiting = TRUE /\ touched = {}
  /\ entered = 0 /\ exited = 0 /\ overrun = FALSE
  /\ fills = [id \in Ids |-> 0]
  /\ calls = 0 /\ halts = 0

Least(a, b) == IF a < b THEN a ELSE b
Opposite(d) == CHOOSE e \in Sides : e # d
Sizes(ls) == MapThenSumSet(LAMBDA l : l.size, ls)

(* _risk_allows_entry.                                                     *)
Allows(halted, d) == d \in Allowed /\ ~halted

(* The risk rules look at the equity: they may stop entries at any time,   *)
(* for good or, those about a day, until a later bar.                      *)
Halts == ~blocked /\ blocked' = TRUE /\ halts < MaxHalts /\ halts' = halts + 1
MayHalt == Halts \/ UNCHANGED << blocked, halts >>

----------------------------------------------------------------------------
(* The position, as a record [side, size, legs].                           *)
Position == [side |-> side, size |-> size, legs |-> legs]

(* _entry_open_size.                                                       *)
LegsOf(from, ls) == IF from = None THEN ls ELSE {l \in ls : l.id = Own(from)}
OpenSize(from) == Sizes(LegsOf(from, legs))

(* What is closed of a leg: the oldest go first.                           *)
Covered(l, from, q, ls) ==
  LET older == Sizes({m \in LegsOf(from, ls) : m.no < l.no})
  IN  IF l \notin LegsOf(from, ls) \/ older >= q THEN 0
      ELSE Least(l.size, q - older)

Shrink(l, q) == [l EXCEPT !.size = @ - q]

(* _close_position.                                                        *)
Closed(p, from, q) ==
  LET left == {Shrink(l, Covered(l, from, q, p.legs)) :
                 l \in {m \in p.legs : Covered(m, from, q, p.legs) < m.size}}
  IN  [side |-> IF left = {} THEN Flat ELSE p.side, size |-> Sizes(left), legs |-> left]

Oldest(ls) == CHOOSE l \in ls : \A m \in ls : l.no <= m.no
NewLeg(id, q, ls) == [no |-> 1 + Max({0} \union {l.no : l \in ls}), id |-> id, size |-> q]

(* _open_position_qty: same direction, one leg that grows (pyramiding 0),  *)
(* or one leg more while there is room; otherwise a new position.          *)
RoomForOneMore(ls) == Cardinality(ls) <= Pyramiding + 1
HasRoom(ls) == Cardinality(ls) < Pyramiding + 1

Begun(d, id, q) == [side |-> d, size |-> q, legs |-> {NewLeg(id, q, {})}]
Merged(p, q) ==
  [side |-> p.side, size |-> p.size + q,
   legs |-> {[Oldest(p.legs) EXCEPT !.size = p.size + q]}]
AddsNoSize(p, id, q) ==
  [side |-> p.side, size |-> p.size, legs |-> p.legs \union {NewLeg(id, q, p.legs)}]
Appended(p, id, q) ==
  [side |-> p.side, size |-> p.size + q, legs |-> p.legs \union {NewLeg(id, q, p.legs)}]

Opened(p, d, id, q) ==
  CASE p.side # d -> Begun(d, id, q)
    [] p.side = d /\ Pyramiding = 0 -> Merged(p, q)
    [] p.side = d /\ Pyramiding > 0 /\ HasRoom(p.legs) -> Appended(p, id, q)
    [] OTHER -> p

Becomes(p) == side' = p.side /\ size' = p.size /\ legs' = p.legs

----------------------------------------------------------------------------
(* The calls of the script.  One that is rejected, or has nothing to do,   *)
(* leaves no trace but an event, and is left out.                          *)
Call == visiting /\ calls < MaxCalls /\ calls' = calls + 1

NextNo(p) == 1 + Max({0} \union {p[k].no : k \in {j \in Keys : p[j] # None}})

NewOrder(key, market, d, q) ==
  [order |-> key, market |-> market, side |-> d, left |-> q, cap |-> 0, oca |-> None,
   from |-> None, entry |-> FALSE, bar |-> bar, no |-> 0]

(* An order under a key that is taken replaces the old one in its place.   *)
Place(k, o) ==
  pending' = [pending EXCEPT ![k] =
                [o EXCEPT !.no = IF Live(k) THEN pending[k].no ELSE NextNo(pending)]]

OnlyPlaces == UNCHANGED << position, blocked, bar, queue, visiting, touched, account,
                           fills, halts >>

(* strategy.entry, at market or with a price.                              *)
Entry(id, market, d, q, cap) ==
  /\ Call
  /\ Allows(blocked, d)
  /\ market /\ side = d => Pyramiding > 0 /\ HasRoom(legs)
  /\ Place(Own(id), [NewOrder(Own(id), market, d, q) EXCEPT !.cap = cap, !.entry = market])
  /\ OnlyPlaces

(* strategy.order.                                                         *)
PlaceOrder(id, market, d, q, cap, oca) ==
  /\ Call
  /\ Place(Own(id), [NewOrder(Own(id), market, d, q) EXCEPT !.cap = cap, !.oca = oca])
  /\ OnlyPlaces

(* strategy.exit takes at most what is open.                               *)
ExitQtys(from) == {Least(q, OpenSize(from)) : q \in Qtys} \union {OpenSize(from)}

(* strategy.exit without a price.                                          *)
ExitAtMarket(id, from, q) ==
  /\ Call
  /\ side # Flat /\ q > 0
  /\ Place(<< id, "close" >>,
           [NewOrder(Own(id), TRUE, Opposite(side), q) EXCEPT !.from = from])
  /\ OnlyPlaces

(* strategy.exit with prices: a limit and a stop (or a trail), of which    *)
(* one cancels the other, or only one of them.  It replaces whatever is    *)
(* pending under the id, and then has the pending orders processed.        *)
Others(id) == [k \in Keys |-> IF k[1] = id THEN None ELSE pending[k]]

LegAlone(k, id, from, q, no) ==
  [NewOrder(k, FALSE, Opposite(side), q) EXCEPT !.from = from, !.no = no]
BracketLeg(k, id, from, q, no) ==
  [NewOrder(k, FALSE, Opposite(side), q) EXCEPT
     !.oca = [name |-> id, type |-> "cancel"], !.from = from, !.no = no]

Process == visiting' = FALSE /\ queue' = {k \in Keys : pending'[k] # None}

Bracket(id, from, q) ==
  LET n == NextNo(Others(id))
  IN  /\ Call
      /\ side # Flat /\ q > 0
      /\ pending' = [Others(id) EXCEPT
                       ![<< id, "limit" >>] = BracketLeg(<< id, "limit" >>, id, from, q, n),
                       ![<< id, "stop" >>] = BracketLeg(<< id, "stop" >>, id, from, q, n + 1)]
      /\ fills' = [fills EXCEPT ![id] = 0]
      /\ Process
      /\ UNCHANGED << position, blocked, bar, touched, account, halts >>

ExitAtPrice(id, from, q) ==
  /\ Call
  /\ side # Flat /\ q > 0
  /\ pending' = [Others(id) EXCEPT
                   ![Own(id)] = [NewOrder(Own(id), FALSE, Opposite(side), q) EXCEPT
                                   !.from = from, !.no = NextNo(Others(id))]]
  /\ Process
  /\ UNCHANGED << position, blocked, bar, touched, account, fills, halts >>

(* strategy.close; its quantity may be more than is open.                  *)
Close(id, q) ==
  /\ Call
  /\ side # Flat
  /\ Place(<< id, "close" >>, NewOrder(Own(id), TRUE, Opposite(side), q))
  /\ OnlyPlaces

(* strategy.close_all.                                                     *)
PlaceCloseAll ==
  /\ Call
  /\ side # Flat
  /\ Place(Own(CloseAll), NewOrder(Own(CloseAll), TRUE, Opposite(side), size))
  /\ OnlyPlaces

(* strategy.cancel, strategy.cancel_all.                                   *)
Cancel(id) ==
  /\ Call
  /\ Live(Own(id))
  /\ pending' = [pending EXCEPT ![Own(id)] = None]
  /\ OnlyPlaces

CancelAll ==
  /\ Call
  /\ pending # Empty
  /\ pending' = Empty
  /\ OnlyPlaces

----------------------------------------------------------------------------
(* process_pending_orders takes the keys there are when it starts, in      *)
(* their order; a key whose order is gone when its turn comes is passed.   *)
IsNext(k) == k \in queue /\ \A j \in queue : pending[k].no <= pending[j].no

Goes(k, book) ==
  /\ pending' = book
  /\ queue' = {j \in queue \ {k} : book[j] # None}

(* Nothing is left of the order, only its key.                             *)
Drop(k) ==
  /\ IsNext(k) /\ pending[k].left = 0
  /\ Goes(k, [pending EXCEPT ![k] = None])
  /\ UNCHANGED << position, blocked, bar, visiting, touched, account, fills, calls, halts >>

IsDue(k) ==
  /\ IsNext(k) /\ pending[k].left > 0
  /\ pending[k].bar # bar
  /\ pending[k].market \/ k \in touched

(* Placed on this bar, or not touched by it.                               *)
Keep(k) ==
  /\ IsNext(k) /\ pending[k].left > 0
  /\ ~IsDue(k)
  /\ Goes(k, pending)
  /\ UNCHANGED << position, blocked, bar, visiting, touched, account, fills, calls, halts >>

FillQty(o) == IF o.cap > 0 THEN Least(o.left, o.cap) ELSE o.left

(* _apply_oca_after_fill on an order of the same group.                    *)
ReducesBelowZero(other, type, q) ==
  IF type = "cancel" \/ other.left = q THEN None
  ELSE [other EXCEPT !.left = other.left - q]
AfterOca(other, type, q) ==
  IF type = "cancel" \/ other.left <= q THEN None
  ELSE [other EXCEPT !.left = other.left - q]

(* The pending orders after a fill: the order shrinks, those of its group  *)
(* go or shrink, and when it is complete the key that equals its id goes.  *)
AfterFill(k, q) ==
  LET o == pending[k]
  IN  [j \in Keys |->
         IF j = o.order /\ o.left = q THEN None
         ELSE IF j = k THEN [o EXCEPT !.left = o.left - q]
         ELSE IF o.oca # None /\ Live(j) /\ pending[j].oca # None /\ j # o.order
                 /\ pending[j].oca.name = o.oca.name
              THEN AfterOca(pending[j], o.oca.type, q)
         ELSE pending[j]]

CountFill(k) ==
  fills' = IF k[2] \in {"limit", "stop"} /\ k[1] \in Ids
           THEN [fills EXCEPT ![k[1]] = @ + 1] ELSE fills

(* An entry that the risk rules do not allow: the key of its id goes.      *)
RejectKeepsOrder(k) ==
  /\ IsDue(k)
  /\ side # Opposite(pending[k].side) /\ ~Allows(blocked, pending[k].side)
  /\ Goes(k, pending)
  /\ UNCHANGED << position, blocked, bar, visiting, touched, account, fills, calls, halts >>
Reject(k) ==
  LET o == pending[k]
  IN  /\ IsDue(k)
      /\ side # Opposite(o.side) /\ ~Allows(blocked, o.side)
      /\ Goes(k, [pending EXCEPT ![o.order] = None])
      /\ UNCHANGED << position, blocked, bar, visiting, touched, account, fills, calls,
                      halts >>

(* A fill with no position, or with one of its own direction.              *)
FillOpens(k) ==
  LET o == pending[k]
      q == FillQty(o)
      p == Opened(Position, o.side, o.order, q)
  IN  /\ IsDue(k)
      /\ side # Opposite(o.side) /\ Allows(blocked, o.side)
      /\ Becomes(p)
      /\ entered' = IF p = Position THEN entered ELSE entered + q
      /\ Goes(k, AfterFill(k, q)) /\ CountFill(k)
      /\ UNCHANGED << blocked, bar, visiting, touched, exited, overrun, calls, halts >>

(* A fill against a position: it covers the position or the entry it is    *)
(* for, and what is left of it opens; an entry at market covers the whole  *)
(* position and opens its quantity.                                        *)
CoversQtyOnly(o, q) == Least(q, OpenSize(o.from))
CoverQty(o, q) == IF o.entry THEN size ELSE Least(q, OpenSize(o.from))

RestOpensAnyway(o, rest) == rest > 0
RestOpens(o, rest) == rest > 0 /\ Allows(blocked', o.side)

FillCovers(k) ==
  LET o == pending[k]
      q == FillQty(o)
      rest == IF o.entry THEN q ELSE q - CoverQty(o, q)
      p == Closed(Position, o.from, CoverQty(o, q))
  IN  /\ IsDue(k)
      /\ side = Opposite(o.side)
      /\ MayHalt
      /\ exited' = exited + (size - p.size)
      /\ IF RestOpens(o, rest)
         THEN /\ Becomes(Opened(p, o.side, o.order, rest))
              /\ entered' = entered + rest
              /\ overrun' = (overrun \/ (o.from # None /\ p.side # Flat))
         ELSE /\ Becomes(p)
              /\ UNCHANGED << entered, overrun >>
      /\ Goes(k, AfterFill(k, q)) /\ CountFill(k)
      /\ UNCHANGED << bar, visiting, touched, calls >>

Fill(k) == FillOpens(k) \/ FillCovers(k)

(* The bar loop: the pending orders are processed, the script visits.      *)
Visit ==
  /\ ~visiting /\ queue = {}
  /\ visiting' = TRUE
  /\ UNCHANGED << pending, position, blocked, bar, queue, touched, account, fills, calls,
                  halts >>

NextBar ==
  /\ visiting /\ bar < MaxBars
  /\ bar' = bar + 1
  /\ blocked' \in {blocked, FALSE}
  /\ touched' \in SUBSET {k \in Keys : Live(k) /\ ~pending[k].market}
  /\ visiting' = FALSE /\ queue' = {k \in Keys : Live(k)}
  /\ UNCHANGED << pending, position, account, fills, calls, halts >>

Halt ==
  /\ Halts
  /\ UNCHANGED << pending, position, bar, queue, visiting, touched, account, fills, calls >>

ScriptCalls ==
  \/ \E id \in Ids, market \in BOOLEAN, d \in Sides, q \in Qtys, cap \in Caps :
       \/ Entry(id, market, d, q, cap)
       \/ \E oca \in Groups \union {None} : PlaceOrder(id, market, d, q, cap, oca)
  \/ \E id \in Ids, from \in Ids \union {None} :
       \E q \in ExitQtys(from) :
         ExitAtMarket(id, from, q) \/ Bracket(id, from, q) \/ ExitAtPrice(id, from, q)
  \/ \E id \in Ids : Cancel(id) \/ \E q \in Qtys \union {size} : Close(id, q)
  \/ PlaceCloseAll \/ CancelAll

Processing ==
  \/ \E k \in Keys : Drop(k) \/ Keep(k) \/ Reject(k) \/ FillOpens(k) \/ FillCovers(k)
  \/ Visit

Next == ScriptCalls \/ Processing \/ NextBar \/ Halt

Spec == Init /\ [][Next]_vars

----------------------------------------------------------------------------
(* Properties.                                                             *)

(* The size and the direction of the position, kept apart from the open    *)
(* trades by every fill, are those of the open trades.                     *)
PositionIsLegs == size = Sizes(legs) /\ (side = Flat <=> legs = {})

(* However entries, orders and reversals are mixed, no more than           *)
(* pyramiding + 1 trades are open.                                         *)
PyramidingCap == Cardinality(legs) <= Pyramiding + 1

(* Every contract that was entered is open or in a closed trade, as long   *)
(* as no exit of one entry has run over the others.                        *)
ContractsAccounted == overrun \/ entered - exited = size

(* Of the limit and the stop of a bracket one fills at most, also when the *)
(* bar touches both, and when the script places another bracket meanwhile. *)
OneLegFills == \A id \in Ids : fills[id] <= 1

(* A market order whose key is its id, with no cap, has filled, or has     *)
(* been refused, when the script visits the next bar.                      *)
OwnOrdersFillAtOpen ==
  visiting => \A k \in Keys :
    Live(k) /\ pending[k].market /\ pending[k].cap = 0 /\ pending[k].order = k
      => pending[k].bar = bar

(* No fill adds to a position that the risk rules do not allow, whether it *)
(* opens, adds, reverses, or is what an exit leaves over.                  *)
Adds == entered' # entered \/ (side' # side /\ side' # Flat)
EntriesAllowed == [][Adds => Allows(blocked', side')]_vars

(* Said of the code: an exit or a close reduces the position, and an exit  *)
(* of one entry leaves the others intact.                                  *)
IsExit(k) == k[2] # "own" \/ k = Own(CloseAll) \/ pending[k].from # None
Reduces(k) ==
  \A l \in legs' : \E m \in legs :
    l.no = m.no /\ l.id = m.id /\ l.size <= m.size
ExitsReduce == [][\A k \in Keys : IsNext(k) /\ IsExit(k) /\ Fill(k) => Reduces(k)]_vars

=============================================================================
