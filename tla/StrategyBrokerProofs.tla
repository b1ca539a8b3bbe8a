------------------------ MODULE StrategyBrokerProofs ------------------------
(***************************************************************************)
(* Proofs about StrategyBroker: what holds of the orders and the open      *)
(* trades for every set of ids, quantities, caps and OCA groups, every     *)
(* pyramiding, and scripts of any length.                                  *)
(***************************************************************************)
EXTENDS StrategyBroker, FiniteSetTheorems, TLAPS

----------------------------------------------------------------------------
(* The open trades.                                                        *)

FewLegs(ls) == IsFiniteSet(ls) /\ Cardinality(ls) <= Pyramiding + 1

(* One open trade is never too many.                                       *)
LEMMA OneLeg ==
  ASSUME NEW l
  PROVE  FewLegs({l})
<1>1. IsFiniteSet({l}) /\ Cardinality({l}) = 1
  BY FS_Singleton
<1> QED
  BY <1>1, RiskAssumption DEF FewLegs

(* A close shrinks open trades or removes them, and adds none.             *)
LEMMA ClosedFewLegs ==
  ASSUME NEW p, NEW from, NEW q, FewLegs(p.legs)
  PROVE  FewLegs(Closed(p, from, q).legs)
<1> DEFINE Taken(l) == Covered(l, from, q, p.legs)
           kept == {l \in p.legs : Taken(l) < l.size}
           left == {Shrink(l, Taken(l)) : l \in kept}
           f == [l \in kept |-> Shrink(l, Taken(l))]
<1>1. Closed(p, from, q).legs = left
  BY DEF Closed
<1>2. IsFiniteSet(kept) /\ Cardinality(kept) <= Cardinality(p.legs)
  BY FS_Subset, kept \in SUBSET p.legs DEF FewLegs
<1>3. f \in Surjection(kept, left)
  BY DEF Surjection
<1>4. IsFiniteSet(left) /\ Cardinality(left) <= Cardinality(kept)
  <2> HIDE DEF f, kept, left
  <2> QED BY <1>2, <1>3, FS_Surjection
<1>5. Cardinality(p.legs) \in Nat /\ Cardinality(kept) \in Nat /\ Cardinality(left) \in Nat
  <2> HIDE DEF f, kept, left
  <2> QED BY <1>2, <1>4, FS_CardinalityType DEF FewLegs
<1> QED
  <2> HIDE DEF f, kept, left
  <2> QED BY <1>1, <1>2, <1>4, <1>5, RiskAssumption DEF FewLegs

(* An entry adds an open trade only while there is room.                   *)
LEMMA OpenedFewLegs ==
  ASSUME NEW p, NEW d, NEW id, NEW q, FewLegs(p.legs)
  PROVE  FewLegs(Opened(p, d, id, q).legs)
<1>1. CASE p.side # d
  <2>1. Opened(p, d, id, q) = Begun(d, id, q)
    BY <1>1 DEF Opened
  <2>2. FewLegs({NewLeg(id, q, {})})
    BY OneLeg
  <2> QED BY <2>1, <2>2 DEF Begun
<1>2. CASE p.side = d /\ Pyramiding = 0
  <2>1. Opened(p, d, id, q) = Merged(p, q)
    BY <1>2 DEF Opened
  <2>2. FewLegs({[Oldest(p.legs) EXCEPT !.size = p.size + q]})
    BY OneLeg
  <2> QED BY <2>1, <2>2 DEF Merged
<1>3. CASE p.side = d /\ Pyramiding > 0 /\ HasRoom(p.legs)
  <2>1. Opened(p, d, id, q) = Appended(p, id, q)
    BY <1>3 DEF Opened
  <2> DEFINE l == NewLeg(id, q, p.legs)
  <2>2. Appended(p, id, q).legs = p.legs \union {l}
    BY DEF Appended
  <2>3. /\ IsFiniteSet(p.legs \union {l})
        /\ Cardinality(p.legs \union {l}) <= Cardinality(p.legs) + 1
    <3> HIDE DEF l
    <3>1. Cardinality(p.legs) \in Nat
      BY FS_CardinalityType DEF FewLegs
    <3> QED BY <3>1, FS_AddElement DEF FewLegs
  <2>4. Cardinality(p.legs) \in Nat /\ Cardinality(p.legs \union {l}) \in Nat
    <3> HIDE DEF l
    <3> QED BY <2>3, FS_CardinalityType DEF FewLegs
  <2>5. Cardinality(p.legs) < Pyramiding + 1
    BY <1>3 DEF HasRoom
  <2> QED
    <3> HIDE DEF l
    <3> QED BY <2>1, <2>2, <2>3, <2>4, <2>5, RiskAssumption DEF FewLegs
<1>4. CASE /\ p.side = d /\ ~(Pyramiding = 0)
           /\ ~(Pyramiding > 0 /\ HasRoom(p.legs))
  <2>1. Opened(p, d, id, q) = p
    BY <1>4 DEF Opened
  <2> QED BY <2>1
<1> QED BY <1>1, <1>2, <1>3, <1>4

(* After an entry the position has the entry's direction.                  *)
LEMMA OpenedSide ==
  ASSUME NEW p, NEW d, NEW id, NEW q
  PROVE  Opened(p, d, id, q).side = d
<1>1. CASE p.side # d
  BY <1>1 DEF Opened, Begun
<1>2. CASE p.side = d /\ Pyramiding = 0
  BY <1>2 DEF Opened, Merged
<1>3. CASE p.side = d /\ Pyramiding > 0 /\ HasRoom(p.legs)
  <2>1. Opened(p, d, id, q) = Appended(p, id, q)
    BY <1>3 DEF Opened
  <2> QED BY <2>1, <1>3 DEF Appended
<1>4. CASE /\ p.side = d /\ ~(Pyramiding = 0)
           /\ ~(Pyramiding > 0 /\ HasRoom(p.legs))
  <2>1. Opened(p, d, id, q) = p
    BY <1>4 DEF Opened
  <2> QED BY <2>1, <1>4
<1> QED BY <1>1, <1>2, <1>3, <1>4

LegsOK == FewLegs(legs)

(* Only fills touch the open trades.                                       *)
LEMMA FillsKeepFewLegs ==
  ASSUME LegsOK, NEW k \in Keys, Fill(k)
  PROVE  LegsOK'
<1>1. FewLegs(Position.legs)
  BY DEF LegsOK, Position
<1>2. CASE FillOpens(k)
  <2>1. PICK d, id, q : Becomes(Opened(Position, d, id, q))
    BY <1>2 DEF FillOpens
  <2>2. legs' = Opened(Position, d, id, q).legs
    BY <2>1 DEF Becomes
  <2> QED BY <2>2, <1>1, OpenedFewLegs DEF LegsOK, FewLegs
<1>3. CASE FillCovers(k)
  <2>1. PICK from, c, d, id, q : \/ Becomes(Opened(Closed(Position, from, c), d, id, q))
                                 \/ Becomes(Closed(Position, from, c))
    BY <1>3 DEF FillCovers
  <2>2. FewLegs(Closed(Position, from, c).legs)
    BY <1>1, ClosedFewLegs
  <2>3. FewLegs(Opened(Closed(Position, from, c), d, id, q).legs)
    BY <2>2, OpenedFewLegs
  <2>4. \/ legs' = Opened(Closed(Position, from, c), d, id, q).legs
        \/ legs' = Closed(Position, from, c).legs
    BY <2>1 DEF Becomes
  <2> QED BY <2>2, <2>3, <2>4 DEF LegsOK, FewLegs
<1> QED BY <1>2, <1>3 DEF Fill

----------------------------------------------------------------------------
(* The pending orders.                                                     *)

Fields == {"order", "market", "side", "left", "cap", "oca", "from", "entry", "bar", "no"}
Formed(o) == DOMAIN o = Fields

(* All that matters here of an order stays when it shrinks.                *)
Same(o, old) ==
  /\ Formed(o)
  /\ o.order = old.order /\ o.market = old.market
  /\ o.cap = old.cap /\ o.oca = old.oca /\ o.bar = old.bar

(* The limit and the stop of a bracket carry their own key, and cancel one *)
(* another.                                                                *)
LegKeys == Ids \X {"limit", "stop"}
IsLeg(o, k) ==
  /\ o.order = k /\ o.cap = 0
  /\ o.oca = [name |-> k[1], type |-> "cancel"]
  /\ o.market = FALSE

BookOK ==
  /\ pending = [k \in Keys |-> pending[k]]
  /\ \A k \in Keys : Live(k) => /\ Formed(pending[k])
                                /\ k \in LegKeys => IsLeg(pending[k], k)

(* What a step may do to the book: remove orders, shrink them, place some  *)
(* on this bar; legs of brackets are placed for the ids given only.        *)
Fresh(o, k, ids) ==
  /\ Formed(o) /\ o.bar = bar
  /\ k \in LegKeys => k[1] \in ids /\ IsLeg(o, k)

Shrinks(k) == pending'[k] = None \/ (Live(k) /\ Same(pending'[k], pending[k]))

BookStep(ids) ==
  /\ pending' = [k \in Keys |-> pending'[k]]
  /\ \A k \in Keys : Shrinks(k) \/ Fresh(pending'[k], k, ids)

(* A book step leaves the book as it should be.                            *)
LEMMA BookStepOK ==
  ASSUME BookOK, NEW ids, BookStep(ids)
  PROVE  BookOK'
<1> SUFFICES ASSUME NEW k \in Keys, pending'[k] # None
             PROVE  /\ Formed(pending'[k])
                    /\ k \in LegKeys => IsLeg(pending'[k], k)
  BY DEF BookStep, BookOK, Live
<1>1. CASE Fresh(pending'[k], k, ids)
  BY <1>1 DEF Fresh
<1>2. CASE Live(k) /\ Same(pending'[k], pending[k])
  BY <1>2 DEF BookOK, Same, IsLeg
<1> QED BY <1>1, <1>2 DEF BookStep, Shrinks

(* An order is shaped as it is made.                                       *)
LEMMA NewOrderFormed ==
  ASSUME NEW key, NEW market, NEW d, NEW q
  PROVE  /\ Formed(NewOrder(key, market, d, q))
         /\ NewOrder(key, market, d, q).bar = bar
BY DEF NewOrder, Formed, Fields

(* Placing an order under a key that is no leg's is a book step.           *)
LEMMA PlaceStep ==
  ASSUME BookOK, NEW k \in Keys, k \notin LegKeys,
         NEW o, Formed(o), o.bar = bar, Place(k, o)
  PROVE  BookStep({})
<1>1. PICK n : pending' = [pending EXCEPT ![k] = [o EXCEPT !.no = n]]
  BY DEF Place
<1>2. Fresh([o EXCEPT !.no = n], k, {})
  BY DEF Fresh, Formed, Fields
<1>3. pending' = [j \in Keys |-> pending'[j]]
  BY <1>1 DEF BookOK
<1>4. ASSUME NEW j \in Keys
      PROVE  Shrinks(j) \/ Fresh(pending'[j], j, {})
  <2>1. CASE j = k
    <3>1. pending'[k] = [o EXCEPT !.no = n]
      BY <1>1 DEF BookOK
    <3> QED BY <3>1, <2>1, <1>2
  <2>2. CASE j # k
    <3>1. pending'[j] = pending[j]
      BY <1>1, <2>2 DEF BookOK
    <3> QED BY <3>1 DEF Shrinks, Same, BookOK, Live
  <2> QED BY <2>1, <2>2
<1> QED BY <1>3, <1>4 DEF BookStep

(* What a call of the script does to orders, bar and brackets.             *)
FillsOK ==
  /\ fills \in [Ids -> {0, 1}]
  /\ \A id \in Ids : fills[id] = 1 =>
       ~Live(<< id, "limit" >>) /\ ~Live(<< id, "stop" >>)

CallStep(ids) ==
  /\ BookStep(ids)
  /\ visiting /\ bar' = bar
  /\ \/ visiting' /\ queue' = queue
     \/ ~visiting' /\ queue' = {k \in Keys : pending'[k] # None}
  /\ fills' = [id \in Ids |-> IF id \in ids THEN 0 ELSE fills[id]]

(* The keys that calls place orders under are no leg's, but for brackets.  *)
LEMMA CallKeys ==
  ASSUME NEW id \in Ids \union {CloseAll}
  PROVE  /\ << id, "own" >> \in Keys \ LegKeys
         /\ << id, "close" >> \in Keys \ LegKeys
BY DEF Keys, Parts, LegKeys

(* A call that places one order, and no bracket.                           *)
LEMMA PlacingCallStep ==
  ASSUME BookOK, FillsOK, Call, OnlyPlaces,
         NEW k \in Keys \ LegKeys, NEW o, Formed(o), o.bar = bar, Place(k, o)
  PROVE  CallStep({})
<1>1. BookStep({})
  BY PlaceStep
<1>2. fills' = [id \in Ids |-> IF id \in {} THEN 0 ELSE fills[id]]
  BY DEF OnlyPlaces, FillsOK
<1>3. visiting /\ visiting' /\ bar' = bar /\ queue' = queue
  BY DEF OnlyPlaces, Call
<1> QED BY <1>1, <1>2, <1>3 DEF CallStep

LEMMA EntryStep ==
  ASSUME BookOK, FillsOK,
         NEW id \in Ids, NEW market \in BOOLEAN, NEW d, NEW q, NEW cap,
         Entry(id, market, d, q, cap)
  PROVE  CallStep({})
<1> DEFINE o == [NewOrder(Own(id), market, d, q) EXCEPT !.cap = cap, !.entry = market]
<1>1. Formed(o) /\ o.bar = bar
  BY DEF NewOrder, Formed, Fields
<1>2. Own(id) \in Keys \ LegKeys
  BY CallKeys DEF Own
<1>3. Call /\ OnlyPlaces /\ Place(Own(id), o)
  BY DEF Entry
<1> QED
  <2> HIDE DEF o
  <2> QED BY <1>1, <1>2, <1>3, PlacingCallStep

LEMMA PlaceOrderStep ==
  ASSUME BookOK, FillsOK,
         NEW id \in Ids, NEW market \in BOOLEAN, NEW d, NEW q, NEW cap, NEW oca,
         PlaceOrder(id, market, d, q, cap, oca)
  PROVE  CallStep({})
<1> DEFINE o == [NewOrder(Own(id), market, d, q) EXCEPT !.cap = cap, !.oca = oca]
<1>1. Formed(o) /\ o.bar = bar
  BY DEF NewOrder, Formed, Fields
<1>2. Own(id) \in Keys \ LegKeys
  BY CallKeys DEF Own
<1>3. Call /\ OnlyPlaces /\ Place(Own(id), o)
  BY DEF PlaceOrder
<1> QED
  <2> HIDE DEF o
  <2> QED BY <1>1, <1>2, <1>3, PlacingCallStep

LEMMA ExitAtMarketStep ==
  ASSUME BookOK, FillsOK, NEW id \in Ids, NEW from, NEW q, ExitAtMarket(id, from, q)
  PROVE  CallStep({})
<1> DEFINE o == [NewOrder(Own(id), TRUE, Opposite(side), q) EXCEPT !.from = from]
<1>1. Formed(o) /\ o.bar = bar
  BY DEF NewOrder, Formed, Fields
<1>2. << id, "close" >> \in Keys \ LegKeys
  BY CallKeys
<1>3. Call /\ OnlyPlaces /\ Place(<< id, "close" >>, o)
  BY DEF ExitAtMarket
<1> QED
  <2> HIDE DEF o
  <2> QED BY <1>1, <1>2, <1>3, PlacingCallStep

LEMMA CloseStep ==
  ASSUME BookOK, FillsOK, NEW id \in Ids, NEW q, Close(id, q)
  PROVE  CallStep({})
<1> DEFINE o == NewOrder(Own(id), TRUE, Opposite(side), q)
<1>1. Formed(o) /\ o.bar = bar
  BY NewOrderFormed
<1>2. << id, "close" >> \in Keys \ LegKeys
  BY CallKeys
<1>3. Call /\ OnlyPlaces /\ Place(<< id, "close" >>, o)
  BY DEF Close
<1> QED
  <2> HIDE DEF o
  <2> QED BY <1>1, <1>2, <1>3, PlacingCallStep

LEMMA PlaceCloseAllStep ==
  ASSUME BookOK, FillsOK, PlaceCloseAll
  PROVE  CallStep({})
<1> DEFINE o == NewOrder(Own(CloseAll), TRUE, Opposite(side), size)
<1>1. Formed(o) /\ o.bar = bar
  BY NewOrderFormed
<1>2. Own(CloseAll) \in Keys \ LegKeys
  BY CallKeys DEF Own
<1>3. Call /\ OnlyPlaces /\ Place(Own(CloseAll), o)
  BY DEF PlaceCloseAll
<1> QED
  <2> HIDE DEF o
  <2> QED BY <1>1, <1>2, <1>3, PlacingCallStep

(* A call that only removes orders.                                        *)
LEMMA CancelStep ==
  ASSUME BookOK, FillsOK, CancelAll \/ \E id \in Ids : Cancel(id)
  PROVE  CallStep({})
<1>1. /\ pending' = [k \in Keys |-> pending'[k]]
      /\ \A k \in Keys : pending'[k] = None \/ pending'[k] = pending[k]
  <2>1. CASE CancelAll
    BY <2>1 DEF CancelAll, Empty
  <2>2. ASSUME NEW id \in Ids, Cancel(id)
        PROVE  <1>1
    <3>1. pending' = [pending EXCEPT ![Own(id)] = None]
      BY <2>2 DEF Cancel
    <3> QED BY <3>1 DEF BookOK
  <2> QED BY <2>1, <2>2
<1>2. BookStep({})
  BY <1>1 DEF BookStep, Shrinks, Same, BookOK, Live
<1>3. Call /\ OnlyPlaces
  BY DEF CancelAll, Cancel
<1>4. fills' = [id \in Ids |-> IF id \in {} THEN 0 ELSE fills[id]]
  BY <1>3 DEF OnlyPlaces, FillsOK
<1>5. visiting /\ visiting' /\ bar' = bar /\ queue' = queue
  BY <1>3 DEF OnlyPlaces, Call
<1> QED BY <1>2, <1>4, <1>5 DEF CallStep

(* What is left when an exit with prices has removed what was pending.     *)
LEMMA OthersBook ==
  ASSUME BookOK, NEW id \in Ids, NEW k \in Keys
  PROVE  Others(id)[k] = None \/ Others(id)[k] = pending[k]
BY DEF Others

LEMMA BracketStep ==
  ASSUME BookOK, FillsOK, NEW id \in Ids, NEW from, NEW q, Bracket(id, from, q)
  PROVE  CallStep({id})
<1> DEFINE l == << id, "limit" >>
           s == << id, "stop" >>
<1>1. PICK n, m : pending' = [Others(id) EXCEPT ![l] = BracketLeg(l, id, from, q, n),
                                               ![s] = BracketLeg(s, id, from, q, m)]
  BY DEF Bracket
<1>2. l \in Keys /\ s \in Keys /\ l # s /\ l \in LegKeys /\ s \in LegKeys
  BY DEF Keys, Parts, LegKeys
<1>3. \A x : Fresh(BracketLeg(l, id, from, q, x), l, {id})
  BY DEF BracketLeg, NewOrder, Fresh, Formed, Fields, IsLeg
<1>4. \A x : Fresh(BracketLeg(s, id, from, q, x), s, {id})
  BY DEF BracketLeg, NewOrder, Fresh, Formed, Fields, IsLeg
<1>5. pending' = [k \in Keys |-> pending'[k]]
  BY <1>1 DEF Others
<1>6. ASSUME NEW k \in Keys
      PROVE  Shrinks(k) \/ Fresh(pending'[k], k, {id})
  <2>1. CASE k = l
    <3>1. pending'[l] = BracketLeg(l, id, from, q, n)
      <4> HIDE DEF l, s
      <4> QED BY <1>1, <1>2 DEF Others
    <3> QED BY <2>1, <3>1, <1>3
  <2>2. CASE k = s
    <3>1. pending'[s] = BracketLeg(s, id, from, q, m)
      <4> HIDE DEF l, s
      <4> QED BY <1>1, <1>2 DEF Others
    <3> QED BY <2>2, <3>1, <1>4
  <2>3. CASE k # l /\ k # s
    <3>1. pending'[k] = Others(id)[k]
      <4> HIDE DEF l, s
      <4> QED BY <1>1, <2>3 DEF Others
    <3>2. pending'[k] = None \/ pending'[k] = pending[k]
      BY <3>1, OthersBook
    <3> QED BY <3>2 DEF Shrinks, Same, BookOK, Live
  <2> QED BY <2>1, <2>2, <2>3
<1>7. fills' = [i \in Ids |-> IF i \in {id} THEN 0 ELSE fills[i]]
  BY DEF Bracket, FillsOK
<1>8. visiting /\ ~visiting' /\ bar' = bar /\ queue' = {k \in Keys : pending'[k] # None}
  BY DEF Bracket, Call, Process
<1> QED BY <1>5, <1>6, <1>7, <1>8 DEF CallStep, BookStep

LEMMA ExitAtPriceStep ==
  ASSUME BookOK, FillsOK, NEW id \in Ids, NEW from, NEW q, ExitAtPrice(id, from, q)
  PROVE  CallStep({})
<1>1. PICK n : pending' =
         [Others(id) EXCEPT ![Own(id)] =
            [NewOrder(Own(id), FALSE, Opposite(side), q) EXCEPT !.from = from, !.no = n]]
  BY DEF ExitAtPrice
<1> DEFINE o == [NewOrder(Own(id), FALSE, Opposite(side), q) EXCEPT !.from = from, !.no = n]
<1>2. Formed(o) /\ o.bar = bar
  BY DEF NewOrder, Formed, Fields
<1>3. Own(id) \in Keys \ LegKeys
  BY CallKeys DEF Own
<1>4. pending' = [k \in Keys |-> pending'[k]]
  BY <1>1 DEF Others
<1>5. ASSUME NEW k \in Keys
      PROVE  Shrinks(k) \/ Fresh(pending'[k], k, {})
  <2>1. CASE k = Own(id)
    <3>1. pending'[k] = o
      BY <1>1, <2>1 DEF Others
    <3> QED BY <2>1, <3>1, <1>2, <1>3 DEF Fresh
  <2>2. CASE k # Own(id)
    <3>1. pending'[k] = Others(id)[k]
      BY <1>1, <2>2 DEF Others
    <3>2. pending'[k] = None \/ pending'[k] = pending[k]
      BY <3>1, OthersBook
    <3> QED BY <3>2 DEF Shrinks, Same, BookOK, Live
  <2> QED BY <2>1, <2>2
<1>6. fills' = [i \in Ids |-> IF i \in {} THEN 0 ELSE fills[i]]
  BY DEF ExitAtPrice, FillsOK
<1>7. visiting /\ ~visiting' /\ bar' = bar /\ queue' = {k \in Keys : pending'[k] # None}
  BY DEF ExitAtPrice, Call, Process
<1> QED BY <1>4, <1>5, <1>6, <1>7 DEF CallStep, BookStep

(* Every call of the script is one of these.                               *)
LEMMA CallSteps ==
  ASSUME BookOK, FillsOK, ScriptCalls
  PROVE  \E ids : CallStep(ids)
<1>1. ASSUME NEW id \in Ids, NEW market \in BOOLEAN, NEW d \in Sides, NEW q \in Qtys,
             NEW cap \in Caps, Entry(id, market, d, q, cap)
      PROVE  CallStep({})
  BY <1>1, EntryStep
<1>2. ASSUME NEW id \in Ids, NEW market \in BOOLEAN, NEW d \in Sides, NEW q \in Qtys,
             NEW cap \in Caps, NEW oca \in Groups \union {None},
             PlaceOrder(id, market, d, q, cap, oca)
      PROVE  CallStep({})
  BY <1>2, PlaceOrderStep
<1>3. ASSUME NEW id \in Ids, NEW from \in Ids \union {None}, NEW q \in ExitQtys(from),
             ExitAtMarket(id, from, q) \/ Bracket(id, from, q) \/ ExitAtPrice(id, from, q)
      PROVE  CallStep({}) \/ CallStep({id})
  BY <1>3, ExitAtMarketStep, BracketStep, ExitAtPriceStep
<1>4. ASSUME NEW id \in Ids, NEW q \in Qtys \union {size}, Close(id, q)
      PROVE  CallStep({})
  BY <1>4, CloseStep
<1>5. ASSUME PlaceCloseAll \/ CancelAll \/ \E id \in Ids : Cancel(id)
      PROVE  CallStep({})
  BY <1>5, PlaceCloseAllStep, CancelStep
<1> QED BY <1>1, <1>2, <1>3, <1>4, <1>5 DEF ScriptCalls

----------------------------------------------------------------------------
(* Processing of the pending orders.                                       *)

(* What looking at one key does: every other order shrinks or goes, or     *)
(* stays queued, and so does this one.                                     *)
VisitStep(k) ==
  /\ pending' = [j \in Keys |-> pending'[j]]
  /\ \A j \in Keys : Shrinks(j)
  /\ \A j \in Keys \ {k} : j \in queue /\ pending'[j] # None => j \in queue'

(* An order under its own id, with no cap: filled whole, or refused, it    *)
(* goes.                                                                   *)
IsOwn(o, k) == o.market /\ o.cap = 0 /\ o.order = k

LEMMA DropStep ==
  ASSUME BookOK, NEW k \in Keys, Drop(k)
  PROVE  VisitStep(k) /\ pending'[k] = None
BY DEF Drop, Goes, VisitStep, Shrinks, Same, BookOK, Live

LEMMA KeepStep ==
  ASSUME BookOK, NEW k \in Keys, Keep(k)
  PROVE  /\ VisitStep(k) /\ pending' = pending
         /\ pending[k].market => pending[k].bar = bar
<1>1. pending' = pending /\ queue' = {j \in queue \ {k} : pending[j] # None}
  BY DEF Keep, Goes
<1>2. VisitStep(k)
  BY <1>1 DEF VisitStep, Shrinks, Same, BookOK, Live
<1>3. pending[k].market => pending[k].bar = bar
  BY DEF Keep, IsDue
<1> QED BY <1>1, <1>2, <1>3

LEMMA RejectStep ==
  ASSUME BookOK, NEW k \in Keys, Reject(k)
  PROVE  VisitStep(k) /\ (pending[k].order = k => pending'[k] = None)
<1>1. /\ pending' = [pending EXCEPT ![pending[k].order] = None]
      /\ queue' = {j \in queue \ {k} : pending'[j] # None}
  BY DEF Reject, Goes
<1>2. VisitStep(k)
  BY <1>1 DEF VisitStep, Shrinks, Same, BookOK, Live
<1> QED BY <1>1, <1>2 DEF BookOK

(* A fill shrinks orders; one with no cap is filled whole.                 *)
LEMMA FillBook ==
  ASSUME NEW k \in Keys, Fill(k)
  PROVE  /\ pending' = AfterFill(k, FillQty(pending[k]))
         /\ queue' = {j \in queue \ {k} : pending'[j] # None}
         /\ CountFill(k)
BY DEF Fill, FillOpens, FillCovers, Goes

LEMMA FillStep ==
  ASSUME BookOK, NEW k \in Keys, Live(k), Fill(k)
  PROVE  VisitStep(k) /\ (pending[k].cap = 0 /\ pending[k].order = k => pending'[k] = None)
<1> DEFINE o == pending[k]
           q == FillQty(o)
<1>1. /\ pending' = AfterFill(k, q)
      /\ queue' = {j \in queue \ {k} : pending'[j] # None}
  BY FillBook
<1>2. ASSUME NEW j \in Keys
      PROVE  \/ pending'[j] = None
             \/ pending'[j] = [pending[j] EXCEPT !.left = pending[j].left - q]
             \/ pending'[j] = pending[j]
  <2> HIDE DEF q
  <2> QED BY <1>1 DEF AfterFill, AfterOca
<1>3. ASSUME NEW j \in Keys
      PROVE  Shrinks(j)
  <2>1. CASE pending[j] = None
    <3>1. pending'[j] = None
      <4>1. j # k
        BY <2>1 DEF Live
      <4> HIDE DEF q
      <4> QED BY <1>1, <2>1, <4>1 DEF AfterFill, Live
    <3> QED BY <3>1 DEF Shrinks
  <2>2. CASE Live(j)
    <3> HIDE DEF q
    <3> QED BY <1>2, <2>2 DEF Shrinks, Same, BookOK, Formed, Fields
  <2> QED BY <2>1, <2>2 DEF Live
<1>4. VisitStep(k)
  <2> HIDE DEF q
  <2> QED BY <1>1, <1>3 DEF VisitStep, AfterFill
<1>5. ASSUME o.cap = 0, o.order = k
      PROVE  pending'[k] = None
  <2>1. q = o.left
    BY <1>5 DEF FillQty
  <2> HIDE DEF q
  <2> QED BY <1>1, <1>5, <2>1 DEF AfterFill
<1> QED BY <1>4, <1>5

(* A fill of one leg of a bracket takes the other with it.                 *)
LEMMA LegFillStep ==
  ASSUME BookOK, NEW k \in LegKeys, k \in Keys, Live(k), Fill(k)
  PROVE  pending'[<< k[1], "limit" >>] = None /\ pending'[<< k[1], "stop" >>] = None
<1> DEFINE o == pending[k]
           q == FillQty(o)
<1>1. IsLeg(o, k)
  BY DEF BookOK
<1>2. q = o.left
  BY <1>1 DEF FillQty, IsLeg
<1>3. pending' = AfterFill(k, q)
  BY FillBook
<1>4. ASSUME NEW j \in LegKeys, j[1] = k[1]
      PROVE  pending'[j] = None
  <2>0. j \in Keys /\ j[1] \in Ids
    BY DEF LegKeys, Keys, Parts
  <2>1. CASE j = k
    <3> HIDE DEF q
    <3> QED BY <1>1, <1>2, <1>3, <2>0, <2>1 DEF AfterFill, IsLeg
  <2>2. CASE j # k /\ ~Live(j)
    <3> HIDE DEF q
    <3> QED BY <1>1, <1>3, <2>0, <2>2 DEF AfterFill, IsLeg, Live
  <2>3. CASE j # k /\ Live(j)
    <3>1. IsLeg(pending[j], j)
      BY <2>0, <2>3 DEF BookOK
    <3>2. o.oca # None /\ pending[j].oca # None
      <4>1. [name |-> k[1], type |-> "cancel"] \in [name: OcaNames, type: OcaTypes]
        BY <1>4, <2>0, GroupsAssumption DEF OcaTypes
      <4> QED BY <4>1, <1>1, <3>1, <1>4, NoneAssumption DEF IsLeg
    <3>3. o.oca.name = pending[j].oca.name /\ o.oca.type = "cancel"
      BY <1>1, <3>1, <1>4 DEF IsLeg
    <3>4. pending'[j] = AfterOca(pending[j], o.oca.type, q)
      <4> HIDE DEF q
      <4> QED BY <1>1, <1>3, <2>0, <2>3, <3>2, <3>3 DEF AfterFill, IsLeg
    <3> QED BY <3>3, <3>4 DEF AfterOca
  <2> QED BY <2>1, <2>2, <2>3
<1>5. /\ << k[1], "limit" >> \in LegKeys /\ << k[1], "limit" >>[1] = k[1]
      /\ << k[1], "stop" >> \in LegKeys /\ << k[1], "stop" >>[1] = k[1]
  BY DEF LegKeys
<1> QED BY <1>4, <1>5

----------------------------------------------------------------------------
(* The invariant of the orders: the book, the brackets that have filled,   *)
(* the keys that are queued, and the orders under their own ids.           *)

(* The key a step looks at is that of an order.                            *)
QueueOK ==
  /\ visiting => queue = {}
  /\ \A k \in queue : k \in Keys /\ Live(k)

OwnOK ==
  \A k \in Keys : Live(k) /\ IsOwn(pending[k], k) =>
    pending[k].bar = bar \/ (~visiting /\ k \in queue)

OrdersOK == BookOK /\ FillsOK /\ QueueOK /\ OwnOK

(* Calls of the script.                                                    *)
LEMMA CallKeepsOrders ==
  ASSUME OrdersOK, ScriptCalls
  PROVE  OrdersOK'
<1>1. PICK ids : CallStep(ids)
  BY CallSteps DEF OrdersOK
<1>2. BookOK'
  BY <1>1, BookStepOK DEF OrdersOK, CallStep
<1>3. QueueOK'
  BY <1>1 DEF CallStep, OrdersOK, QueueOK, Live
<1>4. ASSUME NEW k \in Keys, pending'[k] # None
      PROVE  \/ pending'[k].bar = bar
             \/ Live(k) /\ Same(pending'[k], pending[k])
  BY <1>1, <1>4 DEF CallStep, BookStep, Shrinks, Fresh
<1>5. OwnOK'
  BY <1>1, <1>4 DEF CallStep, OrdersOK, OwnOK, Same, IsOwn, Live
<1>6. FillsOK'
  <2>1. fills' \in [Ids -> {0, 1}]
    BY <1>1 DEF CallStep, OrdersOK, FillsOK
  <2>2. ASSUME NEW id \in Ids, fills'[id] = 1, NEW part \in {"limit", "stop"}
        PROVE  pending'[<< id, part >>] = None
    <3>1. id \notin ids /\ fills[id] = 1
      BY <1>1, <2>2 DEF CallStep
    <3>2. << id, part >> \in LegKeys /\ << id, part >> \in Keys /\ << id, part >>[1] = id
      BY DEF LegKeys, Keys, Parts
    <3>3. ~Live(<< id, part >>)
      BY <3>1 DEF OrdersOK, FillsOK
    <3>4. Shrinks(<< id, part >>) \/ Fresh(pending'[<< id, part >>], << id, part >>, ids)
      BY <1>1, <3>2 DEF CallStep, BookStep
    <3> QED BY <3>1, <3>2, <3>3, <3>4 DEF Shrinks, Fresh
  <2> QED BY <2>1, <2>2 DEF FillsOK, Live
<1> QED BY <1>2, <1>3, <1>5, <1>6 DEF OrdersOK

(* Looking at a key, as long as an order under its own id goes, or is of   *)
(* this bar, and the fills of brackets are counted right.                  *)
LEMMA VisitKeepsOrders ==
  ASSUME OrdersOK, NEW k \in Keys, VisitStep(k), FillsOK',
         bar' = bar, visiting' = visiting, ~visiting,
         queue' \subseteq {j \in Keys : pending'[j] # None},
         IsOwn(pending[k], k) => pending'[k] = None \/ pending[k].bar = bar
  PROVE  OrdersOK'
<1>1. BookStep({})
  BY DEF VisitStep, BookStep
<1>2. BookOK'
  BY <1>1, BookStepOK DEF OrdersOK
<1>3. QueueOK'
  BY DEF QueueOK, Live
<1>4. ASSUME NEW j \in Keys, pending'[j] # None, IsOwn(pending'[j], j)
      PROVE  pending'[j].bar = bar \/ j \in queue'
  <2>1. Live(j) /\ Same(pending'[j], pending[j])
    BY <1>4 DEF VisitStep, Shrinks
  <2>2. IsOwn(pending[j], j) /\ pending'[j].bar = pending[j].bar
    BY <2>1, <1>4 DEF Same, IsOwn
  <2>3. CASE j = k
    BY <2>2, <2>3, <1>4
  <2>4. CASE j # k
    BY <2>1, <2>2, <2>4, <1>4 DEF OrdersOK, OwnOK, VisitStep
  <2> QED BY <2>3, <2>4
<1>5. OwnOK'
  BY <1>4 DEF OwnOK, Live
<1> QED BY <1>2, <1>3, <1>5 DEF OrdersOK

(* While no bracket fills, its count stands: orders only go.               *)
LEMMA VisitKeepsFills ==
  ASSUME OrdersOK, NEW k, VisitStep(k), fills' = fills
  PROVE  FillsOK'
<1>1. ASSUME NEW id \in Ids, NEW part \in {"limit", "stop"}, ~Live(<< id, part >>)
      PROVE  pending'[<< id, part >>] = None
  <2>1. << id, part >> \in Keys
    BY DEF Keys, Parts
  <2> QED BY <2>1, <1>1 DEF VisitStep, Shrinks
<1> QED BY <1>1 DEF OrdersOK, FillsOK, Live

(* What is looked at is queued, so that the script is not visiting.        *)
LEMMA NextIsQueued ==
  ASSUME OrdersOK, NEW k, IsNext(k)
  PROVE  k \in Keys /\ Live(k) /\ ~visiting
BY DEF OrdersOK, QueueOK, IsNext

LEMMA FillKeepsFills ==
  ASSUME OrdersOK, NEW k \in Keys, Live(k), Fill(k)
  PROVE  FillsOK'
<1>1. VisitStep(k) /\ CountFill(k)
  BY FillStep, FillBook DEF OrdersOK
<1>2. CASE k[2] \in {"limit", "stop"} /\ k[1] \in Ids
  <2>1. k \in LegKeys /\ k = << k[1], k[2] >>
    BY <1>2 DEF Keys, LegKeys
  <2>2. /\ pending'[<< k[1], "limit" >>] = None
        /\ pending'[<< k[1], "stop" >>] = None
    BY <2>1, LegFillStep DEF OrdersOK
  <2>3. fills[k[1]] = 0
    BY <1>2, <2>1 DEF OrdersOK, FillsOK
  <2>4. fills' = [fills EXCEPT ![k[1]] = 1]
    BY <1>1, <1>2, <2>3 DEF CountFill
  <2>5. fills' \in [Ids -> {0, 1}]
    BY <2>4 DEF OrdersOK, FillsOK
  <2>6. ASSUME NEW id \in Ids, fills'[id] = 1, NEW part \in {"limit", "stop"}
        PROVE  pending'[<< id, part >>] = None
    <3>1. CASE id = k[1]
      BY <2>2, <3>1
    <3>2. CASE id # k[1]
      <4>1. fills[id] = 1
        BY <3>2, <2>4, <2>6 DEF OrdersOK, FillsOK
      <4>2. << id, part >> \in Keys /\ ~Live(<< id, part >>)
        BY <4>1 DEF OrdersOK, FillsOK, Keys, Parts
      <4> QED BY <4>2, <1>1 DEF VisitStep, Shrinks
    <3> QED BY <3>1, <3>2
  <2> QED BY <2>5, <2>6 DEF FillsOK, Live
<1>3. CASE ~(k[2] \in {"limit", "stop"} /\ k[1] \in Ids)
  <2>1. fills' = fills
    BY <1>1, <1>3 DEF CountFill
  <2> QED BY <2>1, <1>1, VisitKeepsFills
<1> QED BY <1>2, <1>3

LEMMA FillKeepsOrders ==
  ASSUME OrdersOK, NEW k \in Keys, Fill(k)
  PROVE  OrdersOK'
<1>1. IsNext(k) /\ bar' = bar /\ visiting' = visiting
  BY DEF Fill, FillOpens, FillCovers, IsDue
<1>2. Live(k) /\ ~visiting
  BY <1>1, NextIsQueued
<1>3. VisitStep(k) /\ (pending[k].cap = 0 /\ pending[k].order = k => pending'[k] = None)
  BY <1>2, FillStep DEF OrdersOK
<1>4. FillsOK'
  BY <1>2, FillKeepsFills
<1>5. queue' \subseteq {j \in Keys : pending'[j] # None}
  BY FillBook DEF OrdersOK, QueueOK
<1>6. IsOwn(pending[k], k) => pending'[k] = None \/ pending[k].bar = bar
  BY <1>3 DEF IsOwn
<1> QED BY <1>1, <1>2, <1>3, <1>4, <1>5, <1>6, VisitKeepsOrders

LEMMA PassKeepsOrders ==
  ASSUME OrdersOK, NEW k \in Keys, Drop(k) \/ Keep(k) \/ Reject(k)
  PROVE  OrdersOK'
<1>1. IsNext(k) /\ bar' = bar /\ visiting' = visiting /\ fills' = fills
  BY DEF Drop, Keep, Reject, IsDue
<1>2. Live(k) /\ ~visiting
  BY <1>1, NextIsQueued
<1>3. /\ VisitStep(k)
      /\ IsOwn(pending[k], k) => pending'[k] = None \/ pending[k].bar = bar
  BY DropStep, KeepStep, RejectStep DEF OrdersOK, IsOwn
<1>4. FillsOK'
  BY <1>1, <1>3, VisitKeepsFills
<1>5. queue' \subseteq {j \in Keys : pending'[j] # None}
  BY DEF Drop, Keep, Reject, Goes, OrdersOK, QueueOK
<1> QED BY <1>1, <1>2, <1>3, <1>4, <1>5, VisitKeepsOrders

(* The bar loop and the risk rules.                                        *)
LEMMA LoopKeepsOrders ==
  ASSUME OrdersOK, Visit \/ NextBar \/ Halt \/ UNCHANGED vars
  PROVE  OrdersOK'
<1>1. pending' = pending /\ fills' = fills
  BY DEF Visit, NextBar, Halt, vars
<1>2. BookOK' /\ FillsOK'
  BY <1>1 DEF OrdersOK, BookOK, FillsOK, Live
<1>3. CASE Visit
  BY <1>1, <1>2, <1>3 DEF Visit, OrdersOK, QueueOK, OwnOK, Live
<1>4. CASE NextBar
  BY <1>1, <1>2, <1>4 DEF NextBar, OrdersOK, QueueOK, OwnOK, Live
<1>5. CASE Halt \/ UNCHANGED vars
  BY <1>1, <1>2, <1>5 DEF Halt, vars, OrdersOK, QueueOK, OwnOK, Live
<1> QED BY <1>3, <1>4, <1>5

LEMMA NextKeepsOrders ==
  ASSUME OrdersOK, [Next]_vars
  PROVE  OrdersOK'
<1>1. CASE ScriptCalls
  BY <1>1, CallKeepsOrders
<1>2. ASSUME NEW k \in Keys, Drop(k) \/ Keep(k) \/ Reject(k) \/ FillOpens(k) \/ FillCovers(k)
      PROVE  OrdersOK'
  BY <1>2, PassKeepsOrders, FillKeepsOrders DEF Fill
<1>3. CASE Visit \/ NextBar \/ Halt \/ UNCHANGED vars
  BY <1>3, LoopKeepsOrders
<1> QED BY <1>1, <1>2, <1>3 DEF Next, Processing

LEMMA InitOrders == Init => OrdersOK
<1> SUFFICES ASSUME Init PROVE OrdersOK
  OBVIOUS
<1>1. \A k \in Keys : pending[k] = None
  BY DEF Init, Empty
<1>2. BookOK
  BY <1>1 DEF Init, Empty, BookOK, Live
<1>3. FillsOK
  BY DEF Init, Empty, FillsOK, Live, Keys, Parts
<1> QED BY <1>1, <1>2, <1>3 DEF Init, OrdersOK, QueueOK, OwnOK, Live

(* The invariant of the orders holds for every script.                     *)
THEOREM OrdersInvariant == Spec => []OrdersOK
<1>1. OrdersOK /\ [Next]_vars => OrdersOK'
  BY NextKeepsOrders
<1> QED BY InitOrders, <1>1, PTL DEF Spec

(* Of the limit and the stop of a bracket one fills at most, for every     *)
(* script: the one that fills takes the other out of the book, and a new   *)
(* bracket takes the place of the old one.                                 *)
THEOREM BracketsFillOnce == Spec => []OneLegFills
<1>1. OrdersOK => OneLegFills
  BY DEF OrdersOK, FillsOK, OneLegFills
<1> QED BY <1>1, OrdersInvariant, PTL

(* A market order under its own id, with no cap, never survives the next   *)
(* bar's open: filled or refused, it is gone when the script visits.       *)
THEOREM OwnOrdersDoNotWait == Spec => []OwnOrdersFillAtOpen
<1>1. OrdersOK => OwnOrdersFillAtOpen
  BY DEF OrdersOK, OwnOK, OwnOrdersFillAtOpen, IsOwn
<1> QED BY <1>1, OrdersInvariant, PTL

----------------------------------------------------------------------------
(* The position.                                                           *)

(* Calls, the bar loop and the risk rules leave the position alone.        *)
LEMMA OnlyFillsTouchPosition ==
  ASSUME [Next]_vars
  PROVE  \/ \E k \in Keys : Fill(k)
         \/ legs' = legs /\ side' = side /\ entered' = entered
<1>1. ASSUME ScriptCalls
      PROVE  legs' = legs /\ side' = side /\ entered' = entered
  BY <1>1 DEF ScriptCalls, Entry, PlaceOrder, ExitAtMarket, Bracket, ExitAtPrice, Close,
              PlaceCloseAll, Cancel, CancelAll, OnlyPlaces, position, account
<1>2. ASSUME NEW k \in Keys, Drop(k) \/ Keep(k) \/ Reject(k)
      PROVE  legs' = legs /\ side' = side /\ entered' = entered
  BY <1>2 DEF Drop, Keep, Reject, position, account
<1>3. ASSUME Visit \/ NextBar \/ Halt \/ UNCHANGED vars
      PROVE  legs' = legs /\ side' = side /\ entered' = entered
  BY <1>3 DEF Visit, NextBar, Halt, vars, position, account
<1> QED BY <1>1, <1>2, <1>3 DEF Next, Processing, Fill

(* No more than pyramiding + 1 trades are open, whatever mixture of        *)
(* entries, orders, exits, partial fills and reversals a script makes.     *)
THEOREM PyramidingHolds == Spec => []PyramidingCap
<1>1. Init => LegsOK
  BY FS_EmptySet, RiskAssumption DEF Init, LegsOK, FewLegs
<1>2. LegsOK /\ [Next]_vars => LegsOK'
  <2> SUFFICES ASSUME LegsOK, [Next]_vars
               PROVE  LegsOK'
    OBVIOUS
  <2>1. CASE \E k \in Keys : Fill(k)
    BY <2>1, FillsKeepFewLegs
  <2>2. CASE legs' = legs
    BY <2>2 DEF LegsOK, FewLegs
  <2> QED BY <2>1, <2>2, OnlyFillsTouchPosition
<1>3. LegsOK => PyramidingCap
  BY DEF LegsOK, FewLegs, PyramidingCap
<1> QED BY <1>1, <1>2, <1>3, PTL DEF Spec

LEMMA AddsAreAllowed ==
  ASSUME [Next]_vars, Adds
  PROVE  Allows(blocked', side')
<1>1. PICK k \in Keys : Fill(k)
  BY OnlyFillsTouchPosition DEF Adds
<1> DEFINE o == pending[k]
           q == FillQty(o)
<1>2. CASE FillOpens(k)
  <2>1. Becomes(Opened(Position, o.side, o.order, q))
    BY <1>2 DEF FillOpens
  <2>2. side' = o.side
    BY <2>1, OpenedSide DEF Becomes
  <2> QED BY <2>2, <1>2 DEF FillOpens
<1>3. CASE FillCovers(k)
  <2> DEFINE rest == IF o.entry THEN q ELSE q - CoverQty(o, q)
             p == Closed(Position, o.from, CoverQty(o, q))
  <2>1. CASE RestOpens(o, rest)
    <3>1. Becomes(Opened(p, o.side, o.order, rest))
      BY <1>3, <2>1 DEF FillCovers
    <3>2. side' = o.side
      <4> HIDE DEF p, rest
      <4> QED BY <3>1, OpenedSide DEF Becomes
    <3> QED BY <3>2, <2>1 DEF RestOpens
  <2>2. CASE ~RestOpens(o, rest)
    <3>1. Becomes(p) /\ entered' = entered
      BY <1>3, <2>2 DEF FillCovers
    <3>2. side' = Flat \/ side' = side
      BY <3>1 DEF Becomes, Closed, Position
    <3> QED BY <3>1, <3>2 DEF Adds
  <2> QED BY <2>1, <2>2
<1> QED BY <1>1, <1>2, <1>3 DEF Fill

(* No fill opens, adds to or reverses into a position that the risk rules  *)
(* do not allow at that moment.                                            *)
THEOREM EntriesGated == Spec => EntriesAllowed
<1>1. [Next]_vars => [Adds => Allows(blocked', side')]_vars
  BY AddsAreAllowed
<1> QED BY <1>1, PTL DEF Spec, EntriesAllowed

=============================================================================
