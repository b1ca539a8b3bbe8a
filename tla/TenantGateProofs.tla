-------------------------- MODULE TenantGateProofs --------------------------
(***************************************************************************)
(* What holds of TenantGate for any number of keys and requests in flight, *)
(* any lifetimes, limits and cache size, and any delays and failures.      *)
(***************************************************************************)
EXTENDS TenantGate, FiniteSetTheorems, TLAPS

(* What a request has by the time it is at each of its awaits.             *)
PhaseOK ==
  \A i \in Slots : LET r == request[i] IN
    /\ r.verdict # "none" => r.key \in Keys
    /\ r.pc \in {"verify", "answer", "work", "usage"} => r.id \in Ids
    /\ r.pc \in {"verify", "answer"} => r.key \in Keys
    /\ r.pc = "answer" => r.verdict \in Verdicts
    /\ r.pc \in {"work", "usage", "refused"} /\ r.key \in Keys => r.verdict \in Verdicts

(* A record that meets it.                                                 *)
WellFormed(r) ==
  /\ r \in Request
  /\ r.verdict # "none" => r.key \in Keys
  /\ r.pc \in {"verify", "answer", "work", "usage"} => r.id \in Ids
  /\ r.pc \in {"verify", "answer"} => r.key \in Keys
  /\ r.pc = "answer" => r.verdict \in Verdicts
  /\ r.pc \in {"work", "usage", "refused"} /\ r.key \in Keys => r.verdict \in Verdicts

LEMMA RecordsWellFormed ==
  (request \in [Slots -> Request] /\ PhaseOK)
    <=> (request \in [Slots -> Request] /\ \A i \in Slots : WellFormed(request[i]))
BY DEF PhaseOK, WellFormed

LEMMA NumberFacts ==
  /\ \A v \in Verdicts : TTL(v) \in Nat \ {0} /\ TTL(v) <= PositiveTTL
  /\ Never \in Int /\ Times \subseteq Int /\ 0 \in Times
  /\ NoKey \in Callers /\ Keys \subseteq Callers
BY LimitsAssumption, BoundsAssumption, KeysAssumption DEF TTL, Never, Times, Callers

LEMMA NoRequestType == WellFormed(NoRequest)
<1>1. NoRequest \in Request
  BY NumberFacts DEF NoRequest, Request
<1> QED
  BY <1>1 DEF NoRequest, WellFormed

LEMMA RefusedType ==
  ASSUME NEW r \in Request, r.verdict # "none" => r.key \in Keys,
         r.key \in Keys => r.verdict \in Verdicts
  PROVE  WellFormed(Refused(r))
<1>1. CASE r.key = NoKey
  BY <1>1, NoRequestType DEF Refused
<1>2. CASE r.key # NoKey
  <2> DEFINE f == [NoRequest EXCEPT !.pc = "refused", !.key = r.key,
                                    !.start = r.start, !.verdict = r.verdict]
  <2>1. f \in Request
    BY NoRequestType DEF WellFormed, Request
  <2>2. f.pc = "refused" /\ f.key = r.key /\ f.verdict = r.verdict
    BY DEF NoRequest
  <2> QED
    BY <1>2, <2>1, <2>2 DEF Refused, WellFormed
<1> QED
  BY <1>1, <1>2

(* The limiter keeps lists of calls, and lets requests through or refuses  *)
(* them.                                                                   *)
LEMMA DecideType ==
  ASSUME TypeOK, NEW i \in Slots, NEW r \in Request, r.id \in Ids,
         r.verdict # "none" => r.key \in Keys,
         r.key \in Keys => r.verdict \in Verdicts,
         Decide(i, r), PhaseOK
  PROVE  /\ buckets' \in [Callers -> SUBSET Call]
         /\ admitted' \in [Callers -> SUBSET Call]
         /\ request' \in [Slots -> Request]
         /\ \A j \in Slots : WellFormed(request'[j])
<1> DEFINE recent == Recent(buckets[r.key], now)
           call == [id |-> r.id, at |-> now]
           w == [r EXCEPT !.pc = "work"]
<1>1. r.key \in Callers /\ call \in Call /\ recent \subseteq Call
  BY DEF TypeOK, Request, Call, Recent
<1>2. ASSUME NEW calls \in SUBSET Call
      PROVE  WithBucket(r.key, calls) \subseteq [Callers -> SUBSET Call]
  BY <1>1 DEF WithBucket, TypeOK
<1>3. WellFormed(w)
  <2>1. w \in Request /\ w.pc = "work" /\ w.id = r.id /\ w.key = r.key
        /\ w.verdict = r.verdict
    BY DEF Request
  <2> QED
    BY <2>1 DEF WellFormed
<1>4. WellFormed(Refused(r))
  BY RefusedType
<1>5. request \in [Slots -> Request] /\ \A j \in Slots : WellFormed(request[j])
  BY RecordsWellFormed DEF TypeOK
<1>6. \/ request' = [request EXCEPT ![i] = w]
      \/ request' = [request EXCEPT ![i] = Refused(r)]
  BY DEF Decide, CheckRate
<1>7. request' \in [Slots -> Request] /\ \A j \in Slots : WellFormed(request'[j])
  BY <1>3, <1>4, <1>5, <1>6 DEF WellFormed
<1>8. CASE Passes(r) /\ Cardinality(recent) < MaxCalls
  <2>1. /\ buckets' \in WithBucket(r.key, recent \union {call})
        /\ admitted' = [admitted EXCEPT ![r.key] = @ \union {call}]
    BY <1>8 DEF Decide, CheckRate
  <2>2. buckets' \in [Callers -> SUBSET Call]
    BY <1>1, <1>2, <2>1
  <2>3. admitted' \in [Callers -> SUBSET Call]
    BY <1>1, <2>1 DEF TypeOK
  <2> QED
    BY <1>7, <2>2, <2>3
<1>9. CASE Passes(r) /\ ~(Cardinality(recent) < MaxCalls)
  <2>1. buckets' \in WithBucket(r.key, recent) /\ admitted' = admitted
    BY <1>9 DEF Decide, CheckRate
  <2> QED
    BY <1>1, <1>2, <1>7, <2>1 DEF TypeOK
<1>10. CASE ~Passes(r)
  BY <1>7, <1>10 DEF Decide, TypeOK
<1> QED
  BY <1>8, <1>9, <1>10

(* A new request has the next id.                                          *)
LEMMA NewRequestType ==
  ASSUME TypeOK, requests < MaxRequests, NEW k \in Callers
  PROVE  /\ NewRequest(k) \in Request /\ NewRequest(k).id \in Ids
         /\ NewRequest(k).key = k /\ NewRequest(k).verdict = "none"
         /\ NewRequest(k).start = now
         /\ requests + 1 \in 0..MaxRequests
<1>1. requests + 1 \in Ids /\ requests + 1 \in 0..MaxRequests
  BY BoundsAssumption DEF TypeOK, Ids
<1>2. NoRequest \in Request
  BY NoRequestType DEF WellFormed
<1>3. NewRequest(k) \in Request
  BY <1>1, <1>2 DEF NewRequest, TypeOK, Request
<1> QED
  BY <1>1, <1>3 DEF NewRequest, NoRequest

(* Dropping an entry shrinks a cache, adding one grows it by one at most.  *)
LEMMA CacheSizes ==
  ASSUME NEW c \in [Keys -> Entry \union {NoEntry}], NEW k \in Keys
  PROVE  /\ IsFiniteSet(Cached(c)) /\ Cardinality(Cached(c)) \in Nat
         /\ Cardinality(Cached([c EXCEPT ![k] = NoEntry])) <= Cardinality(Cached(c))
         /\ k \in Cached(c) =>
              Cardinality(Cached([c EXCEPT ![k] = NoEntry])) = Cardinality(Cached(c)) - 1
         /\ \A e \in Entry :
              Cardinality(Cached([c EXCEPT ![k] = e])) <= Cardinality(Cached(c)) + 1
<1>1. IsFiniteSet(Cached(c)) /\ Cardinality(Cached(c)) \in Nat
  BY KeysAssumption, FS_Subset, FS_CardinalityType DEF Cached
<1>2. Cached([c EXCEPT ![k] = NoEntry]) = Cached(c) \ {k}
  BY DEF Cached
<1>3. \A e \in Entry : Cached([c EXCEPT ![k] = e]) = Cached(c) \union {k}
  BY DEF Cached, Entry, NoEntry, Verdicts, Standings
<1>4. Cardinality(Cached(c) \ {k}) = IF k \in Cached(c) THEN Cardinality(Cached(c)) - 1
                                     ELSE Cardinality(Cached(c))
  BY <1>1, FS_RemoveElement
<1>5. Cardinality(Cached(c) \union {k}) = IF k \in Cached(c) THEN Cardinality(Cached(c))
                                          ELSE Cardinality(Cached(c)) + 1
  BY <1>1, FS_AddElement
<1>6. /\ Cardinality(Cached(c) \ {k}) <= Cardinality(Cached(c))
      /\ k \in Cached(c) => Cardinality(Cached(c) \ {k}) = Cardinality(Cached(c)) - 1
      /\ Cardinality(Cached(c) \union {k}) <= Cardinality(Cached(c)) + 1
  <2> DEFINE n == Cardinality(Cached(c))
             less == Cardinality(Cached(c) \ {k})
             more == Cardinality(Cached(c) \union {k})
  <2>1. n \in Nat /\ less = (IF k \in Cached(c) THEN n - 1 ELSE n)
        /\ more = (IF k \in Cached(c) THEN n ELSE n + 1)
    BY <1>1, <1>4, <1>5
  <2> HIDE DEF n, less, more
  <2>2. less <= n /\ (k \in Cached(c) => less = n - 1) /\ more <= n + 1
    BY <2>1
  <2> QED
    BY <2>2 DEF n, less, more
<1>7. \A e \in Entry :
        Cardinality(Cached([c EXCEPT ![k] = e])) <= Cardinality(Cached(c)) + 1
  BY <1>3, <1>6, Zenon
<1>8. /\ Cardinality(Cached([c EXCEPT ![k] = NoEntry])) <= Cardinality(Cached(c))
      /\ k \in Cached(c) =>
           Cardinality(Cached([c EXCEPT ![k] = NoEntry])) = Cardinality(Cached(c)) - 1
  BY <1>2, <1>6, Zenon
<1> QED
  BY <1>1, <1>7, <1>8

(* _cache_store keeps the cache within its bound.                          *)
LEMMA StoreType ==
  ASSUME cache \in [Keys -> Entry \union {NoEntry}],
         Cardinality(Cached(cache)) <= CacheMax,
         NEW k \in Keys, NEW e \in Entry,
         NEW c \in CachesAfter([cache EXCEPT ![k] = e], k)
  PROVE  /\ c \in [Keys -> Entry \union {NoEntry}]
         /\ Cardinality(Cached(c)) <= CacheMax
<1> DEFINE full == [cache EXCEPT ![k] = e]
<1>1. full \in [Keys -> Entry \union {NoEntry}]
  OBVIOUS
<1>2. /\ Cardinality(Cached(full)) \in Nat /\ Cardinality(Cached(cache)) \in Nat
      /\ Cardinality(Cached(full)) <= Cardinality(Cached(cache)) + 1
  BY <1>1, CacheSizes
<1>3. CASE Cardinality(Cached(full)) <= CacheMax
  BY <1>1, <1>3 DEF CachesAfter
<1>4. CASE ~(Cardinality(Cached(full)) <= CacheMax)
  <2>1. PICK j \in Evictable(full, k) : c = [full EXCEPT ![j] = NoEntry]
    BY <1>4 DEF CachesAfter
  <2>2. j \in Cached(full) /\ j \in Keys
    BY DEF Evictable, Cached
  <2>3. Cardinality(Cached(c)) = Cardinality(Cached(full)) - 1
    BY <1>1, <2>1, <2>2, CacheSizes
  <2>4. c \in [Keys -> Entry \union {NoEntry}]
    BY <1>1, <2>1, <2>2
  <2> QED
    BY <1>2, <2>3, <2>4, LimitsAssumption
<1> QED
  BY <1>3, <1>4

LEMMA InitTypeOK == Init => TypeOK /\ PhaseOK
<1> SUFFICES ASSUME Init PROVE TypeOK /\ PhaseOK
  OBVIOUS
<1>1. request \in [Slots -> Request] /\ PhaseOK
  BY NoRequestType, RecordsWellFormed DEF Init, WellFormed
<1>2. Cached(cache) = {} /\ Cardinality(Cached(cache)) <= CacheMax
  <2>1. Cached(cache) = {}
    BY DEF Init, Cached
  <2> QED
    BY <2>1, FS_EmptySet, LimitsAssumption
<1>3. standing \in [Keys -> Standings]
      /\ held \in [Keys -> [Verdicts -> Times \union {Never}]]
  BY NumberFacts, StandingAssumption DEF Init
<1> QED
  BY <1>1, <1>2, <1>3, NumberFacts, BoundsAssumption DEF Init, TypeOK

(* The steps that begin a request, and the one that gets its verdict.      *)
LEMMA VerifyType ==
  ASSUME TypeOK, PhaseOK, NEW i \in Slots,
         \/ StartUnkeyed(i) \/ ReceiveVerdict(i)
         \/ \E k \in Keys : StartCached(i, k) \/ StartVerify(i, k)
  PROVE  TypeOK' /\ PhaseOK'
<1>0. request \in [Slots -> Request] /\ \A j \in Slots : WellFormed(request[j])
  BY RecordsWellFormed DEF TypeOK
<1>1. CASE StartUnkeyed(i)
  <2>1. requests < MaxRequests /\ requests' = requests + 1
    BY <1>1 DEF StartUnkeyed, IsFree
  <2>2. NoKey \notin Keys /\ NoKey \in Callers
    BY KeysAssumption, NumberFacts
  <2>3. /\ buckets' \in [Callers -> SUBSET Call]
        /\ admitted' \in [Callers -> SUBSET Call]
        /\ request' \in [Slots -> Request]
        /\ \A j \in Slots : WellFormed(request'[j])
    BY <1>1, <2>1, <2>2, NewRequestType, DecideType DEF StartUnkeyed
  <2>4. requests' \in 0..MaxRequests
    BY <2>1, <2>2, NewRequestType
  <2> QED
    BY <1>1, <2>3, <2>4 DEF StartUnkeyed, TypeOK, PhaseOK, WellFormed, world, meter
<1>2. CASE \E k \in Keys : StartCached(i, k)
  <2>1. PICK k \in Keys : StartCached(i, k)
    BY <1>2
  <2>2. requests < MaxRequests /\ requests' = requests + 1
    BY <2>1 DEF StartCached, IsFree
  <2> DEFINE r == [NewRequest(k) EXCEPT !.verdict = cache[k].verdict]
  <2>3. cache[k].verdict \in Verdicts
    BY <2>1 DEF StartCached, IsFresh, TypeOK, Entry
  <2>4. k \in Callers
    BY NumberFacts
  <2>5. r \in Request /\ r.id \in Ids /\ r.key = k /\ r.verdict \in Verdicts
    BY <2>2, <2>3, <2>4, NewRequestType DEF Request
  <2>6. Decide(i, r)
    BY <2>1 DEF StartCached
  <2>7. /\ buckets' \in [Callers -> SUBSET Call]
        /\ admitted' \in [Callers -> SUBSET Call]
        /\ request' \in [Slots -> Request]
        /\ \A j \in Slots : WellFormed(request'[j])
    BY <2>5, <2>6, DecideType
  <2>8. requests' \in 0..MaxRequests
    BY <2>2, <2>4, NewRequestType
  <2> QED
    BY <2>1, <2>7, <2>8 DEF StartCached, TypeOK, PhaseOK, WellFormed, world, meter
<1>3. CASE \E k \in Keys : StartVerify(i, k)
  <2>1. PICK k \in Keys : StartVerify(i, k)
    BY <1>3
  <2>2. requests < MaxRequests /\ requests' = requests + 1
    BY <2>1 DEF StartVerify, IsFree
  <2> DEFINE r == [NewRequest(k) EXCEPT !.pc = "verify"]
  <2>3. WellFormed(r)
    <3>1. k \in Callers
      BY NumberFacts
    <3>2. r \in Request /\ r.id \in Ids /\ r.key = k /\ r.verdict = "none"
          /\ r.pc = "verify"
      BY <2>2, <3>1, NewRequestType DEF Request
    <3> QED
      BY <3>2 DEF WellFormed
  <2>4. request' \in [Slots -> Request] /\ \A j \in Slots : WellFormed(request'[j])
    BY <1>0, <2>1, <2>3 DEF StartVerify, WellFormed
  <2>5. /\ cache' \in [Keys -> Entry \union {NoEntry}]
        /\ Cardinality(Cached(cache')) <= CacheMax
    <3>1. cache' = [cache EXCEPT ![k] = NoEntry]
      BY <2>1 DEF StartVerify
    <3>2. cache' \in [Keys -> Entry \union {NoEntry}]
      BY <3>1 DEF TypeOK
    <3>3. /\ Cardinality(Cached(cache)) \in Nat /\ Cardinality(Cached(cache')) \in Nat
          /\ Cardinality(Cached(cache')) <= Cardinality(Cached(cache))
      BY <3>1, <3>2, CacheSizes DEF TypeOK
    <3> QED
      BY <3>2, <3>3, LimitsAssumption DEF TypeOK
  <2>6. requests' \in 0..MaxRequests
    BY <2>2, NumberFacts, NewRequestType
  <2> QED
    BY <2>1, <2>4, <2>5, <2>6 DEF StartVerify, TypeOK, PhaseOK, WellFormed, world, meter
<1>4. CASE ReceiveVerdict(i)
  <2> DEFINE r == request[i]
             entry == [verdict |-> r.verdict, expires |-> Expires(r)]
  <2>1. r \in Request /\ r.pc = "answer" /\ r.key \in Keys /\ r.id \in Ids
        /\ r.verdict \in Verdicts
    BY <1>0, <1>4 DEF ReceiveVerdict, WellFormed
  <2>2. entry \in Entry
    <3>1. r.start \in 0..MaxTime /\ TTL(r.verdict) \in Nat /\ TTL(r.verdict) <= PositiveTTL
      BY <2>1, NumberFacts DEF Request, Times
    <3>2. Expires(r) \in 0..(MaxTime + PositiveTTL)
      BY <3>1, LimitsAssumption, BoundsAssumption DEF Expires
    <3> QED
      BY <2>1, <3>2 DEF Entry
  <2>3. /\ cache' \in [Keys -> Entry \union {NoEntry}]
        /\ Cardinality(Cached(cache')) <= CacheMax
    BY <1>4, <2>1, <2>2, StoreType DEF ReceiveVerdict, TypeOK
  <2>4. /\ buckets' \in [Callers -> SUBSET Call]
        /\ admitted' \in [Callers -> SUBSET Call]
        /\ request' \in [Slots -> Request]
        /\ \A j \in Slots : WellFormed(request'[j])
    BY <1>4, <2>1, DecideType DEF ReceiveVerdict
  <2> QED
    BY <1>4, <2>3, <2>4 DEF ReceiveVerdict, TypeOK, PhaseOK, WellFormed, world, meter
<1> QED
  BY <1>1, <1>2, <1>3, <1>4

(* The steps of the console, of metering, and the rest.                    *)
LEMMA OtherType ==
  ASSUME TypeOK, PhaseOK,
         \/ Tick \/ ColdStart
         \/ \E k \in Keys, v \in Standings : ChangeStanding(k, v)
         \/ \E i \in Slots : \/ ConsoleAnswers(i) \/ ConsoleFails(i)
                             \/ FinishUnmetered(i) \/ FinishMetered(i)
                             \/ UsageAccepted(i) \/ UsageFails(i)
  PROVE  TypeOK' /\ PhaseOK'
<1>0. request \in [Slots -> Request] /\ \A j \in Slots : WellFormed(request[j])
  BY RecordsWellFormed DEF TypeOK
<1> DEFINE Settled == request' \in [Slots -> Request]
                      /\ \A j \in Slots : WellFormed(request'[j])
<1>1. CASE Tick
  <2>1. now' \in Times
    BY <1>1, BoundsAssumption DEF Tick, TypeOK, Times
  <2>2. held' \in [Keys -> [Verdicts -> Times \union {Never}]]
    <3>1. now + 1 \in Times
      BY <1>1, <2>1 DEF Tick
    <3> QED
      BY <1>1, <3>1 DEF Tick, TypeOK
  <2>3. admitted' \in [Callers -> SUBSET Call]
    BY <1>1 DEF Tick, TypeOK, Recent
  <2> QED
    BY <1>1, <2>1, <2>2, <2>3 DEF Tick, TypeOK, PhaseOK, meter
<1>2. CASE ColdStart
  <2>1. Settled
    BY <1>2, NoRequestType DEF ColdStart, WellFormed
  <2>2. /\ cache' \in [Keys -> Entry \union {NoEntry}]
        /\ Cardinality(Cached(cache')) <= CacheMax
    <3>1. Cached(cache') = {}
      BY <1>2 DEF ColdStart, Cached
    <3> QED
      BY <1>2, <3>1, FS_EmptySet, LimitsAssumption DEF ColdStart
  <2> QED
    BY <1>2, <2>1, <2>2, BoundsAssumption
    DEF ColdStart, TypeOK, PhaseOK, WellFormed, world, MayFail
<1>3. CASE \E k \in Keys, v \in Standings : ChangeStanding(k, v)
  <2>1. PICK k \in Keys, v \in Standings : ChangeStanding(k, v)
    BY <1>3
  <2>2. held' \in [Keys -> [Verdicts -> Times \union {Never}]]
    BY <2>1 DEF ChangeStanding, TypeOK
  <2> QED
    BY <2>1, <2>2, BoundsAssumption DEF ChangeStanding, TypeOK, PhaseOK, gate, meter
<1>4. ASSUME NEW i \in Slots, ConsoleAnswers(i) \/ ConsoleFails(i)
      PROVE  TypeOK' /\ PhaseOK'
  <2>1. WellFormed(request[i]) /\ request[i].pc = "verify" /\ request[i].key \in Keys
    BY <1>0, <1>4 DEF ConsoleAnswers, ConsoleFails, WellFormed
  <2>2. PICK v \in Verdicts :
          request' = [request EXCEPT ![i].pc = "answer", ![i].verdict = v]
    BY <1>4, <2>1 DEF ConsoleAnswers, ConsoleFails, TypeOK, Verdicts
  <2> DEFINE r == [request[i] EXCEPT !.pc = "answer", !.verdict = v]
  <2>3. WellFormed(r)
    <3>1. r \in Request /\ r.pc = "answer" /\ r.verdict = v
          /\ r.key = request[i].key /\ r.id = request[i].id
      BY <2>1 DEF WellFormed, Request
    <3> QED
      BY <2>1, <3>1 DEF WellFormed
  <2>4. request' = [request EXCEPT ![i] = r]
    BY <1>0, <2>2
  <2>5. Settled
    BY <1>0, <2>3, <2>4 DEF WellFormed
  <2>6. CASE ConsoleAnswers(i)
    BY <2>5, <2>6 DEF ConsoleAnswers, TypeOK, PhaseOK, WellFormed, world, gate, meter
  <2>7. CASE ConsoleFails(i)
    <3>1. held' \in [Keys -> [Verdicts -> Times \union {Never}]]
      <4>1. PICK u \in {"limited", "degraded"} : held' = [held EXCEPT ![request[i].key][u] = now]
        BY <2>7 DEF ConsoleFails
      <4> QED
        BY <2>1, <4>1 DEF TypeOK
    <3> QED
      BY <2>5, <2>7, <3>1, BoundsAssumption
      DEF ConsoleFails, MayFail, TypeOK, PhaseOK, WellFormed, gate, meter
  <2> QED
    BY <1>4, <2>6, <2>7
<1>5. ASSUME NEW i \in Slots, FinishUnmetered(i) \/ UsageAccepted(i) \/ UsageFails(i)
      PROVE  TypeOK' /\ PhaseOK'
  <2>1. request' = [request EXCEPT ![i] = NoRequest]
    BY <1>5 DEF FinishUnmetered, UsageAccepted, UsageFails
  <2>2. Settled
    BY <1>0, <2>1, NoRequestType DEF WellFormed
  <2>3. ASSUME request[i].pc = "usage"
        PROVE  Received(request[i]) \subseteq [event: UsageEvent, by: Ids]
    BY <1>0, <2>3 DEF Received, WellFormed, Request, TypeOK
  <2>4. received' \subseteq [event: UsageEvent, by: Ids]
    BY <1>5, <2>3 DEF FinishUnmetered, UsageAccepted, UsageFails, TypeOK, meter
  <2> QED
    BY <1>5, <2>2, <2>4, BoundsAssumption
    DEF FinishUnmetered, UsageAccepted, UsageFails, MayFail, TypeOK, PhaseOK,
        WellFormed, world, gate, meter
<1>6. ASSUME NEW i \in Slots, FinishMetered(i)
      PROVE  TypeOK' /\ PhaseOK'
  <2> DEFINE event == [call |-> request[i].id, key |-> request[i].key,
                       seq |-> counter + 1]
             batch == queue \union {event}
             r == [request[i] EXCEPT !.pc = "usage", !.batch = batch]
  <2>1. /\ WellFormed(request[i]) /\ request[i].pc = "work"
        /\ request[i].key \in Keys /\ request[i].id \in Ids
    BY <1>0, <1>6 DEF FinishMetered, WellFormed
  <2>2. batch \subseteq UsageEvent
    BY <2>1 DEF TypeOK, UsageEvent
  <2>3. WellFormed(r)
    <3>1. r \in Request /\ r.pc = "usage" /\ r.verdict = request[i].verdict
          /\ r.key = request[i].key /\ r.id = request[i].id
      BY <2>1, <2>2 DEF WellFormed, Request
    <3> QED
      BY <2>1, <3>1 DEF WellFormed
  <2>4. request' = [request EXCEPT ![i] = r]
    BY <1>0, <1>6 DEF FinishMetered
  <2>5. Settled
    BY <1>0, <2>3, <2>4 DEF WellFormed
  <2> QED
    BY <1>6, <2>5 DEF FinishMetered, QueueAfterFlush, TypeOK, PhaseOK, WellFormed,
                      world, gate
<1> QED
  BY <1>1, <1>2, <1>3, <1>4, <1>5, <1>6

LEMMA NextTypeOK == TypeOK /\ PhaseOK /\ [Next]_vars => TypeOK' /\ PhaseOK'
<1> SUFFICES ASSUME TypeOK, PhaseOK, [Next]_vars PROVE TypeOK' /\ PhaseOK'
  OBVIOUS
<1>1. CASE \E i \in Slots :
             \/ StartUnkeyed(i) \/ ReceiveVerdict(i)
             \/ \E k \in Keys : StartCached(i, k) \/ StartVerify(i, k)
  BY <1>1, VerifyType
<1>2. CASE \/ Tick \/ ColdStart
           \/ \E k \in Keys, v \in Standings : ChangeStanding(k, v)
           \/ \E i \in Slots : \/ ConsoleAnswers(i) \/ ConsoleFails(i)
                               \/ FinishUnmetered(i) \/ FinishMetered(i)
                               \/ UsageAccepted(i) \/ UsageFails(i)
  BY <1>2, OtherType
<1>3. CASE UNCHANGED vars
  BY <1>3 DEF vars, world, gate, meter, TypeOK, PhaseOK
<1> QED
  BY <1>1, <1>2, <1>3 DEF Next

LEMMA PhasesHold == Spec => [](TypeOK /\ PhaseOK)
<1> QED
  BY InitTypeOK, NextTypeOK, PTL DEF Spec

(* Types, and with them the bound on the cache: whatever requests arrive   *)
(* together, the verdict cache never holds more than CacheMax entries.     *)
THEOREM GateTypeCorrect == Spec => []TypeOK
<1> QED
  BY PhasesHold, PTL

----------------------------------------------------------------------------
(* Verdicts are fresh.                                                     *)

(* With h the times at which verdicts were last the console's, and t the   *)
(* time: an answer under way is no older than its request, an entry of the *)
(* cache expires a lifetime after its verdict held, and a decision is as   *)
(* VerdictFresh says.                                                      *)
EntryFresh(e, h) == e.expires <= h[e.verdict] + TTL(e.verdict)

DecisionFresh(r, h) ==
  r.key \in Keys => h[r.key][r.verdict] > r.start - TTL(r.verdict)

RequestFresh(r, h, t) ==
  /\ r.pc \in {"verify", "answer"} => r.start <= t
  /\ r.pc = "answer" => r.start <= h[r.key][r.verdict]
  /\ r.pc \in {"work", "usage", "refused"} => DecisionFresh(r, h)

FreshOK ==
  /\ \A k \in Keys : held[k][standing[k]] = now
  /\ \A k \in Keys, v \in Verdicts : held[k][v] <= now
  /\ \A k \in Keys : cache[k] # NoEntry => EntryFresh(cache[k], held[k])
  /\ \A i \in Slots : RequestFresh(request[i], held, now)

Held == [Keys -> [Verdicts -> Times \union {Never}]]

LEMMA HeldTimes ==
  ASSUME NEW h \in Held, NEW k \in Keys, NEW v \in Verdicts
  PROVE  h[k][v] \in Int
<1>1. h[k] \in [Verdicts -> Times \union {Never}]
  BY DEF Held
<1>2. h[k][v] \in Times \union {Never}
  BY <1>1
<1> QED
  BY <1>2, NumberFacts

(* As time passes and verdicts hold later, what was fresh remains so.      *)
LEMMA StaysFresh ==
  ASSUME NEW g \in Held, NEW h \in Held, NEW t \in Times, NEW u \in Times, t <= u,
         \A k \in Keys, v \in Verdicts : g[k][v] <= h[k][v]
  PROVE  /\ \A r : WellFormed(r) /\ RequestFresh(r, g, t) => RequestFresh(r, h, u)
         /\ \A k \in Keys, e \in Entry :
              EntryFresh(e, g[k]) => EntryFresh(e, h[k])
<1>1. \A k \in Keys, v \in Verdicts : g[k][v] \in Int /\ h[k][v] \in Int
                                      /\ g[k][v] <= h[k][v] /\ TTL(v) \in Int
  BY HeldTimes, NumberFacts
<1>2. ASSUME NEW k \in Keys, NEW e \in Entry, EntryFresh(e, g[k])
      PROVE  EntryFresh(e, h[k])
  <2>1. e.verdict \in Verdicts /\ e.expires \in Int
    BY LimitsAssumption, BoundsAssumption DEF Entry
  <2> QED
    BY <1>1, <1>2, <2>1 DEF EntryFresh
<1>3. ASSUME NEW r, WellFormed(r), RequestFresh(r, g, t)
      PROVE  RequestFresh(r, h, u)
  <2>1. r.start \in Int /\ t \in Int /\ u \in Int
    BY <1>3, NumberFacts DEF WellFormed, Request
  <2>2. r.pc \in {"verify", "answer"} => r.start <= u
    BY <1>3, <2>1 DEF RequestFresh
  <2>3. r.pc = "answer" => r.start <= h[r.key][r.verdict]
    BY <1>1, <1>3, <2>1 DEF RequestFresh, WellFormed
  <2>4. r.pc \in {"work", "usage", "refused"} => DecisionFresh(r, h)
    BY <1>1, <1>3, <2>1 DEF RequestFresh, DecisionFresh, WellFormed
  <2> QED
    BY <2>2, <2>3, <2>4 DEF RequestFresh
<1> QED
  BY <1>2, <1>3

(* A request decided on a fresh verdict stays a fresh decision.            *)
LEMMA DecideFresh ==
  ASSUME TypeOK, FreshOK, NEW i \in Slots, NEW r \in Request,
         DecisionFresh(r, held), Decide(i, r)
  PROVE  \A j \in Slots : RequestFresh(request'[j], held, now)
<1> DEFINE w == [r EXCEPT !.pc = "work"]
<1>1. RequestFresh(w, held, now)
  <2>1. w.pc = "work" /\ w.key = r.key /\ w.verdict = r.verdict /\ w.start = r.start
    BY DEF Request
  <2> QED
    BY <2>1 DEF RequestFresh, DecisionFresh
<1>2. RequestFresh(Refused(r), held, now)
  BY DEF RequestFresh, DecisionFresh, Refused, NoRequest
<1>3. \/ request' = [request EXCEPT ![i] = w]
      \/ request' = [request EXCEPT ![i] = Refused(r)]
  BY DEF Decide, CheckRate
<1> QED
  BY <1>1, <1>2, <1>3 DEF FreshOK, TypeOK

(* Steps of the console and the clock, which move held.                    *)
LEMMA HeldGrows ==
  ASSUME TypeOK, TypeOK', PhaseOK, FreshOK,
         \/ Tick \/ \E k \in Keys, v \in Standings : ChangeStanding(k, v)
         \/ \E i \in Slots : ConsoleFails(i)
  PROVE  /\ \A k \in Keys, v \in Verdicts : held[k][v] <= held'[k][v] /\ held'[k][v] <= now'
         /\ \A k \in Keys : held'[k][standing'[k]] = now'
         /\ now <= now'
<1>0. /\ held \in Held /\ standing \in [Keys -> Standings] /\ now \in Int
      /\ \A k \in Keys, v \in Verdicts : held[k][v] \in Int /\ held[k][v] <= now
      /\ \A k \in Keys : standing[k] \in Verdicts /\ held[k][standing[k]] = now
  <2>1. held \in Held /\ standing \in [Keys -> Standings] /\ now \in Int
    BY NumberFacts DEF TypeOK, Held
  <2>2. \A k \in Keys, v \in Verdicts : held[k][v] \in Int /\ held[k][v] <= now
    BY <2>1, HeldTimes DEF FreshOK
  <2>3. \A k \in Keys : standing[k] \in Verdicts /\ held[k][standing[k]] = now
    BY <2>1 DEF FreshOK, Verdicts
  <2> QED
    BY <2>1, <2>2, <2>3
<1>1. CASE Tick
  <2>1. \A k \in Keys, v \in Verdicts :
          held'[k][v] = IF v = standing[k] THEN now + 1 ELSE held[k][v]
    BY <1>0, <1>1 DEF Tick, Held
  <2>2. now' = now + 1 /\ standing' = standing
    BY <1>1 DEF Tick
  <2> QED
    BY <1>0, <2>1, <2>2
<1>2. CASE \E k \in Keys, v \in Standings : ChangeStanding(k, v)
  <2>1. PICK k \in Keys, v \in Standings : ChangeStanding(k, v)
    BY <1>2
  <2>2. /\ now' = now /\ standing' = [standing EXCEPT ![k] = v]
        /\ \A j \in Keys, u \in Verdicts :
             held'[j][u] = IF j = k /\ u = v THEN now ELSE held[j][u]
    BY <1>0, <2>1 DEF ChangeStanding, Held, Verdicts
  <2>3. \A j \in Keys : standing'[j] = (IF j = k THEN v ELSE standing[j])
                        /\ standing'[j] \in Verdicts
    BY <1>0, <2>2 DEF Verdicts
  <2> QED
    BY <1>0, <2>2, <2>3
<1>3. CASE \E i \in Slots : ConsoleFails(i)
  <2>1. PICK i \in Slots, v \in {"limited", "degraded"} :
          /\ request[i].pc = "verify"
          /\ held' = [held EXCEPT ![request[i].key][v] = now]
          /\ UNCHANGED << now, standing >>
    BY <1>3 DEF ConsoleFails
  <2>2. request[i].key \in Keys /\ v \in Verdicts
    BY <2>1 DEF PhaseOK, Verdicts
  <2>3. \A j \in Keys, u \in Verdicts :
          held'[j][u] = IF j = request[i].key /\ u = v THEN now ELSE held[j][u]
    BY <1>0, <2>1, <2>2 DEF Held
  <2>4. \A j \in Keys : standing[j] # v
    BY <1>0, <2>1 DEF Standings
  <2>5. \A j \in Keys : held'[j][standing'[j]] = now'
    BY <1>0, <2>1, <2>3, <2>4
  <2>6. \A j \in Keys, u \in Verdicts : held[j][u] <= held'[j][u] /\ held'[j][u] <= now'
    BY <1>0, <2>1, <2>3
  <2> QED
    BY <1>0, <2>1, <2>5, <2>6
<1> QED
  BY <1>1, <1>2, <1>3

LEMMA ConsoleFresh ==
  ASSUME TypeOK, TypeOK', PhaseOK, FreshOK,
         \/ Tick \/ \E k \in Keys, v \in Standings : ChangeStanding(k, v)
         \/ \E i \in Slots : ConsoleFails(i)
  PROVE  FreshOK'
<1>1. /\ \A k \in Keys, v \in Verdicts : held[k][v] <= held'[k][v] /\ held'[k][v] <= now'
      /\ \A k \in Keys : held'[k][standing'[k]] = now'
      /\ now <= now'
  BY HeldGrows
<1>2. held \in Held /\ held' \in Held /\ now \in Times /\ now' \in Times
  BY DEF TypeOK, Held
<1>3. \A r : WellFormed(r) /\ RequestFresh(r, held, now) => RequestFresh(r, held', now')
  BY <1>1, <1>2, StaysFresh
<1>4. \A k \in Keys : cache'[k] # NoEntry => EntryFresh(cache'[k], held'[k])
  <2>1. cache' = cache
    BY DEF Tick, ChangeStanding, ConsoleFails, gate
  <2> SUFFICES ASSUME NEW k \in Keys, cache[k] # NoEntry
               PROVE  EntryFresh(cache[k], held'[k])
    BY <2>1
  <2>2. cache[k] \in Entry /\ EntryFresh(cache[k], held[k])
    BY DEF TypeOK, FreshOK
  <2> QED
    BY <1>1, <1>2, <2>2, StaysFresh
<1>5. \A j \in Slots : WellFormed(request[j]) /\ RequestFresh(request[j], held, now)
  BY RecordsWellFormed DEF TypeOK, FreshOK
<1>6. ASSUME NEW j \in Slots PROVE RequestFresh(request'[j], held', now')
  <2>1. CASE request' = request
    BY <1>3, <1>5, <2>1
  <2>2. CASE \E i \in Slots : ConsoleFails(i)
    <3>1. PICK i \in Slots, v \in {"limited", "degraded"} :
            /\ request[i].pc = "verify"
            /\ request' = [request EXCEPT ![i].pc = "answer", ![i].verdict = v]
            /\ held' = [held EXCEPT ![request[i].key][v] = now]
            /\ now' = now
      BY <2>2 DEF ConsoleFails
    <3>2. CASE j # i
      BY <1>3, <1>5, <3>1, <3>2 DEF TypeOK
    <3>3. CASE j = i
      <4>1. /\ request'[j].pc = "answer" /\ request'[j].verdict = v
            /\ request'[j].key = request[i].key /\ request'[j].start = request[i].start
        BY <3>1, <3>3 DEF TypeOK, Request
      <4>2. request[i].key \in Keys /\ v \in Verdicts /\ request[i].start <= now
        BY <1>5, <3>1 DEF WellFormed, RequestFresh, Verdicts
      <4>3. held'[request[i].key][v] = now
        BY <1>2, <3>1, <4>2 DEF Held
      <4> QED
        BY <3>1, <4>1, <4>2, <4>3 DEF RequestFresh
    <3> QED
      BY <3>2, <3>3
  <2> QED
    BY <2>1, <2>2 DEF Tick, ChangeStanding
<1> QED
  BY <1>1, <1>4, <1>6 DEF FreshOK

(* Steps of requests, which leave held and the clock alone.                *)
LEMMA RequestStepFresh ==
  ASSUME TypeOK, PhaseOK, FreshOK, NEW i \in Slots,
         \/ StartUnkeyed(i) \/ ReceiveVerdict(i)
         \/ \E k \in Keys : StartCached(i, k) \/ StartVerify(i, k)
         \/ ConsoleAnswers(i) \/ FinishUnmetered(i) \/ FinishMetered(i)
         \/ UsageAccepted(i) \/ UsageFails(i)
  PROVE  FreshOK'
<1>0. /\ UNCHANGED << now, standing, held >>
      /\ request \in [Slots -> Request]
      /\ \A j \in Slots : WellFormed(request[j]) /\ RequestFresh(request[j], held, now)
  <2>1. UNCHANGED << now, standing, held >>
    BY DEF StartUnkeyed, ReceiveVerdict, StartCached, StartVerify, ConsoleAnswers,
           FinishUnmetered, FinishMetered, UsageAccepted, UsageFails, world
  <2> QED
    BY <2>1, RecordsWellFormed DEF TypeOK, FreshOK
<1>1. SUFFICES /\ \A k \in Keys : cache'[k] # NoEntry => EntryFresh(cache'[k], held[k])
               /\ \A j \in Slots : RequestFresh(request'[j], held, now)
  BY <1>0 DEF FreshOK
<1>2. \A k \in Keys : cache[k] # NoEntry => EntryFresh(cache[k], held[k])
  BY DEF FreshOK
<1>3. now \in Int /\ held \in Held
  BY NumberFacts DEF TypeOK, Held
<1>4. CASE StartUnkeyed(i)
  <2>1. /\ requests < MaxRequests /\ cache' = cache /\ Decide(i, NewRequest(NoKey))
    BY <1>4 DEF StartUnkeyed, IsFree
  <2>2. NewRequest(NoKey) \in Request /\ NewRequest(NoKey).key \notin Keys
    BY <2>1, NumberFacts, NewRequestType, KeysAssumption
  <2> QED
    BY <1>2, <2>1, <2>2, DecideFresh DEF DecisionFresh
<1>5. CASE \E k \in Keys : StartCached(i, k)
  <2>1. PICK k \in Keys : StartCached(i, k)
    BY <1>5
  <2> DEFINE v == cache[k].verdict
             r == [NewRequest(k) EXCEPT !.verdict = v]
  <2>2. /\ requests < MaxRequests /\ cache' = cache /\ Decide(i, r)
        /\ cache[k] \in Entry /\ cache[k].expires > now
        /\ EntryFresh(cache[k], held[k])
    BY <1>2, <2>1 DEF StartCached, IsFree, IsFresh, TypeOK
  <2>3. r \in Request /\ r.key = k /\ r.start = now /\ r.verdict = v
    <3>1. k \in Callers /\ v \in Verdicts
      BY <2>2, NumberFacts DEF Entry
    <3> QED
      BY <2>2, <3>1, NewRequestType DEF Request
  <2>4. held[k][v] > now - TTL(v)
    <3>1. v \in Verdicts /\ cache[k].expires \in Int
      BY <2>2, LimitsAssumption, BoundsAssumption DEF Entry
    <3>2. held[k][v] \in Int /\ TTL(v) \in Int
      BY <1>3, <3>1, HeldTimes, NumberFacts
    <3> QED
      BY <1>3, <2>2, <3>1, <3>2 DEF EntryFresh
  <2>5. DecisionFresh(r, held)
    BY <2>3, <2>4 DEF DecisionFresh
  <2> QED
    BY <1>2, <2>2, <2>3, <2>5, DecideFresh
<1>6. CASE \E k \in Keys : StartVerify(i, k)
  <2>1. PICK k \in Keys : StartVerify(i, k)
    BY <1>6
  <2> DEFINE r == [NewRequest(k) EXCEPT !.pc = "verify"]
  <2>2. /\ requests < MaxRequests /\ cache' = [cache EXCEPT ![k] = NoEntry]
        /\ request' = [request EXCEPT ![i] = r]
    BY <2>1 DEF StartVerify, IsFree
  <2>3. r.pc = "verify" /\ r.start = now
    BY DEF NewRequest, NoRequest
  <2>4. RequestFresh(r, held, now)
    BY <1>3, <2>3 DEF RequestFresh
  <2> QED
    BY <1>0, <1>2, <2>2, <2>4 DEF TypeOK
<1>7. CASE ReceiveVerdict(i)
  <2> DEFINE r == request[i]
             entry == [verdict |-> r.verdict, expires |-> Expires(r)]
             full == [cache EXCEPT ![r.key] = entry]
  <2>1. /\ r \in Request /\ r.key \in Keys /\ r.verdict \in Verdicts
        /\ r.start <= held[r.key][r.verdict] /\ Decide(i, r)
        /\ cache' \in CachesAfter(full, r.key)
    BY <1>0, <1>7 DEF ReceiveVerdict, WellFormed, RequestFresh
  <2>2. /\ r.start \in Int /\ held[r.key][r.verdict] \in Int
        /\ TTL(r.verdict) \in Nat \ {0}
    BY <1>3, <2>1, HeldTimes, NumberFacts DEF Request
  <2>3. DecisionFresh(r, held)
    BY <2>1, <2>2 DEF DecisionFresh
  <2>4. EntryFresh(entry, held[r.key])
    BY <2>1, <2>2 DEF EntryFresh, Expires
  <2>5. \A k \in Keys : full[k] # NoEntry => EntryFresh(full[k], held[k])
    BY <1>2, <2>1, <2>4 DEF TypeOK
  <2>6. \A k \in Keys : cache'[k] = full[k] \/ cache'[k] = NoEntry
    BY <2>1 DEF CachesAfter, TypeOK
  <2>7. \A k \in Keys : cache'[k] # NoEntry => EntryFresh(cache'[k], held[k])
    BY <2>5, <2>6
  <2> QED
    BY <2>1, <2>3, <2>7, DecideFresh
<1>8. CASE ConsoleAnswers(i)
  <2>1. /\ cache' = cache /\ request[i].pc = "verify"
        /\ request' = [request EXCEPT ![i].pc = "answer",
                                      ![i].verdict = standing[request[i].key]]
    BY <1>8 DEF ConsoleAnswers, gate
  <2>2. request[i].key \in Keys /\ request[i].start <= now
    BY <1>0, <2>1 DEF WellFormed, RequestFresh
  <2>3. /\ request'[i].pc = "answer" /\ request'[i].key = request[i].key
        /\ request'[i].start = request[i].start
        /\ request'[i].verdict = standing[request[i].key]
    BY <1>0, <2>1 DEF Request
  <2>4. held[request[i].key][standing[request[i].key]] = now
    BY <2>2 DEF FreshOK
  <2>5. RequestFresh(request'[i], held, now)
    BY <2>2, <2>3, <2>4 DEF RequestFresh
  <2> QED
    BY <1>0, <1>2, <2>1, <2>5
<1>9. CASE FinishUnmetered(i) \/ UsageAccepted(i) \/ UsageFails(i)
  <2>1. cache' = cache /\ request' = [request EXCEPT ![i] = NoRequest]
    BY <1>9 DEF FinishUnmetered, UsageAccepted, UsageFails, gate
  <2>2. RequestFresh(NoRequest, held, now)
    BY DEF RequestFresh, NoRequest
  <2> QED
    BY <1>0, <1>2, <2>1, <2>2
<1>10. CASE FinishMetered(i)
  <2> DEFINE event == [call |-> request[i].id, key |-> request[i].key,
                       seq |-> counter + 1]
             r == [request[i] EXCEPT !.pc = "usage", !.batch = queue \union {event}]
  <2>1. /\ cache' = cache /\ request[i].pc = "work"
        /\ request' = [request EXCEPT ![i] = r]
    BY <1>0, <1>10 DEF FinishMetered, gate
  <2>2. /\ r.pc = "usage" /\ r.key = request[i].key
        /\ r.start = request[i].start /\ r.verdict = request[i].verdict
    BY <1>0 DEF Request
  <2>3. RequestFresh(r, held, now)
    BY <1>0, <2>1, <2>2 DEF RequestFresh, DecisionFresh
  <2> QED
    BY <1>0, <1>2, <2>1, <2>3
<1> QED
  BY <1>4, <1>5, <1>6, <1>7, <1>8, <1>9, <1>10

LEMMA NextFresh ==
  TypeOK /\ PhaseOK /\ FreshOK /\ [Next]_vars => FreshOK'
<1> SUFFICES ASSUME TypeOK, PhaseOK, FreshOK, [Next]_vars PROVE FreshOK'
  OBVIOUS
<1>1. TypeOK'
  BY NextTypeOK
<1>2. CASE \/ Tick \/ \E k \in Keys, v \in Standings : ChangeStanding(k, v)
           \/ \E i \in Slots : ConsoleFails(i)
  BY <1>1, <1>2, ConsoleFresh
<1>3. CASE \E i \in Slots :
             \/ StartUnkeyed(i) \/ ReceiveVerdict(i)
             \/ \E k \in Keys : StartCached(i, k) \/ StartVerify(i, k)
             \/ ConsoleAnswers(i) \/ FinishUnmetered(i) \/ FinishMetered(i)
             \/ UsageAccepted(i) \/ UsageFails(i)
  BY <1>3, RequestStepFresh
<1>4. CASE ColdStart
  <2>1. /\ cache' = [k \in Keys |-> NoEntry] /\ request' = [j \in Slots |-> NoRequest]
        /\ UNCHANGED << now, standing, held >>
    BY <1>4 DEF ColdStart, world
  <2>2. RequestFresh(NoRequest, held, now)
    BY DEF RequestFresh, NoRequest
  <2> QED
    BY <2>1, <2>2 DEF FreshOK
<1>5. CASE UNCHANGED vars
  BY <1>5 DEF vars, world, gate, FreshOK
<1> QED
  BY <1>2, <1>3, <1>4, <1>5 DEF Next

LEMMA InitFresh == Init => FreshOK
<1> SUFFICES ASSUME Init PROVE FreshOK
  OBVIOUS
<1>1. \A k \in Keys, v \in Verdicts :
        held[k][v] = IF v = standing[k] THEN now ELSE Never
  BY DEF Init
<1>2. now = 0 /\ Never <= 0
  BY LimitsAssumption DEF Init, Never
<1>3. \A k \in Keys : standing[k] \in Verdicts
  BY StandingAssumption DEF Init, Verdicts
<1>4. RequestFresh(NoRequest, held, now)
  BY DEF RequestFresh, NoRequest
<1>5. \A k \in Keys : cache[k] = NoEntry
  BY DEF Init
<1>6. \A i \in Slots : request[i] = NoRequest
  BY DEF Init
<1> QED
  BY <1>1, <1>2, <1>3, <1>4, <1>5, <1>6 DEF FreshOK

(* A revoked key is admitted, and a renewed one refused, for no longer     *)
(* than the lifetime of the verdict, counted back from the arrival of the  *)
(* request, whatever the delays of the console, the overlap of requests    *)
(* for one key, evictions and cold starts.                                 *)
THEOREM VerdictsAreFresh == Spec => []VerdictFresh
<1>1. FreshOK => VerdictFresh
  BY DEF FreshOK, RequestFresh, DecisionFresh, VerdictFresh
<1> QED
  BY <1>1, InitFresh, NextFresh, PhasesHold, PTL DEF Spec

----------------------------------------------------------------------------
(* Rates.                                                                  *)

(* A bucket lists every call of its caller that is still in the window.    *)
RateOK ==
  \A c \in Callers :
    /\ IsFiniteSet(buckets[c])
    /\ admitted[c] \subseteq Recent(buckets[c], now)
    /\ Cardinality(admitted[c]) <= MaxCalls

(* Listing calls for one caller forgets no recent call of another.         *)
LEMMA BucketsKeepRecent ==
  ASSUME TypeOK, RateOK, NEW caller \in Callers, NEW calls,
         NEW w \in WithBucket(caller, calls)
  PROVE  /\ w[caller] = calls
         /\ \A c \in Callers \ {caller} :
              IsFiniteSet(w[c]) /\ Recent(w[c], now) = Recent(buckets[c], now)
<1> DEFINE b == [buckets EXCEPT ![caller] = calls]
<1>1. b[caller] = calls /\ \A c \in Callers \ {caller} : b[c] = buckets[c]
  BY DEF TypeOK
<1>2. PICK P \in Prunings(b, caller) : w = [c \in Callers |-> IF c \in P THEN {} ELSE b[c]]
  BY DEF WithBucket
<1>3. P \subseteq {c \in InUse(b) \ {caller} : IsStale(b[c])}
  BY <1>2 DEF Prunings
<1> HIDE DEF b
<1>4. w[caller] = calls
  BY <1>1, <1>2, <1>3
<1>5. ASSUME NEW c \in Callers \ {caller}
      PROVE  IsFiniteSet(w[c]) /\ Recent(w[c], now) = Recent(buckets[c], now)
  <2>1. CASE c \in P
    <3>1. w[c] = {} /\ IsStale(buckets[c])
      BY <1>1, <1>2, <1>3, <2>1
    <3>2. c \in Callers /\ buckets[c] \subseteq Call /\ \A a \in Call : a.at \in Times
      BY DEF TypeOK, Call
    <3>3. \A a \in buckets[c] : a.at \in Int
      BY <3>2, NumberFacts
    <3>4. now - Window \in Int
      BY NumberFacts, LimitsAssumption DEF TypeOK
    <3>5. Recent(buckets[c], now) = {}
      BY <3>1, <3>3, <3>4 DEF IsStale, Recent
    <3> QED
      BY <3>1, <3>5, FS_EmptySet DEF Recent
  <2>2. CASE c \notin P
    BY <1>1, <1>2, <2>2 DEF RateOK
  <2> QED
    BY <2>1, <2>2
<1> QED
  BY <1>4, <1>5

LEMMA OneMore ==
  ASSUME NEW S, IsFiniteSet(S), NEW x
  PROVE  /\ IsFiniteSet(S \union {x}) /\ Cardinality(S \union {x}) \in Nat
         /\ Cardinality(S \union {x}) <= Cardinality(S) + 1
<1>1. Cardinality(S) \in Nat
  BY FS_CardinalityType
<1>2. IsFiniteSet(S \union {x})
  BY FS_AddElement
<1>3. CASE x \in S
  <2>1. S \union {x} = S
    BY <1>3
  <2> QED
    BY <1>1, <1>2, <2>1
<1>4. CASE x \notin S
  <2>1. Cardinality(S \union {x}) = Cardinality(S) + 1
    BY <1>4, FS_AddElement
  <2> QED
    BY <1>1, <1>2, <2>1
<1> QED
  BY <1>3, <1>4

LEMMA DecideRate ==
  ASSUME TypeOK, RateOK, NEW i \in Slots, NEW r \in Request, Decide(i, r)
  PROVE  \A c \in Callers :
           /\ IsFiniteSet(buckets'[c])
           /\ admitted'[c] \subseteq Recent(buckets'[c], now)
           /\ Cardinality(admitted'[c]) <= MaxCalls
<1> DEFINE k == r.key
           recent == Recent(buckets[k], now)
           call == [id |-> r.id, at |-> now]
<1>1. /\ k \in Callers /\ recent \subseteq buckets[k] /\ IsFiniteSet(buckets[k])
      /\ admitted[k] \subseteq recent /\ now > now - Window
  BY NumberFacts, LimitsAssumption DEF Request, RateOK, Recent, TypeOK
<1>2. IsFiniteSet(recent) /\ Cardinality(recent) \in Nat /\ Recent(recent, now) = recent
  BY <1>1, FS_Subset, FS_CardinalityType DEF Recent
<1>3. CASE Passes(r) /\ Cardinality(recent) < MaxCalls
  <2>1. /\ buckets' \in WithBucket(k, recent \union {call})
        /\ admitted' = [admitted EXCEPT ![k] = @ \union {call}]
    BY <1>3 DEF Decide, CheckRate
  <2>2. ASSUME NEW c \in Callers \ {k}
        PROVE  /\ IsFiniteSet(buckets'[c])
               /\ admitted'[c] \subseteq Recent(buckets'[c], now)
               /\ Cardinality(admitted'[c]) <= MaxCalls
    BY <1>1, <2>1, BucketsKeepRecent DEF RateOK, TypeOK
  <2>3. /\ buckets'[k] = recent \union {call}
        /\ admitted'[k] = admitted[k] \union {call}
    BY <1>1, <2>1, BucketsKeepRecent DEF TypeOK
  <2>4. IsFiniteSet(admitted[k]) /\ Cardinality(admitted[k]) \in Nat
        /\ Cardinality(admitted[k]) <= Cardinality(recent)
    BY <1>1, <1>2, FS_Subset, FS_CardinalityType
  <2>5. IsFiniteSet(recent \union {call})
        /\ Cardinality(admitted[k] \union {call}) <= Cardinality(admitted[k]) + 1
    BY <1>2, <2>4, OneMore
  <2>6. Cardinality(admitted[k] \union {call}) \in Nat
    BY <2>4, OneMore
  <2>7. Cardinality(admitted'[k]) <= MaxCalls
    BY <1>2, <1>3, <2>3, <2>4, <2>5, <2>6, LimitsAssumption
  <2>8. admitted'[k] \subseteq Recent(buckets'[k], now)
    BY <1>1, <1>2, <2>3 DEF Recent
  <2> QED
    BY <2>2, <2>3, <2>5, <2>7, <2>8
<1>4. CASE Passes(r) /\ ~(Cardinality(recent) < MaxCalls)
  <2>1. buckets' \in WithBucket(k, recent) /\ admitted' = admitted
    BY <1>4 DEF Decide, CheckRate
  <2>2. ASSUME NEW c \in Callers \ {k}
        PROVE  /\ IsFiniteSet(buckets'[c])
               /\ admitted'[c] \subseteq Recent(buckets'[c], now)
    BY <1>1, <2>1, BucketsKeepRecent DEF RateOK
  <2>3. buckets'[k] = recent
    BY <1>1, <2>1, BucketsKeepRecent
  <2> QED
    BY <1>1, <1>2, <2>1, <2>2, <2>3 DEF RateOK
<1>5. CASE ~Passes(r)
  BY <1>5 DEF Decide, RateOK
<1> QED
  BY <1>3, <1>4, <1>5

LEMMA NextRate ==
  TypeOK /\ PhaseOK /\ RateOK /\ [Next]_vars => RateOK'
<1> SUFFICES ASSUME TypeOK, PhaseOK, RateOK, [Next]_vars PROVE RateOK'
  OBVIOUS
<1>1. ASSUME NEW i \in Slots, NEW r \in Request, Decide(i, r), now' = now
      PROVE  RateOK'
  BY <1>1, DecideRate DEF RateOK
<1>2. CASE Tick
  <2>1. ASSUME NEW c \in Callers
        PROVE  /\ admitted'[c] \subseteq Recent(buckets[c], now')
               /\ Cardinality(admitted'[c]) <= MaxCalls
    <3>1. admitted'[c] = Recent(admitted[c], now') /\ admitted[c] \subseteq buckets[c]
      BY <1>2 DEF Tick, RateOK, Recent
    <3>2. admitted'[c] \subseteq admitted[c] /\ IsFiniteSet(admitted[c])
      BY <3>1, FS_Subset DEF RateOK, Recent
    <3>3. /\ Cardinality(admitted'[c]) \in Nat /\ Cardinality(admitted[c]) \in Nat
          /\ Cardinality(admitted'[c]) <= Cardinality(admitted[c])
      BY <3>2, FS_Subset, FS_CardinalityType
    <3> QED
      BY <3>1, <3>3, LimitsAssumption DEF RateOK, Recent
  <2>2. buckets' = buckets
    BY <1>2 DEF Tick
  <2> QED
    BY <2>1, <2>2 DEF RateOK
<1>3. CASE ColdStart
  <2>1. \A c \in Callers : buckets'[c] = {} /\ admitted'[c] = {}
    BY <1>3 DEF ColdStart
  <2>2. IsFiniteSet({}) /\ Cardinality({}) <= MaxCalls
    BY FS_EmptySet, LimitsAssumption
  <2> QED
    BY <2>1, <2>2 DEF RateOK
<1>4. CASE \E i \in Slots : StartUnkeyed(i)
  <2>1. PICK i \in Slots : StartUnkeyed(i)
    BY <1>4
  <2>2. requests < MaxRequests /\ Decide(i, NewRequest(NoKey)) /\ now' = now
    BY <2>1 DEF StartUnkeyed, IsFree, world
  <2> QED
    BY <1>1, <2>2, NewRequestType, NumberFacts
<1>5. CASE \E i \in Slots, k \in Keys : StartCached(i, k)
  <2>1. PICK i \in Slots, k \in Keys : StartCached(i, k)
    BY <1>5
  <2> DEFINE r == [NewRequest(k) EXCEPT !.verdict = cache[k].verdict]
  <2>2. requests < MaxRequests /\ Decide(i, r) /\ now' = now
        /\ cache[k].verdict \in Verdicts
    BY <2>1 DEF StartCached, IsFree, IsFresh, world, TypeOK, Entry
  <2>3. r \in Request
    BY <2>2, NumberFacts, NewRequestType DEF Request
  <2> QED
    BY <1>1, <2>2, <2>3
<1>6. CASE \E i \in Slots : ReceiveVerdict(i)
  <2>1. PICK i \in Slots : ReceiveVerdict(i)
    BY <1>6
  <2>2. Decide(i, request[i]) /\ now' = now /\ request[i] \in Request
    BY <2>1 DEF ReceiveVerdict, world, TypeOK
  <2> QED
    BY <1>1, <2>2
<1>7. CASE \/ \E k \in Keys, v \in Standings : ChangeStanding(k, v)
           \/ \E i \in Slots : \/ \E k \in Keys : StartVerify(i, k)
                               \/ ConsoleAnswers(i) \/ ConsoleFails(i)
                               \/ FinishUnmetered(i) \/ FinishMetered(i)
                               \/ UsageAccepted(i) \/ UsageFails(i)
           \/ UNCHANGED vars
  <2>1. UNCHANGED << now, buckets, admitted >>
    BY <1>7 DEF ChangeStanding, StartVerify, ConsoleAnswers, ConsoleFails,
                FinishUnmetered, FinishMetered, UsageAccepted, UsageFails,
                vars, world, gate
  <2> QED
    BY <2>1 DEF RateOK
<1> QED
  BY <1>2, <1>3, <1>4, <1>5, <1>6, <1>7 DEF Next

(* No caller ever gets more than the limit through an isolate within a     *)
(* window, though the limiter forgets buckets when there are many.         *)
THEOREM CallersAreLimited == Spec => []RateLimited
<1>1. Init => RateOK
  <2> SUFFICES ASSUME Init PROVE RateOK
    OBVIOUS
  <2>1. \A c \in Callers : buckets[c] = {} /\ admitted[c] = {}
    BY DEF Init
  <2> QED
    BY <2>1, FS_EmptySet, LimitsAssumption DEF RateOK
<1>2. RateOK => RateLimited
  BY DEF RateOK, RateLimited
<1> QED
  BY <1>1, <1>2, NextRate, PhasesHold, PTL DEF Spec

----------------------------------------------------------------------------
(* Metering.                                                               *)

(* The requests whose numbers may still reach the console.                 *)
Active(r) == r.pc \in {"verify", "answer", "work", "usage"}

(* A batch is the one event of the request that posts it, since the queue  *)
(* is empty whenever a request begins to flush it.                         *)
OwnBatch(r) ==
  \A e, f \in r.batch : e = f /\ e.call = r.id /\ e.key = r.key

BillOK ==
  /\ queue = {}
  /\ \A i \in Slots : Active(request[i]) => request[i].id <= requests
  /\ \A i, j \in Slots :
       Active(request[i]) /\ Active(request[j]) /\ request[i].id = request[j].id => i = j
  /\ \A i \in Slots : request[i].pc = "usage" => OwnBatch(request[i])
  /\ \A p \in received :
       /\ p.event.call <= requests
       /\ \A i \in Slots : Active(request[i]) => request[i].id # p.event.call
  /\ \A p, q \in received : p.event.call = q.event.call => p = q

(* A slot that goes on with its request, begins the next one or ends.      *)
LEMMA SlotBill ==
  ASSUME TypeOK, BillOK, NEW i \in Slots, NEW r,
         request' = [request EXCEPT ![i] = r],
         queue' = {}, received' = received,
         requests' \in {requests, requests + 1},
         Active(r) => \/ Active(request[i]) /\ r.id = request[i].id
                      \/ r.id = requests + 1 /\ requests' = requests + 1,
         r.pc = "usage" => OwnBatch(r)
  PROVE  BillOK'
<1>1. request'[i] = r /\ \A j \in Slots \ {i} : request'[j] = request[j]
  BY DEF TypeOK
<1>2. requests \in Int /\ requests' \in Int /\ requests <= requests'
  BY DEF TypeOK
<1>3. \A p \in received : p.event.call \in Int
  BY DEF TypeOK, UsageEvent, Ids
<1>4. \A j \in Slots : request[j].id \in Int
  BY DEF TypeOK, Request, Ids
<1>5. \A j \in Slots : Active(request'[j]) =>
        \/ Active(request[j]) /\ request'[j].id = request[j].id
        \/ j = i /\ request'[j].id = requests + 1 /\ requests' = requests + 1
  BY <1>1
<1> HIDE DEF Active
<1>6. \A j \in Slots : Active(request'[j]) => request'[j].id <= requests'
  BY <1>2, <1>4, <1>5 DEF BillOK
<1>7. ASSUME NEW j \in Slots, NEW k \in Slots, Active(request'[j]), Active(request'[k]),
             request'[j].id = request'[k].id
      PROVE  j = k
  <2>1. \A l \in Slots : Active(request[l]) => request[l].id < requests + 1
    BY <1>2, <1>4 DEF BillOK
  <2> QED
    BY <1>4, <1>5, <1>7, <2>1 DEF BillOK
<1>8. \A j \in Slots : request'[j].pc = "usage" => OwnBatch(request'[j])
  BY <1>1 DEF BillOK
<1>9. ASSUME NEW p \in received
      PROVE  /\ p.event.call <= requests'
             /\ \A j \in Slots : Active(request'[j]) => request'[j].id # p.event.call
  <2>1. p.event.call <= requests /\ p.event.call < requests + 1
    BY <1>2, <1>3 DEF BillOK
  <2> QED
    BY <1>2, <1>3, <1>5, <2>1 DEF BillOK
<1>10. \A p, q \in received : p.event.call = q.event.call => p = q
  BY DEF BillOK
<1> QED
  BY <1>6, <1>7, <1>8, <1>9, <1>10 DEF BillOK

(* A request that is decided on goes on under its number or ends.          *)
LEMMA DecideBill ==
  ASSUME NEW i \in Slots, NEW r \in Request, Decide(i, r)
  PROVE  \E s : /\ request' = [request EXCEPT ![i] = s]
                /\ s.pc # "usage"
                /\ Active(s) => s.id = r.id
<1>1. CASE request' = [request EXCEPT ![i] = [r EXCEPT !.pc = "work"]]
  <2> DEFINE s == [r EXCEPT !.pc = "work"]
  <2>1. s.pc # "usage" /\ s.id = r.id
    BY DEF Request
  <2> QED
    BY <1>1, <2>1
<1>2. CASE request' = [request EXCEPT ![i] = Refused(r)]
  <2>1. Refused(r).pc \in {"idle", "refused"}
    BY DEF Refused, NoRequest
  <2> QED
    BY <1>2, <2>1 DEF Active
<1> QED
  BY <1>1, <1>2 DEF Decide, CheckRate

(* The console counts the batch of a request, once.                        *)
LEMMA ReceivedBill ==
  ASSUME TypeOK, BillOK, NEW i \in Slots, request[i].pc = "usage",
         received' = Received(request[i]), request' = [request EXCEPT ![i] = NoRequest],
         queue' = queue, requests' = requests
  PROVE  BillOK'
<1> DEFINE r == request[i]
<1>1. request'[i] = NoRequest /\ \A j \in Slots \ {i} : request'[j] = request[j]
  BY DEF TypeOK
<1>2. OwnBatch(r) /\ Active(r) /\ r.id <= requests
  BY DEF BillOK, Active
<1>3. ~Active(NoRequest)
  BY DEF Active, NoRequest
<1>4. \A p \in received' : p \in received \/ \E e \in r.batch : p = [event |-> e, by |-> r.id]
  BY DEF Received
<1> HIDE DEF Active
<1>5. ASSUME NEW p \in received'
      PROVE  \/ p \in received /\ p.event.call # r.id
             \/ p.event.call = r.id /\ p.by = r.id /\ p = [event |-> p.event, by |-> r.id]
                /\ p.event \in r.batch
  BY <1>2, <1>4 DEF BillOK, OwnBatch
<1>6. \A p, q \in received' : p.event.call = q.event.call => p = q
  <2>1. \A e, f \in r.batch : e = f
    BY <1>2 DEF OwnBatch
  <2> QED
    BY <1>5, <2>1 DEF BillOK
<1>7. ASSUME NEW p \in received'
      PROVE  /\ p.event.call <= requests
             /\ \A j \in Slots : Active(request'[j]) => request'[j].id # p.event.call
  <2>1. CASE p \in received
    BY <1>1, <1>3, <2>1 DEF BillOK
  <2>2. CASE p.event.call = r.id
    BY <1>1, <1>2, <1>3, <2>2 DEF BillOK
  <2> QED
    BY <1>5, <2>1, <2>2
<1>8. \A j \in Slots : /\ request'[j].pc = "usage" => OwnBatch(request'[j])
                       /\ Active(request'[j]) => request'[j].id <= requests
  BY <1>1, <1>3 DEF BillOK, NoRequest
<1>9. \A j, k \in Slots :
        Active(request'[j]) /\ Active(request'[k]) /\ request'[j].id = request'[k].id => j = k
  BY <1>1, <1>3 DEF BillOK
<1> QED
  BY <1>6, <1>7, <1>8, <1>9 DEF BillOK

LEMMA NextBill ==
  TypeOK /\ PhaseOK /\ BillOK /\ [Next]_vars => BillOK'
<1> SUFFICES ASSUME TypeOK, PhaseOK, BillOK, [Next]_vars PROVE BillOK'
  OBVIOUS
<1>0. queue = {} /\ request \in [Slots -> Request]
  BY DEF BillOK, TypeOK
<1>1. CASE UNCHANGED << queue, received, request, requests >>
  BY <1>1 DEF BillOK
<1>2. CASE Tick \/ (\E k \in Keys, v \in Standings : ChangeStanding(k, v)) \/ UNCHANGED vars
  <2>1. UNCHANGED << queue, received, request, requests >>
    BY <1>2 DEF Tick, ChangeStanding, vars, meter
  <2> QED
    BY <1>1, <2>1
<1>3. CASE ColdStart
  <2>1. /\ \A j \in Slots : request'[j] = NoRequest
        /\ queue' = {} /\ received' = received /\ requests' = requests
    BY <1>3 DEF ColdStart
  <2>2. ~Active(NoRequest) /\ NoRequest.pc # "usage"
    BY DEF Active, NoRequest
  <2> HIDE DEF Active
  <2> QED
    BY <2>1, <2>2 DEF BillOK
<1>4. ASSUME NEW i \in Slots, StartUnkeyed(i) PROVE BillOK'
  <2>1. /\ requests < MaxRequests /\ requests' = requests + 1
        /\ queue' = {} /\ received' = received
        /\ Decide(i, NewRequest(NoKey))
    BY <1>0, <1>4 DEF StartUnkeyed, IsFree, meter
  <2>2. NewRequest(NoKey) \in Request /\ NewRequest(NoKey).id = requests + 1
    BY <2>1, NewRequestType, NumberFacts DEF NewRequest, NoRequest
  <2> QED
    BY <2>1, <2>2, DecideBill, SlotBill
<1>5. ASSUME NEW i \in Slots, NEW k \in Keys, StartCached(i, k) PROVE BillOK'
  <2> DEFINE r == [NewRequest(k) EXCEPT !.verdict = cache[k].verdict]
  <2>1. /\ requests < MaxRequests /\ requests' = requests + 1
        /\ queue' = {} /\ received' = received
        /\ Decide(i, r) /\ cache[k].verdict \in Verdicts
    BY <1>0, <1>5 DEF StartCached, IsFree, meter, IsFresh, TypeOK, Entry
  <2>2. NewRequest(k) \in Request /\ NewRequest(k).id = requests + 1
    BY <2>1, NewRequestType, NumberFacts DEF NewRequest, NoRequest
  <2>3. r \in Request /\ r.id = requests + 1
    BY <2>1, <2>2 DEF Request
  <2> HIDE DEF r
  <2> QED
    BY <2>1, <2>3, DecideBill, SlotBill
<1>6. ASSUME NEW i \in Slots, NEW k \in Keys, StartVerify(i, k) PROVE BillOK'
  <2> DEFINE r == [NewRequest(k) EXCEPT !.pc = "verify"]
  <2>1. /\ requests' = requests + 1 /\ queue' = {} /\ received' = received
        /\ request' = [request EXCEPT ![i] = r]
    BY <1>0, <1>6 DEF StartVerify, IsFree, meter
  <2>2. r.id = requests + 1 /\ r.pc = "verify"
    BY DEF NewRequest, NoRequest
  <2> HIDE DEF r
  <2> QED
    BY <2>1, <2>2, SlotBill
<1>7. ASSUME NEW i \in Slots, ReceiveVerdict(i) PROVE BillOK'
  <2>1. /\ requests' = requests /\ queue' = {} /\ received' = received
        /\ Decide(i, request[i]) /\ request[i] \in Request /\ Active(request[i])
    BY <1>0, <1>7 DEF ReceiveVerdict, meter, Active
  <2> QED
    BY <2>1, DecideBill, SlotBill
<1>8. ASSUME NEW i \in Slots, ConsoleAnswers(i) \/ ConsoleFails(i) PROVE BillOK'
  <2>1. /\ requests' = requests /\ queue' = {} /\ received' = received
        /\ request[i].pc = "verify"
    BY <1>0, <1>8 DEF ConsoleAnswers, ConsoleFails, meter
  <2>2. PICK v : request' = [request EXCEPT ![i] = [request[i] EXCEPT !.pc = "answer",
                                                                     !.verdict = v]]
    BY <1>0, <1>8 DEF ConsoleAnswers, ConsoleFails
  <2> DEFINE r == [request[i] EXCEPT !.pc = "answer", !.verdict = v]
  <2>3. r.id = request[i].id /\ r.pc = "answer" /\ Active(request[i])
    BY <1>0, <2>1 DEF Request, Active
  <2> HIDE DEF r
  <2> QED
    BY <2>1, <2>2, <2>3, SlotBill DEF r
<1>9. ASSUME NEW i \in Slots, FinishUnmetered(i) PROVE BillOK'
  <2>1. /\ requests' = requests /\ queue' = {} /\ received' = received
        /\ request' = [request EXCEPT ![i] = NoRequest]
    BY <1>0, <1>9 DEF FinishUnmetered, meter
  <2>2. ~Active(NoRequest) /\ NoRequest.pc # "usage"
    BY DEF Active, NoRequest
  <2> QED
    BY <2>1, <2>2, SlotBill
<1>10. ASSUME NEW i \in Slots, FinishMetered(i) PROVE BillOK'
  <2> DEFINE event == [call |-> request[i].id, key |-> request[i].key,
                       seq |-> counter + 1]
             r == [request[i] EXCEPT !.pc = "usage", !.batch = queue \union {event}]
  <2>1. /\ requests' = requests /\ queue' = {} /\ received' = received
        /\ request' = [request EXCEPT ![i] = r] /\ request[i].pc = "work"
    BY <1>0, <1>10 DEF FinishMetered, QueueAfterFlush
  <2>2. /\ r.id = request[i].id /\ r.key = request[i].key
        /\ r.batch = {event} /\ Active(request[i])
    BY <1>0, <2>1 DEF Request, Active
  <2>3. OwnBatch(r)
    BY <2>2 DEF OwnBatch
  <2> HIDE DEF r
  <2> QED
    BY <2>1, <2>2, <2>3, SlotBill
<1>11. ASSUME NEW i \in Slots, UsageAccepted(i) \/ UsageFails(i) PROVE BillOK'
  <2>1. /\ requests' = requests /\ queue' = queue /\ request[i].pc = "usage"
        /\ request' = [request EXCEPT ![i] = NoRequest]
        /\ received' \in {received, Received(request[i])}
    BY <1>11 DEF UsageAccepted, UsageFails
  <2>2. ~Active(NoRequest) /\ NoRequest.pc # "usage"
    BY DEF Active, NoRequest
  <2>3. CASE received' = received
    BY <1>0, <2>1, <2>2, <2>3, SlotBill
  <2>4. CASE received' = Received(request[i])
    BY <2>1, <2>4, ReceivedBill
  <2> QED
    BY <2>1, <2>3, <2>4
<1> QED
  BY <1>2, <1>3, <1>4, <1>5, <1>6, <1>7, <1>8, <1>9, <1>10, <1>11 DEF Next

(* A metered call reaches the console at most once, and only in a batch    *)
(* posted under the key of its own tenant: however requests overlap at the *)
(* one queue, whatever batches are lost and whenever the isolate restarts. *)
THEOREM CallsAreBilledOnce == Spec => []BilledOnce
<1>1. Init => BillOK
  <2>1. ~Active(NoRequest) /\ NoRequest.pc # "usage"
    BY DEF Active, NoRequest
  <2> QED
    BY <2>1 DEF Init, BillOK
<1>2. BillOK => BilledOnce
  BY DEF BillOK, BilledOnce, OwnBatch
<1> QED
  BY <1>1, <1>2, NextBill, PhasesHold, PTL DEF Spec

=============================================================================
