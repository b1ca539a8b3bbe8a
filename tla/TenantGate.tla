----------------------------- MODULE TenantGate -----------------------------
(***************************************************************************)
(* What _dispatch_request does around the handler of a route: tenant keys  *)
(* are verified at the console through a cache, callers are rate limited,  *)
(* and calls of verified tenants are metered.                              *)
(*                                                                         *)
(* The cache, the limiter's buckets, the usage queue and its counter are   *)
(* module globals of one isolate.  Requests interleave at their awaits:    *)
(* the console's verdict, the work of the route's handler and the usage    *)
(* POST.  CONSOLE_URL is configured.                                       *)
(***************************************************************************)
EXTENDS Integers, FiniteSets

CONSTANTS
  Keys,         \* hx_live_ keys
  NoKey,        \* a request without one
  Legacy,       \* the keys, or NoKey, whose requests have a right X-API-Key
  InitialStanding, \* what the console thinks of each key at first
  Slots,        \* requests that may be in flight together
  PositiveTTL,  \* POSITIVE_TTL_SECONDS
  NegativeTTL,  \* NEGATIVE_TTL_SECONDS
  CacheMax,     \* VERIFY_CACHE_MAX
  MaxCalls,     \* max_requests of the limiter
  Window,       \* window_seconds of the limiter
  BucketMax,    \* buckets above which the limiter prunes (256)
  PruneMax,     \* buckets it forgets at a time (64)
  MaxTime,      \* bound: the clock stops there
  MaxRequests,  \* bound: requests of a behaviour
  MaxChanges,   \* bound: changes of the standing of a key
  MaxFailures   \* bound: failed calls, console rate limits and restarts

Times == 0..MaxTime
Ids == 1..MaxRequests
Callers == Keys \union {NoKey}

ASSUME KeysAssumption ==
  NoKey \notin Keys /\ IsFiniteSet(Keys) /\ Legacy \subseteq Callers
ASSUME LimitsAssumption ==
  /\ PositiveTTL \in Nat \ {0} /\ NegativeTTL \in 1..PositiveTTL
  /\ CacheMax \in Nat \ {0} /\ MaxCalls \in Nat \ {0}
  /\ Window \in Nat \ {0} /\ BucketMax \in Nat /\ PruneMax \in Nat
ASSUME BoundsAssumption ==
  /\ MaxTime \in Nat /\ MaxRequests \in Nat
  /\ MaxChanges \in Nat /\ MaxFailures \in Nat

(* VerifyResult.outcome.  A key the console knows but that lacks the scope *)
(* is "denied": both ways to say so are answered and cached alike.         *)
Standings == {"valid", "denied", "invalid"}
Verdicts == Standings \union {"limited", "degraded"}

ASSUME StandingAssumption == InitialStanding \in [Keys -> Standings]

VARIABLES
  now,       \* time.time()
  standing,  \* what the console thinks of each key
  held,      \* history: when each verdict on a key was last the console's
  cache,     \* _VERIFY_CACHE
  buckets,   \* _rate_limiter._buckets: the calls whose times are listed
  admitted,  \* history: the calls of the last window the limiter let through
  queue,     \* _USAGE_QUEUE
  counter,   \* _USAGE_COUNTER: the number of the last event
  received,  \* the usage events the console received, and by whose POST
  request,   \* what each request is doing
  requests,  \* requests so far, the id of the last one
  changes,   \* changes so far
  failures   \* failures so far

world == << now, standing, held, changes >>
gate == << cache, buckets, admitted >>
meter == << queue, counter, received >>
vars == << world, gate, meter, request, requests, failures >>

----------------------------------------------------------------------------
TTL(v) == IF v \in {"valid", "denied"} THEN PositiveTTL ELSE NegativeTTL

Never == -PositiveTTL

(* A cache entry, and none.                                                *)
Entry == [verdict: Verdicts, expires: 0..(MaxTime + PositiveTTL)]
NoEntry == [verdict |-> "none", expires |-> 0]
Cached(c) == {k \in Keys : c[k] # NoEntry}

(* A call the limiter let through, and when.                               *)
Call == [id: Ids, at: Times]

(* A usage event; idem is the tenant's key and the counter (and the day).  *)
UsageEvent == [call: Ids, key: Keys, seq: Nat]

NoRequest == [pc |-> "idle", id |-> 0, key |-> NoKey, start |-> 0,
              verdict |-> "none", batch |-> {}]
Request == [pc: {"idle", "verify", "answer", "work", "usage", "refused"},
            id: Ids \union {0}, key: Callers, start: Times,
            verdict: Verdicts \union {"none"}, batch: SUBSET UsageEvent]

TypeOK ==
  /\ now \in Times
  /\ standing \in [Keys -> Standings]
  /\ held \in [Keys -> [Verdicts -> Times \union {Never}]]
  /\ cache \in [Keys -> Entry \union {NoEntry}]
  /\ Cardinality(Cached(cache)) <= CacheMax
  /\ buckets \in [Callers -> SUBSET Call]
  /\ admitted \in [Callers -> SUBSET Call]
  /\ queue \subseteq UsageEvent
  /\ counter \in Nat
  /\ received \subseteq [event: UsageEvent, by: Ids]
  /\ request \in [Slots -> Request]
  /\ requests \in 0..MaxRequests
  /\ changes \in 0..MaxChanges
  /\ failures \in 0..MaxFailures

MayFail == failures < MaxFailures /\ failures' = failures + 1

Init ==
  /\ now = 0
  /\ standing = InitialStanding
  /\ held = [k \in Keys |-> [v \in Verdicts |-> IF v = standing[k] THEN 0 ELSE Never]]
  /\ cache = [k \in Keys |-> NoEntry]
  /\ buckets = [c \in Callers |-> {}]
  /\ admitted = [c \in Callers |-> {}]
  /\ queue = {} /\ counter = 0 /\ received = {}
  /\ request = [i \in Slots |-> NoRequest]
  /\ requests = 0 /\ changes = 0 /\ failures = 0

----------------------------------------------------------------------------
(* Time and the console.                                                   *)

Recent(calls, t) == {c \in calls : c.at > t - Window}

Tick ==
  /\ now < MaxTime
  /\ now' = now + 1
  /\ held' = [k \in Keys |-> [held[k] EXCEPT ![standing[k]] = now + 1]]
  /\ admitted' = [c \in Callers |-> Recent(admitted[c], now + 1)]
  /\ UNCHANGED << standing, changes, cache, buckets, meter, request, requests,
                  failures >>

(* A key is revoked, loses its plan, or is good again.                     *)
ChangeStanding(k, v) ==
  /\ v # standing[k]
  /\ changes < MaxChanges /\ changes' = changes + 1
  /\ standing' = [standing EXCEPT ![k] = v]
  /\ held' = [held EXCEPT ![k][v] = now]
  /\ UNCHANGED << now, gate, meter, request, requests, failures >>

(* The console looks the key up; its answer is on its way.                 *)
ConsoleAnswers(i) ==
  /\ request[i].pc = "verify"
  /\ request' = [request EXCEPT ![i].pc = "answer",
                                ![i].verdict = standing[request[i].key]]
  /\ UNCHANGED << world, gate, meter, requests, failures >>

(* Status 429, or no answer, or none that can be read.                     *)
ConsoleFails(i) ==
  \E v \in {"limited", "degraded"} :
    /\ request[i].pc = "verify"
    /\ MayFail
    /\ request' = [request EXCEPT ![i].pc = "answer", ![i].verdict = v]
    /\ held' = [held EXCEPT ![request[i].key][v] = now]
    /\ UNCHANGED << now, standing, changes, gate, meter, requests >>

----------------------------------------------------------------------------
(* RateLimiter.check.                                                      *)

InUse(b) == {c \in Callers : b[c] # {}}

(* A bucket is stale when its newest call has left the window.             *)
IsAnyBucket(calls) == calls # {}
IsStale(calls) == \A c \in calls : c.at <= now - Window

(* What the limiter may forget when b has more than BucketMax buckets:     *)
(* PruneMax stale ones, or all if there are fewer, but not the caller's.   *)
Prunings(b, caller) ==
  LET stale == {c \in InUse(b) \ {caller} : IsStale(b[c])}
  IN  IF Cardinality(InUse(b)) <= BucketMax THEN {{}}
      ELSE {P \in SUBSET stale :
              Cardinality(P) = PruneMax \/ (P = stale /\ Cardinality(P) < PruneMax)}

(* The buckets once caller has listed its calls.                           *)
WithBucket(caller, calls) ==
  LET b == [buckets EXCEPT ![caller] = calls]
  IN  {[c \in Callers |-> IF c \in P THEN {} ELSE b[c]] : P \in Prunings(b, caller)}

(* 401, 402 or 429; the record stays until the slot is used again.         *)
Refused(r) ==
  IF r.key = NoKey THEN NoRequest
  ELSE [NoRequest EXCEPT !.pc = "refused", !.key = r.key, !.start = r.start,
                         !.verdict = r.verdict]

(* A request that passed verification is checked by the limiter, and goes  *)
(* on to the handler of its route or is answered with 429.                 *)
CheckRate(i, r) ==
  LET recent == Recent(buckets[r.key], now)
      call == [id |-> r.id, at |-> now]
  IN  IF Cardinality(recent) < MaxCalls
      THEN /\ buckets' \in WithBucket(r.key, recent \union {call})
           /\ admitted' = [admitted EXCEPT ![r.key] = @ \union {call}]
           /\ request' = [request EXCEPT ![i] = [r EXCEPT !.pc = "work"]]
      ELSE /\ buckets' \in WithBucket(r.key, recent)
           /\ admitted' = admitted
           /\ request' = [request EXCEPT ![i] = Refused(r)]

(* Whether a request goes on to the limiter: a valid key, or the legacy    *)
(* key of a request that has no tenant key or could not be verified.       *)
Passes(r) ==
  \/ r.verdict = "valid"
  \/ r.verdict \in {"none", "degraded"} /\ r.key \in Legacy

Decide(i, r) ==
  IF Passes(r) THEN CheckRate(i, r)
  ELSE /\ request' = [request EXCEPT ![i] = Refused(r)]
       /\ UNCHANGED << buckets, admitted >>

----------------------------------------------------------------------------
(* verify_tenant.                                                          *)

IsFresh(k) == cache[k] # NoEntry /\ cache[k].expires > now

NewRequest(k) ==
  [NoRequest EXCEPT !.id = requests + 1, !.key = k, !.start = now]

IsFree(i) == /\ request[i].pc \in {"idle", "refused"}
             /\ requests < MaxRequests /\ requests' = requests + 1

(* A request without a tenant key: the legacy key is all there is to check. *)
StartUnkeyed(i) ==
  /\ IsFree(i)
  /\ Decide(i, NewRequest(NoKey))
  /\ UNCHANGED << world, cache, meter, failures >>

StartCached(i, k) ==
  /\ IsFree(i)
  /\ IsFresh(k)
  /\ Decide(i, [NewRequest(k) EXCEPT !.verdict = cache[k].verdict])
  /\ UNCHANGED << world, cache, meter, failures >>

(* An expired entry is dropped, and the console is asked.                  *)
StartVerify(i, k) ==
  /\ IsFree(i)
  /\ ~IsFresh(k)
  /\ cache' = [cache EXCEPT ![k] = NoEntry]
  /\ request' = [request EXCEPT ![i] = [NewRequest(k) EXCEPT !.pc = "verify"]]
  /\ UNCHANGED << world, buckets, admitted, meter, failures >>

(* The lifetime of an entry starts when the request did.                   *)
ExpiresAfterAnswer(r) == now + TTL(r.verdict)
Expires(r) == r.start + TTL(r.verdict)

(* _cache_store: an entry too many costs an expired one its place, or else *)
(* one other than the new one.                                             *)
Evictable(c, k) ==
  LET expired == {j \in Cached(c) : c[j].expires <= now}
  IN  IF expired # {} THEN expired ELSE Cached(c) \ {k}

KeepsTooMany(c, k) ==
  LET expired == {j \in Cached(c) : c[j].expires <= now}
  IN  IF Cardinality(Cached(c)) <= CacheMax \/ expired = {} THEN {c}
      ELSE {[c EXCEPT ![j] = NoEntry] : j \in expired}
CachesAfter(c, k) ==
  IF Cardinality(Cached(c)) <= CacheMax THEN {c}
  ELSE {[c EXCEPT ![j] = NoEntry] : j \in Evictable(c, k)}

ReceiveVerdict(i) ==
  LET r == request[i]
      entry == [verdict |-> r.verdict, expires |-> Expires(r)]
  IN  /\ r.pc = "answer"
      /\ cache' \in CachesAfter([cache EXCEPT ![r.key] = entry], r.key)
      /\ Decide(i, r)
      /\ UNCHANGED << world, meter, requests, failures >>

----------------------------------------------------------------------------
(* The route's handler, and metering.                                      *)

(* An answer that is not metered: another route, a status other than 200,  *)
(* or a caller that is not a verified tenant.                              *)
FinishUnmetered(i) ==
  /\ request[i].pc = "work"
  /\ request' = [request EXCEPT ![i] = NoRequest]
  /\ UNCHANGED << world, gate, meter, requests, failures >>

(* /run or /ingest answered with 200: queue_usage_event, and then          *)
(* flush_usage_queue takes the queue up to its POST, without an await.     *)
QueueUntilAnswer(q) == q
QueueAfterFlush(q) == {}

FinishMetered(i) ==
  LET event == [call |-> request[i].id, key |-> request[i].key, seq |-> counter + 1]
      batch == queue \union {event}
  IN  /\ request[i].pc = "work"
      /\ request[i].verdict = "valid"
      /\ counter' = counter + 1
      /\ queue' = QueueAfterFlush(batch)
      /\ request' = [request EXCEPT ![i].pc = "usage", ![i].batch = batch]
      /\ UNCHANGED << world, gate, received, requests, failures >>

Received(r) == received \union {[event |-> e, by |-> r.id] : e \in r.batch}

(* The console takes the batch.                                            *)
UsageAccepted(i) ==
  /\ request[i].pc = "usage"
  /\ received' = Received(request[i])
  /\ request' = [request EXCEPT ![i] = NoRequest]
  /\ UNCHANGED << world, gate, queue, counter, requests, failures >>

(* The POST or its answer is lost; the batch is dropped in either case.    *)
UsageFails(i) ==
  /\ request[i].pc = "usage"
  /\ MayFail
  /\ received' \in {received, Received(request[i])}
  /\ request' = [request EXCEPT ![i] = NoRequest]
  /\ UNCHANGED << world, gate, queue, counter, requests >>

(* The isolate is replaced: its globals and its requests are gone.         *)
ColdStart ==
  /\ MayFail
  /\ cache' = [k \in Keys |-> NoEntry]
  /\ buckets' = [c \in Callers |-> {}]
  /\ admitted' = [c \in Callers |-> {}]
  /\ queue' = {} /\ counter' = 0
  /\ request' = [i \in Slots |-> NoRequest]
  /\ UNCHANGED << world, received, requests >>

Next ==
  \/ Tick \/ ColdStart
  \/ \E k \in Keys, v \in Standings : ChangeStanding(k, v)
  \/ \E i \in Slots :
       \/ StartUnkeyed(i)
       \/ \E k \in Keys : StartCached(i, k) \/ StartVerify(i, k)
       \/ ConsoleAnswers(i) \/ ConsoleFails(i) \/ ReceiveVerdict(i)
       \/ FinishUnmetered(i) \/ FinishMetered(i)
       \/ UsageAccepted(i) \/ UsageFails(i)

Spec == Init /\ [][Next]_vars

----------------------------------------------------------------------------
(* Properties.                                                             *)

(* Whatever verdict a request is decided on was the console's own within   *)
(* the verdict's lifetime before the request came: a revoked key is        *)
(* admitted, and a renewed one refused, no longer than that, however slow  *)
(* the console and however its answers overtake each other.                *)
VerdictFresh ==
  \A i \in Slots :
    request[i].pc \in {"work", "usage", "refused"} /\ request[i].key \in Keys =>
      held[request[i].key][request[i].verdict]
        > request[i].start - TTL(request[i].verdict)

(* No caller gets more than MaxCalls requests through an isolate in any    *)
(* window, though buckets are forgotten when there are many.               *)
RateLimited ==
  \A c \in Callers : Cardinality(admitted[c]) <= MaxCalls

(* A metered call is counted at most once, and only by a POST with the key *)
(* hash of its own tenant, though requests share one queue.                *)
BilledOnce ==
  /\ \A p, q \in received : p.event.call = q.event.call => p = q
  /\ \A i \in Slots : request[i].pc = "usage" =>
       \A e \in request[i].batch : e.key = request[i].key

=============================================================================
