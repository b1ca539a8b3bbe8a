------------------------ MODULE SchedulerDeliveryProofs ------------------------
(***************************************************************************)
(* What BarCloseScheduler sends: to which symbol and exchange, how often,  *)
(* and whether at all.  Each theorem names what it asks of the jobs and of *)
(* the runs that overlap.                                                  *)
(***************************************************************************)
EXTENDS BarCloseSchedulerProofs

(* What one step does to a run, by the fields it leaves alone.             *)
Carries(r, s) ==
  s.events = r.events /\ s.sent = r.sent /\ s.alerts = r.alerts /\ s.force = r.force

Begins(r, s) ==
  /\ r.pc = "idle" /\ s.pc \in {"fetch", "script"}
  /\ s.events = {} /\ s.sent = {} /\ s.alerts = {} /\ s.bars = {} /\ s.last = 0

(* On to the next pair, to the next job or to forwarding.                  *)
GoesOn(r, s) ==
  /\ r.pc \in {"fetch", "merge", "put", "script", "bars", "state"}
  /\ s.pc \in {"fetch", "script", "orders"} /\ s.bars = {} /\ s.last = 0
  /\ Carries(r, s)

HasFetched(r, s) ==
  /\ r.pc = "fetch" /\ s.pc = "merge" /\ s.job = r.job /\ s.last = r.last
  /\ s.bars = ClosedKlines(PairOf(r)) /\ Carries(r, s)

HasMerged(r, s) ==
  /\ r.pc = "merge" /\ s.pc = "put" /\ s.job = r.job /\ s.last = r.last
  /\ s.bars = r.bars \union stored[PairOf(r)] /\ Carries(r, s)

HasScript(r, s) ==
  /\ r.pc = "script" /\ s.pc = "bars" /\ s.job = r.job /\ s.last = r.last
  /\ s.bars = r.bars /\ Jobs[r.job].enabled /\ Carries(r, s)

HasBars(r, s) ==
  /\ r.pc = "bars" /\ s.pc = "state" /\ s.job = r.job
  /\ s.bars = LastBars(stored[PairOf(r)], Jobs[r.job].maxBars)
  /\ s.last \in s.bars /\ (\A b \in s.bars : b <= s.last) /\ Carries(r, s)

HasEvaluated(r, s) ==
  /\ r.pc = "state" /\ IsDue(r) /\ s.pc = "save" /\ s.job = r.job
  /\ s.bars = r.bars /\ s.last = r.last
  /\ s.events = r.events \union EventsOf(r.job, r.bars)
  /\ s.sent = r.sent /\ s.alerts = r.alerts /\ s.force = r.force

HasSaved(r, s) ==
  /\ r.pc = "save" /\ s.pc \in {"script", "orders"} /\ s.bars = {} /\ s.last = 0
  /\ s.alerts = r.alerts \union AlertsOf(r.job, r.last)
  /\ s.events = r.events /\ s.sent = r.sent /\ s.force = r.force

HasPosted(r, s, e) ==
  /\ r.pc = "orders" /\ s.pc = "orders" /\ s.job = r.job /\ s.bars = r.bars
  /\ s.last = r.last /\ e \in r.events /\ s.sent = r.sent \union {e}
  /\ s.events = r.events /\ s.alerts = r.alerts /\ s.force = r.force

(* How moving on to the next pair or job looks.                            *)
LEMMA MovesOn ==
  ASSUME NEW r \in RunRecord
  PROVE  /\ NextPair(r).pc \in {"fetch", "script"}
         /\ NextJob(r).pc \in {"script", "orders"}
         /\ NextPair(r).bars = {} /\ NextPair(r).last = 0 /\ Carries(r, NextPair(r))
         /\ NextJob(r).bars = {} /\ NextJob(r).last = 0 /\ Carries(r, NextJob(r))
<1>1. \A phase : /\ FirstJob(r, phase).pc = phase /\ FirstJob(r, phase).bars = {}
                 /\ FirstJob(r, phase).last = 0 /\ Carries(r, FirstJob(r, phase))
  BY DEF FirstJob, Carries, RunRecord
<1>2. ASSUME NEW phase
      PROVE  LET s == [r EXCEPT !.pc = phase, !.job = @ + 1, !.bars = {}, !.last = 0]
             IN  s.pc = phase /\ s.bars = {} /\ s.last = 0 /\ Carries(r, s)
  BY DEF Carries, RunRecord
<1> QED
  BY <1>1, <1>2 DEF NextPair, NextJob

(* A step of a run is one of these.                                        *)
LEMMA FeedMoves ==
  ASSUME TypeOK, NEW j \in Runs,
         SkipPair(j) \/ FetchKlines(j) \/ MergeBars(j) \/ PutBars(j) \/ FeedFails(j)
  PROVE  \/ GoesOn(run[j], run'[j])
         \/ FetchKlines(j) /\ HasFetched(run[j], run'[j])
         \/ MergeBars(j) /\ HasMerged(run[j], run'[j])
<1>1. run[j] \in RunRecord
  BY DEF TypeOK
<1>2. CASE SkipPair(j) \/ PutBars(j) \/ FeedFails(j)
  <2>1. run'[j] = NextPair(run[j]) /\ run[j].pc \in {"fetch", "merge", "put"}
    BY <1>2 DEF SkipPair, PutBars, FeedFails, TypeOK
  <2> QED
    BY <1>1, <2>1, MovesOn DEF GoesOn
<1>3. CASE FetchKlines(j)
  <2> DEFINE klines == ClosedKlines(PairOf(run[j]))
             s == [run[j] EXCEPT !.pc = "merge", !.bars = klines]
  <2>1. run[j].pc = "fetch" /\ (run'[j] = NextPair(run[j]) \/ run'[j] = s)
    BY <1>3 DEF FetchKlines, TypeOK
  <2>2. run[j].pc = "fetch" => HasFetched(run[j], s)
    BY <1>1 DEF HasFetched, Carries, RunRecord
  <2> HIDE DEF s
  <2> QED
    BY <1>1, <1>3, <2>1, <2>2, MovesOn DEF GoesOn
<1>4. CASE MergeBars(j)
  <2>1. HasMerged(run[j], run'[j])
    BY <1>1, <1>4 DEF MergeBars, HasMerged, Carries, TypeOK, RunRecord
  <2> QED
    BY <1>4, <2>1
<1> QED
  BY <1>2, <1>3, <1>4

LEMMA JobLoopMoves ==
  ASSUME TypeOK, NEW j \in Runs,
         \/ SkipJob(j) \/ GetScript(j) \/ FetchBars(j) \/ FetchBarsFails(j)
         \/ SkipNoNewBar(j) \/ Evaluate(j) \/ EngineFails(j) \/ SaveState(j)
  PROVE  \/ GoesOn(run[j], run'[j])
         \/ HasScript(run[j], run'[j])
         \/ FetchBars(j) /\ HasBars(run[j], run'[j])
         \/ Evaluate(j) /\ HasEvaluated(run[j], run'[j])
         \/ SaveState(j) /\ HasSaved(run[j], run'[j])
<1>1. run[j] \in RunRecord /\ run[j].job \in JobNumbers /\ run[j].bars \in SUBSET Bars
  BY DEF TypeOK, RunRecord
<1>2. CASE SkipJob(j) \/ FetchBarsFails(j) \/ SkipNoNewBar(j) \/ EngineFails(j)
  <2>1. run'[j] = NextJob(run[j]) /\ run[j].pc \in {"script", "bars", "state"}
    BY <1>2 DEF SkipJob, FetchBarsFails, SkipNoNewBar, EngineFails, TypeOK
  <2> QED
    BY <1>1, <2>1, MovesOn DEF GoesOn
<1>3. CASE GetScript(j)
  <2>1. HasScript(run[j], run'[j])
    BY <1>1, <1>3 DEF GetScript, HasScript, Carries, TypeOK, RunRecord
  <2> QED
    BY <2>1
<1>4. CASE FetchBars(j)
  <2> DEFINE window == LastBars(stored[PairOf(run[j])], Jobs[run[j].job].maxBars)
  <2>0. run[j].pc = "bars"
    BY <1>4 DEF FetchBars
  <2>1. CASE run' = [run EXCEPT ![j] = NextJob(@)]
    <3>1. run'[j] = NextJob(run[j])
      BY <2>1 DEF TypeOK
    <3> QED
      BY <1>1, <2>0, <3>1, MovesOn DEF GoesOn
  <2>2. ASSUME NEW last \in window, \A b \in window : b <= last,
               run' = [run EXCEPT ![j].pc = "state", ![j].bars = window,
                                  ![j].last = last]
        PROVE  HasBars(run[j], run'[j])
    <3> HIDE DEF window
    <3>1. /\ run'[j].pc = "state" /\ run'[j].bars = window /\ run'[j].last = last
          /\ run'[j].job = run[j].job /\ Carries(run[j], run'[j])
      BY <1>1, <2>2 DEF TypeOK, RunRecord, Carries
    <3> QED
      BY <2>0, <2>2, <3>1 DEF HasBars, window
  <2> QED
    BY <1>4, <2>1, <2>2 DEF FetchBars
<1>5. CASE Evaluate(j)
  <2>1. HasEvaluated(run[j], run'[j])
    BY <1>1, <1>5 DEF Evaluate, Evaluated, HasEvaluated, TypeOK, RunRecord
  <2> QED
    BY <1>5, <2>1
<1>6. CASE SaveState(j)
  <2> DEFINE r == [run[j] EXCEPT !.alerts = @ \union AlertsOf(run[j].job, run[j].last)]
  <2>1. r \in RunRecord
    BY <1>1, EmissionType DEF RunRecord
  <2>2. /\ r.alerts = run[j].alerts \union AlertsOf(run[j].job, run[j].last)
        /\ r.events = run[j].events /\ r.sent = run[j].sent /\ r.force = run[j].force
    BY <1>1 DEF RunRecord
  <2>3. run'[j] = NextJob(r) /\ run[j].pc = "save"
    BY <1>6 DEF SaveState, Saved, TypeOK
  <2> HIDE DEF r
  <2> QED
    BY <1>6, <2>1, <2>2, <2>3, MovesOn DEF HasSaved, Carries
<1> QED
  BY <1>2, <1>3, <1>4, <1>5, <1>6

LEMMA OtherMoves ==
  ASSUME TypeOK, NEW j \in Runs,
         \/ StartCron(j) \/ \E force, refresh \in BOOLEAN : StartManual(j, force, refresh)
         \/ PostOrder(j) \/ PostOrderFails(j)
  PROVE  \/ StartCron(j) /\ Begins(run[j], run'[j]) /\ run'[j].force = FALSE
         \/ j \in ManualRuns /\ Begins(run[j], run'[j])
         \/ \E e \in Event : /\ HasPosted(run[j], run'[j], e) /\ IsNextOrder(j, e)
                             /\ PostOrder(j) \/ PostOrderFails(j)
<1>1. run[j] \in RunRecord
  BY DEF TypeOK
<1>2. CASE StartCron(j)
  <2> DEFINE s == [IdleRun EXCEPT !.pc = "fetch"]
  <2>1. run[j].pc = "idle" /\ run'[j] = s
    BY <1>2 DEF StartCron, TypeOK
  <2>2. /\ s.pc = "fetch" /\ s.events = {} /\ s.sent = {} /\ s.alerts = {}
        /\ s.bars = {} /\ s.last = 0 /\ s.force = FALSE
    BY DEF IdleRun
  <2> QED
    BY <1>2, <2>1, <2>2 DEF Begins
<1>3. ASSUME NEW force \in BOOLEAN, NEW refresh \in BOOLEAN,
             StartManual(j, force, refresh)
      PROVE  j \in ManualRuns /\ Begins(run[j], run'[j])
  <2> DEFINE s == [IdleRun EXCEPT !.pc = IF refresh THEN "fetch" ELSE "script",
                                  !.force = force]
  <2>1. j \in ManualRuns /\ run[j].pc = "idle" /\ run'[j] = s
    BY <1>3 DEF StartManual, TypeOK
  <2>2. /\ s.pc \in {"fetch", "script"} /\ s.events = {} /\ s.sent = {}
        /\ s.alerts = {} /\ s.bars = {} /\ s.last = 0
    BY DEF IdleRun
  <2> QED
    BY <2>1, <2>2 DEF Begins
<1>4. CASE PostOrder(j) \/ PostOrderFails(j)
  <2>1. PICK e \in run[j].events :
          IsNextOrder(j, e) /\ run' = [run EXCEPT ![j].sent = @ \union {e}]
    BY <1>4 DEF PostOrder, PostOrderFails
  <2>2. run[j].pc = "orders" /\ e \in Event
    BY <1>1, <2>1 DEF IsNextOrder, RunRecord
  <2>3. HasPosted(run[j], run'[j], e)
    BY <1>1, <2>1, <2>2 DEF HasPosted, TypeOK, RunRecord
  <2> QED
    BY <1>4, <2>1, <2>2, <2>3
<1> QED
  BY <1>2, <1>3, <1>4

LEMMA RunMoves ==
  ASSUME TypeOK, [Next]_vars, NEW j \in Runs
  PROVE  \/ run'[j] = run[j]
         \/ Begins(run[j], run'[j]) /\ (j \notin ManualRuns => run'[j].force = FALSE)
         \/ GoesOn(run[j], run'[j])
         \/ FetchKlines(j) /\ HasFetched(run[j], run'[j])
         \/ MergeBars(j) /\ HasMerged(run[j], run'[j])
         \/ HasScript(run[j], run'[j])
         \/ FetchBars(j) /\ HasBars(run[j], run'[j])
         \/ Evaluate(j) /\ HasEvaluated(run[j], run'[j])
         \/ SaveState(j) /\ HasSaved(run[j], run'[j])
         \/ \E e \in Event : /\ HasPosted(run[j], run'[j], e) /\ IsNextOrder(j, e)
                             /\ PostOrder(j) \/ PostOrderFails(j)
         \/ run'[j] = IdleRun /\ (PostAlerts(j) \/ Abort(j))
<1>1. CASE PostAlerts(j) \/ Abort(j)
  BY <1>1 DEF PostAlerts, Abort, TypeOK
<1> QED
  BY <1>1, OneRunMoves, FeedMoves, JobLoopMoves, OtherMoves DEF Progress, Failure

(* How a run comes to its phase, and to what it holds.                     *)
LEMMA PhaseMoves ==
  ASSUME TypeOK, [Next]_vars, NEW j \in Runs, run'[j] # run[j]
  PROVE  /\ run'[j].pc = "merge" => HasFetched(run[j], run'[j])
         /\ run'[j].pc = "put" => HasMerged(run[j], run'[j])
         /\ run'[j].pc = "bars" => HasScript(run[j], run'[j])
         /\ run'[j].pc = "state" => HasBars(run[j], run'[j])
         /\ run'[j].pc = "save" => HasEvaluated(run[j], run'[j])
         /\ \/ run'[j].force = run[j].force
            \/ j \notin ManualRuns => ~run'[j].force
         /\ \/ run'[j].alerts = run[j].alerts \/ run'[j].alerts = {}
            \/ SaveState(j) /\ HasSaved(run[j], run'[j])
<1> DEFINE r == run[j]
           s == run'[j]
<1>1. ASSUME Begins(r, s)
      PROVE  s.pc \in {"fetch", "script"} /\ s.alerts = {}
  BY <1>1 DEF Begins
<1>2. ASSUME GoesOn(r, s)
      PROVE  s.pc \in {"fetch", "script", "orders"} /\ Carries(r, s)
  BY <1>2 DEF GoesOn
<1>3. ASSUME HasFetched(r, s) PROVE s.pc = "merge" /\ Carries(r, s)
  BY <1>3 DEF HasFetched
<1>4. ASSUME HasMerged(r, s) PROVE s.pc = "put" /\ Carries(r, s)
  BY <1>4 DEF HasMerged
<1>5. ASSUME HasScript(r, s) PROVE s.pc = "bars" /\ Carries(r, s)
  BY <1>5 DEF HasScript
<1>6. ASSUME HasBars(r, s) PROVE s.pc = "state" /\ Carries(r, s)
  BY <1>6 DEF HasBars
<1>7. ASSUME HasEvaluated(r, s)
      PROVE  s.pc = "save" /\ s.alerts = r.alerts /\ s.force = r.force
  BY <1>7 DEF HasEvaluated
<1>8. ASSUME HasSaved(r, s) PROVE s.pc \in {"script", "orders"} /\ s.force = r.force
  BY <1>8 DEF HasSaved
<1>9. ASSUME NEW e, HasPosted(r, s, e)
      PROVE  s.pc = "orders" /\ s.alerts = r.alerts /\ s.force = r.force
  BY <1>9 DEF HasPosted
<1>10. IdleRun.pc = "idle" /\ IdleRun.alerts = {} /\ IdleRun.force = FALSE
  BY DEF IdleRun
<1>11. ASSUME Carries(r, s) PROVE s.alerts = r.alerts /\ s.force = r.force
  BY <1>11 DEF Carries
<1> HIDE DEF r, s
<1> QED
  BY <1>1, <1>2, <1>3, <1>4, <1>5, <1>6, <1>7, <1>8, <1>9, <1>10, <1>11, RunMoves DEF r, s

LEMMA BarsMove ==
  ASSUME TypeOK, [Next]_vars, NEW j \in Runs
  PROVE  \/ run'[j].bars \in {run[j].bars, {}}
         \/ HasFetched(run[j], run'[j]) \/ HasMerged(run[j], run'[j])
         \/ HasBars(run[j], run'[j])
<1>1. ASSUME NEW r, NEW s, Begins(r, s) \/ GoesOn(r, s) \/ HasSaved(r, s)
      PROVE  s.bars = {}
  BY <1>1 DEF Begins, GoesOn, HasSaved
<1>2. ASSUME NEW r, NEW s,
             HasScript(r, s) \/ HasEvaluated(r, s) \/ \E e : HasPosted(r, s, e)
      PROVE  s.bars = r.bars
  BY <1>2 DEF HasScript, HasEvaluated, HasPosted
<1>3. IdleRun.bars = {}
  BY DEF IdleRun
<1> QED
  BY <1>1, <1>2, <1>3, RunMoves

LEMMA EventsMove ==
  ASSUME TypeOK, [Next]_vars, NEW j \in Runs
  PROVE  run'[j].events \subseteq run[j].events \/ HasEvaluated(run[j], run'[j])
<1>1. ASSUME NEW r, NEW s, Begins(r, s) PROVE s.events = {}
  BY <1>1 DEF Begins
<1>2. ASSUME NEW r, NEW s,
             \/ GoesOn(r, s) \/ HasFetched(r, s) \/ HasMerged(r, s)
             \/ HasScript(r, s) \/ HasBars(r, s)
      PROVE  s.events = r.events
  BY <1>2 DEF GoesOn, HasFetched, HasMerged, HasScript, HasBars, Carries
<1>3. ASSUME NEW r, NEW s, HasSaved(r, s) \/ \E e : HasPosted(r, s, e)
      PROVE  s.events = r.events
  BY <1>3 DEF HasSaved, HasPosted
<1>4. IdleRun.events = {}
  BY DEF IdleRun
<1> QED
  BY <1>1, <1>2, <1>3, <1>4, RunMoves

LEMMA TypesHold == Spec => [](TypeOK /\ WindowOK)
<1>1. TypeOK /\ WindowOK /\ [Next]_vars => (TypeOK /\ WindowOK)'
  BY TypeStep, WindowStep
<1> QED
  BY <1>1, InitLooks, PTL DEF Spec

LEMMA SaveMoves ==
  ASSUME TypeOK, NEW j \in Runs, SaveState(j)
  PROVE  HasSaved(run[j], run'[j])
<1>1. run[j].pc = "save"
  BY DEF SaveState
<1> QED
  BY <1>1, JobLoopMoves DEF GoesOn, HasScript, HasBars, FetchBars, HasEvaluated

(* No failures in a step that leads to none.                               *)
LEMMA FailuresCount ==
  ASSUME TypeOK, [Next]_vars, failures' = 0
  PROVE  failures = 0 /\ \A i \in Runs : ~Failure(i)
<1>1. failures \in Nat
  BY BoundsAssumption DEF TypeOK
<1>2. ASSUME NEW i \in Runs, Failure(i) PROVE FALSE
  <2>1. MayFail
    BY <1>2 DEF Failure, Abort, FeedFails, FetchBarsFails, EngineFails, PostOrderFails
  <2> QED
    BY <1>1, <2>1 DEF MayFail
<1>3. CASE UNCHANGED vars
  BY <1>2, <1>3 DEF vars
<1>4. CASE \/ \E p \in Pairs : CloseBar(p)
           \/ \E s \in Scripts : DeployScript(s) \/ DeleteScript(s)
           \/ \E i \in CronRuns : StartCron(i)
           \/ \E i \in ManualRuns, force, refresh \in BOOLEAN : StartManual(i, force, refresh)
  BY <1>2, <1>4 DEF CloseBar, DeployScript, DeleteScript, StartCron, StartManual
<1>5. ASSUME NEW i \in Runs, Progress(i) PROVE failures' = failures
  <2>1. CASE SkipPair(i) \/ FetchKlines(i) \/ MergeBars(i) \/ PutBars(i)
    BY <2>1 DEF SkipPair, FetchKlines, MergeBars, PutBars
  <2>2. CASE SkipJob(i) \/ GetScript(i) \/ FetchBars(i) \/ SkipNoNewBar(i)
    BY <2>2 DEF SkipJob, GetScript, FetchBars, SkipNoNewBar
  <2>3. CASE Evaluate(i) \/ SaveState(i) \/ PostOrder(i) \/ PostAlerts(i)
    BY <2>3 DEF Evaluate, SaveState, PostOrder, PostAlerts
  <2> QED
    BY <1>5, <2>1, <2>2, <2>3 DEF Progress
<1> QED
  BY <1>2, <1>3, <1>4, <1>5 DEF Next

(* A run that is not there holds nothing.                                  *)
IdleEmpty ==
  \A i \in Runs : run[i].pc = "idle" =>
    run[i].events = {} /\ run[i].sent = {} /\ run[i].alerts = {}

LEMMA IdleStep == TypeOK /\ IdleEmpty /\ [Next]_vars => IdleEmpty'
<1> SUFFICES ASSUME TypeOK, IdleEmpty, [Next]_vars, NEW j \in Runs, run'[j].pc = "idle"
             PROVE  run'[j].events = {} /\ run'[j].sent = {} /\ run'[j].alerts = {}
  BY DEF IdleEmpty
<1>1. run'[j] = run[j] \/ run'[j] = IdleRun
  BY RunMoves DEF Begins, GoesOn, HasFetched, HasMerged, HasScript, HasBars,
                  HasEvaluated, HasSaved, HasPosted
<1> QED
  BY <1>1 DEF IdleEmpty, IdleRun

(* Only a run that posts adds to what it sent; events are lost only with   *)
(* the run that holds them.                                                *)
LEMMA SentMove ==
  ASSUME TypeOK, [Next]_vars, NEW j \in Runs
  PROVE  run'[j].sent \subseteq run[j].sent \/ PostOrder(j) \/ PostOrderFails(j)
<1>1. ASSUME NEW r, NEW s, Begins(r, s) PROVE s.sent = {}
  BY <1>1 DEF Begins
<1>2. ASSUME NEW r, NEW s,
             \/ GoesOn(r, s) \/ HasFetched(r, s) \/ HasMerged(r, s)
             \/ HasScript(r, s) \/ HasBars(r, s)
      PROVE  s.sent = r.sent
  BY <1>2 DEF GoesOn, HasFetched, HasMerged, HasScript, HasBars, Carries
<1>3. ASSUME NEW r, NEW s, HasEvaluated(r, s) \/ HasSaved(r, s) PROVE s.sent = r.sent
  BY <1>3 DEF HasEvaluated, HasSaved
<1>4. IdleRun.sent = {}
  BY DEF IdleRun
<1> QED
  BY <1>1, <1>2, <1>3, <1>4, RunMoves

LEMMA EventsKept ==
  ASSUME TypeOK, IdleEmpty, [Next]_vars, NEW j \in Runs
  PROVE  run[j].events \subseteq run'[j].events \/ PostAlerts(j) \/ Abort(j)
<1>1. ASSUME Begins(run[j], run'[j]) PROVE run[j].events = {}
  BY <1>1 DEF Begins, IdleEmpty
<1>2. ASSUME NEW r, NEW s,
             \/ GoesOn(r, s) \/ HasFetched(r, s) \/ HasMerged(r, s)
             \/ HasScript(r, s) \/ HasBars(r, s)
      PROVE  s.events = r.events
  BY <1>2 DEF GoesOn, HasFetched, HasMerged, HasScript, HasBars, Carries
<1>3. ASSUME NEW r, NEW s,
             HasEvaluated(r, s) \/ HasSaved(r, s) \/ \E e : HasPosted(r, s, e)
      PROVE  r.events \subseteq s.events
  BY <1>3 DEF HasEvaluated, HasSaved, HasPosted
<1> QED
  BY <1>1, <1>2, <1>3, RunMoves

LEMMA IdleHolds == Spec => [](TypeOK /\ WindowOK /\ IdleEmpty)
<1>1. Init => IdleEmpty
  BY DEF Init, IdleEmpty, IdleRun
<1> QED
  BY <1>1, IdleStep, TypesHold, PTL DEF Spec

----------------------------------------------------------------------------
(* How orders are addressed.                                               *)

(* An order that is new was posted by a run, and has a new key.            *)
LEMMA NewOrder ==
  ASSUME TypeOK, [Next]_vars, NEW o \in accepted', o \notin accepted
  PROVE  \E i \in Runs : \E e \in run[i].events, x \in Exchanges :
           /\ PostOrder(i) /\ e \in Event /\ IsPostedExchange(i, run[i].events, e, x)
           /\ o = [event |-> e, symbol |-> PostedSymbol(i, e), exchange |-> x]
           /\ accepted' = accepted \union {o}
           /\ \A a \in accepted : IdempotencyKey(a) # IdempotencyKey(o)
<1>1. PICK i \in Runs : PostOrder(i)
  BY Writers
<1>2. PICK e \in run[i].events, x \in Exchanges :
        /\ IsPostedExchange(i, run[i].events, e, x)
        /\ Execute([event |-> e, symbol |-> PostedSymbol(i, e), exchange |-> x])
  BY <1>1 DEF PostOrder
<1>3. e \in Event
  BY DEF TypeOK, RunRecord
<1> DEFINE q == [event |-> e, symbol |-> PostedSymbol(i, e), exchange |-> x]
<1> HIDE DEF q
<1>4. /\ accepted' = accepted \union {q}
      /\ \A a \in accepted : IdempotencyKey(a) # IdempotencyKey(q)
  BY <1>2 DEF Execute, q
<1>5. o = q
  BY <1>4
<1> QED
  BY <1>1, <1>2, <1>3, <1>4, <1>5 DEF q

(* Requests post to the default symbol: either there are none, or every    *)
(* job is on it.                                                           *)
SymbolsKnown ==
  ManualRuns = {} \/ \A n \in JobNumbers : SymbolOf[Jobs[n].pair] = DefaultSymbol

LEMMA PostedSymbolIsEvents ==
  ASSUME SymbolsKnown, NEW i \in Runs, NEW e \in Event
  PROVE  PostedSymbol(i, e) = EventSymbol(e)
<1>1. e.job \in JobNumbers
  BY DEF Event
<1> QED
  BY <1>1 DEF PostedSymbol, EventSymbol, SymbolsKnown

(* Where requests cannot mistake the symbol, every order is placed on the  *)
(* symbol whose candles produced it, however the runs of jobs on several   *)
(* symbols overlap.                                                        *)
THEOREM OrdersOnTheirSymbol == SymbolsKnown => (Spec => []OrderOnItsSymbol)
<1> SUFFICES ASSUME SymbolsKnown PROVE Spec => []OrderOnItsSymbol
  OBVIOUS
<1>1. Init => OrderOnItsSymbol
  BY DEF Init, OrderOnItsSymbol
<1>2. TypeOK /\ OrderOnItsSymbol /\ [Next]_vars => OrderOnItsSymbol'
  <2> SUFFICES ASSUME TypeOK, OrderOnItsSymbol, [Next]_vars, NEW o \in accepted'
               PROVE  o.symbol = EventSymbol(o.event)
    BY DEF OrderOnItsSymbol, EventSymbol
  <2>1. CASE o \in accepted
    BY <2>1 DEF OrderOnItsSymbol
  <2>2. CASE o \notin accepted
    <3>1. PICK i \in Runs, e \in Event : \E x : 
            o = [event |-> e, symbol |-> PostedSymbol(i, e), exchange |-> x]
      BY <2>2, NewOrder
    <3> QED
      BY <3>1, PostedSymbolIsEvents
  <2> QED
    BY <2>1, <2>2
<1> QED
  BY <1>1, <1>2, TypesHold, PTL DEF Spec

(* No job of a symbol names an exchange unless all of them do.             *)
TaggedAlike ==
  \A m, n \in JobNumbers :
    SymbolOf[Jobs[m].pair] = SymbolOf[Jobs[n].pair] /\ Jobs[n].exchange = NoExchange
      => Jobs[m].exchange = NoExchange

LEMMA PostedExchange ==
  ASSUME TaggedAlike, TypeOK, NEW i \in Runs, NEW e \in run[i].events, NEW x,
         IsPostedExchange(i, run[i].events, e, x)
  PROVE  x = IF Jobs[e.job].exchange = NoExchange
             THEN DefaultExchange ELSE Jobs[e.job].exchange
<1>1. CASE Jobs[e.job].exchange # NoExchange
  BY <1>1 DEF IsPostedExchange
<1>2. CASE Jobs[e.job].exchange = NoExchange
  <2>1. \A f \in run[i].events : f.job \in JobNumbers
    BY DEF TypeOK, RunRecord, Event
  <2>2. {f \in SameSymbol(run[i].events, e) : Jobs[f.job].exchange # NoExchange} = {}
    BY <1>2, <2>1 DEF TaggedAlike, SameSymbol, EventSymbol
  <2> QED
    BY <1>2, <2>2 DEF IsPostedExchange, IsCallExchange
<1> QED
  BY <1>1, <1>2

(* Every order goes to the exchange of its job, or to the default one,     *)
(* also when jobs of one symbol name different exchanges; only a symbol    *)
(* where some jobs name one and some none is excluded.                     *)
THEOREM OrdersOnTheirExchange == TaggedAlike => (Spec => []OrderOnItsExchange)
<1> SUFFICES ASSUME TaggedAlike PROVE Spec => []OrderOnItsExchange
  OBVIOUS
<1>1. Init => OrderOnItsExchange
  BY DEF Init, OrderOnItsExchange
<1>2. TypeOK /\ OrderOnItsExchange /\ [Next]_vars => OrderOnItsExchange'
  <2> SUFFICES ASSUME TypeOK, OrderOnItsExchange, [Next]_vars, NEW o \in accepted'
               PROVE  o.exchange = IF Jobs[o.event.job].exchange = NoExchange
                                   THEN DefaultExchange ELSE Jobs[o.event.job].exchange
    BY DEF OrderOnItsExchange
  <2>1. CASE o \in accepted
    BY <2>1 DEF OrderOnItsExchange
  <2>2. CASE o \notin accepted
    <3>1. PICK i \in Runs : \E e \in run[i].events, x \in Exchanges :
            /\ IsPostedExchange(i, run[i].events, e, x)
            /\ o = [event |-> e, symbol |-> PostedSymbol(i, e), exchange |-> x]
      BY <2>2, NewOrder
    <3>2. PICK e \in run[i].events, x \in Exchanges :
            /\ IsPostedExchange(i, run[i].events, e, x)
            /\ o = [event |-> e, symbol |-> PostedSymbol(i, e), exchange |-> x]
      BY <3>1
    <3>3. o.event = e /\ o.exchange = x
      BY <3>2
    <3> QED
      BY <3>2, <3>3, PostedExchange
  <2> QED
    BY <2>1, <2>2
<1> QED
  BY <1>1, <1>2, TypesHold, PTL DEF Spec

----------------------------------------------------------------------------
(* Every alert is delivered.                                               *)

(* An alert of a recorded bar was delivered, or is held by a run.          *)
AlertsPending ==
  failures = 0 =>
    \A n \in JobNumbers : \A b \in persisted[JobKey(n)] \intersect Signals[Jobs[n].script] :
      \/ alerted[<< JobKey(n), b >>] > 0
      \/ \E i \in Runs : << JobKey(n), b >> \in run[i].alerts

LEMMA AlertedGrows ==
  ASSUME TypeOK, [Next]_vars, NEW a \in JobKeys \X Bars
  PROVE  /\ alerted[a] \in 0..2 /\ alerted'[a] \in 0..2 /\ alerted[a] <= alerted'[a]
         /\ \A i \in Runs : PostAlerts(i) /\ a \in run[i].alerts => alerted'[a] > 0
<1>1. alerted[a] \in 0..2 /\ DOMAIN alerted = JobKeys \X Bars
  BY DEF TypeOK
<1>2. ASSUME NEW i \in Runs, PostAlerts(i)
      PROVE  /\ alerted'[a] \in 0..2 /\ alerted[a] <= alerted'[a]
             /\ a \in run[i].alerts => alerted'[a] > 0
  BY <1>1, <1>2 DEF PostAlerts
<1>3. CASE alerted' = alerted
  BY <1>1, <1>2, <1>3
<1> QED
  BY <1>1, <1>2, <1>3, Writers

LEMMA AlertsStep ==
  TypeOK /\ WindowOK /\ IdleEmpty /\ AlertsPending /\ [Next]_vars => AlertsPending'
<1> SUFFICES ASSUME TypeOK, WindowOK, IdleEmpty, AlertsPending, [Next]_vars,
                    failures' = 0, NEW n \in JobNumbers,
                    NEW b \in persisted'[JobKey(n)] \intersect Signals[Jobs[n].script]
             PROVE  \/ alerted'[<< JobKey(n), b >>] > 0
                    \/ \E i \in Runs : << JobKey(n), b >> \in run'[i].alerts
  BY DEF AlertsPending, JobKey
<1> DEFINE k == JobKey(n)
           a == << k, b >>
<1>1. failures = 0 /\ \A i \in Runs : ~Failure(i)
  BY FailuresCount
<1>2. k \in JobKeys /\ b \in Signals[Jobs[n].script] /\ b \in Bars
  BY JobFacts, MarketAssumption DEF Job
<1>3. a \in JobKeys \X Bars
  BY <1>2
<1> HIDE DEF a
<1>4. CASE b \in persisted[k]
  <2>1. CASE alerted[a] > 0
    BY <1>3, <2>1, AlertedGrows DEF a
  <2>2. ASSUME NEW i \in Runs, a \in run[i].alerts
        PROVE  alerted'[a] > 0 \/ a \in run'[i].alerts
    <3>1. CASE run'[i] = IdleRun /\ (PostAlerts(i) \/ Abort(i))
      BY <1>1, <1>3, <2>2, <3>1, AlertedGrows DEF Failure
    <3>2. CASE ~(run'[i] = IdleRun /\ (PostAlerts(i) \/ Abort(i)))
      BY <2>2, <3>2, RunMoves DEF IdleEmpty, Begins, GoesOn, HasFetched, HasMerged,
         HasScript, HasBars, HasEvaluated, HasSaved, HasPosted, Carries
    <3> QED
      BY <3>1, <3>2
  <2>3. alerted[a] > 0 \/ \E i \in Runs : a \in run[i].alerts
    BY <1>1, <1>2, <1>4 DEF AlertsPending, a
  <2> QED
    BY <2>1, <2>2, <2>3 DEF a
<1>5. CASE b \notin persisted[k]
  <2>1. PICK i \in Runs : SaveState(i)
    BY <1>5, Writers
  <2>2. JobKey(run[i].job) = k /\ b = run[i].last
    BY <1>2, <1>5, <2>1 DEF SaveState, TypeOK
  <2>3. Jobs[run[i].job].script = Jobs[n].script
    BY <2>2 DEF JobKey
  <2>4. a \in AlertsOf(run[i].job, run[i].last)
    BY <1>2, <2>2, <2>3 DEF AlertsOf, a
  <2> QED
    BY <2>1, <2>4, SaveMoves DEF HasSaved, a
<1> QED
  BY <1>4, <1>5

(* As long as nothing failed, the alert of every bar that was recorded as  *)
(* evaluated is delivered by the time no run is in flight: for any jobs,   *)
(* any requests among the ticks and any overlap.                           *)
THEOREM EveryAlertDelivered == Spec => []AlertsDelivered
<1>1. Init => AlertsPending
  BY JobFacts DEF Init, AlertsPending
<1>2. IdleEmpty /\ AlertsPending => AlertsDelivered
  BY DEF IdleEmpty, AlertsPending, AlertsDelivered, Quiet
<1> QED
  BY <1>1, <1>2, AlertsStep, IdleHolds, PTL DEF Spec

----------------------------------------------------------------------------
(* One run at a time.                                                      *)

OneAtATime == \A i, j \in Runs : i = j

(* The newest bars of a finite series: with a bar every newer one.         *)
LEMMA LastBarsNewest ==
  ASSUME NEW bars \in SUBSET Bars, NEW n \in Nat \ {0},
         NEW b \in LastBars(bars, n), NEW c \in bars, b <= c
  PROVE  c \in LastBars(bars, n)
<1> DEFINE Newer(x) == {d \in bars : d > x}
<1>0. IsFiniteSet(Bars)
  BY BoundsAssumption, FS_Interval DEF Bars
<1>1. IsFiniteSet(bars)
  BY <1>0, FS_Subset
<1>2. Newer(c) \subseteq Newer(b)
  <2>1. bars \subseteq Int /\ b \in bars
    BY BoundsAssumption DEF Bars, LastBars
  <2>2. ASSUME NEW d \in bars, d > c PROVE d > b
    BY <2>1, <2>2
  <2> QED
    BY <2>2
<1>3. IsFiniteSet(Newer(b)) /\ IsFiniteSet(Newer(c))
  BY <1>1, FS_Subset
<1>4. Cardinality(Newer(b)) < n
  BY DEF LastBars
<1>5. /\ Cardinality(Newer(c)) <= Cardinality(Newer(b))
      /\ Cardinality(Newer(b)) \in Nat /\ Cardinality(Newer(c)) \in Nat
  BY <1>2, <1>3, FS_Subset, FS_CardinalityType
<1>6. Cardinality(Newer(c)) < n
  BY <1>4, <1>5
<1> QED
  BY <1>6 DEF LastBars

(* What a run read is still what is stored.                                *)
ReadsFresh(r, s) ==
  /\ r.pc = "put" => s[PairOf(r)] \subseteq r.bars
  /\ r.pc \in {"state", "save"} => r.bars = LastBars(s[PairOf(r)], Jobs[r.job].maxBars)

(* ... the recorded bars are stored bars, none of them newer than the      *)
(* state, and the state a run is about to save is newer than all of them   *)
(* unless it is forced.                                                    *)
FreshOK ==
  /\ \A i \in Runs : ReadsFresh(run[i], stored)
  /\ \A n \in JobNumbers : \A b \in persisted[JobKey(n)] :
       b \in stored[Jobs[n].pair] /\ b <= cronState[JobKey(n)]
  /\ \A i \in Runs : run[i].pc = "save" /\ ~run[i].force =>
       \A b \in persisted[JobKey(run[i].job)] : b < run[i].last

(* Only a put writes the series, and it adds to it.                        *)
LEMMA SeriesGrows ==
  ASSUME OneAtATime, TypeOK, FreshOK, [Next]_vars
  PROVE  \A p \in Pairs : stored[p] \subseteq stored'[p]
<1>1. ASSUME NEW i \in Runs, PutBars(i)
      PROVE  \A p \in Pairs : stored[p] \subseteq stored'[p]
  <2>1. stored[PairOf(run[i])] \subseteq run[i].bars
    BY <1>1 DEF FreshOK, ReadsFresh, PutBars
  <2> QED
    BY <1>1, <2>1 DEF PutBars, TypeOK
<1> QED
  BY <1>1, Writers

(* ... so the series a run works on stays as it was.                       *)
LEMMA SeriesKept ==
  ASSUME OneAtATime, TypeOK, [Next]_vars, NEW j \in Runs, run[j].pc # "put"
  PROVE  stored' = stored
<1>1. \A i \in Runs : ~PutBars(i)
  BY DEF OneAtATime, PutBars
<1> QED
  BY <1>1, Writers

LEMMA ReadsStep ==
  ASSUME OneAtATime, TypeOK, FreshOK, [Next]_vars, NEW j \in Runs
  PROVE  ReadsFresh(run'[j], stored')
<1>1. run[j] \in RunRecord /\ ReadsFresh(run[j], stored)
  BY DEF TypeOK, FreshOK
<1>2. CASE run'[j].pc \notin {"put", "state", "save"}
  BY <1>2 DEF ReadsFresh
<1>3. CASE run'[j] = run[j] /\ run[j].pc = "put"
  <2>1. stored' = stored
    <3>1. ASSUME NEW i \in Runs, PutBars(i) PROVE FALSE
      <4>1. i = j
        BY DEF OneAtATime
      <4>2. run'[j] = NextPair(run[j])
        BY <3>1, <4>1 DEF PutBars, TypeOK
      <4> QED
        BY <1>1, <1>3, <4>2, MovesOn
    <3> QED
      BY <3>1, Writers
  <2> QED
    BY <1>1, <1>3, <2>1 DEF ReadsFresh
<1>4. CASE run'[j] = run[j] /\ run[j].pc # "put"
  BY <1>1, <1>4, SeriesKept DEF ReadsFresh
<1>5. CASE HasMerged(run[j], run'[j])
  BY <1>5, SeriesKept DEF HasMerged, ReadsFresh, PairOf
<1>6. CASE HasBars(run[j], run'[j])
  BY <1>6, SeriesKept DEF HasBars, ReadsFresh, PairOf
<1>7. CASE HasEvaluated(run[j], run'[j])
  BY <1>1, <1>7, SeriesKept DEF HasEvaluated, ReadsFresh, PairOf
<1> QED
  BY <1>2, <1>3, <1>4, <1>5, <1>6, <1>7, PhaseMoves

(* The last bar of a run's window is the newest bar of the series.         *)
LEMMA LastIsNewest ==
  ASSUME TypeOK, WindowOK, NEW j \in Runs, ReadsFresh(run[j], stored),
         run[j].pc \in {"state", "save"}
  PROVE  /\ run[j].last \in stored[PairOf(run[j])]
         /\ \A c \in stored[PairOf(run[j])] : c <= run[j].last
<1> DEFINE bars == stored[PairOf(run[j])]
           n == Jobs[run[j].job].maxBars
<1>1. bars \in SUBSET Bars /\ n \in Nat \ {0}
  BY JobFacts DEF TypeOK, RunRecord, PairOf, Job
<1>2. /\ run[j].last \in LastBars(bars, n)
      /\ \A b \in LastBars(bars, n) : b <= run[j].last
  BY DEF WindowOK, WindowOf, ReadsFresh
<1> HIDE DEF n, bars
<1>3. run[j].last \in bars /\ run[j].last \in Int /\ \A d \in bars : d \in Int
  <2>1. run[j].last \in bars
    BY <1>2 DEF LastBars
  <2>2. \A d \in Bars : d \in Int
    BY DEF Bars
  <2> QED
    BY <1>1, <2>1, <2>2
<1>4. ASSUME NEW c \in bars PROVE c <= run[j].last
  <2>1. CASE run[j].last <= c
    <3>1. c \in LastBars(bars, n)
      BY <1>1, <1>2, <2>1, LastBarsNewest
    <3> QED
      BY <1>2, <3>1
  <2>2. CASE ~(run[j].last <= c)
    <3>1. c \in Int /\ run[j].last \in Int
      BY <1>3, <1>4
    <3> QED
      BY <2>2, <3>1
  <2> QED
    BY <2>1, <2>2
<1> QED
  BY <1>3, <1>4 DEF bars

LEMMA FreshStep ==
  OneAtATime /\ TypeOK /\ WindowOK /\ FreshOK /\ [Next]_vars => FreshOK'
<1> SUFFICES ASSUME OneAtATime, TypeOK, WindowOK, FreshOK, [Next]_vars PROVE FreshOK'
  OBVIOUS
<1>1. \A i \in Runs : ReadsFresh(run'[i], stored')
  BY ReadsStep
<1>2. ASSUME NEW n \in JobNumbers, NEW b \in persisted'[JobKey(n)]
      PROVE  b \in stored'[Jobs[n].pair] /\ b <= cronState'[JobKey(n)]
  <2>1. JobKey(n) \in JobKeys /\ Jobs[n].pair \in Pairs
    BY JobFacts DEF Job
  <2>2. CASE cronState' = cronState /\ persisted' = persisted
    BY <2>1, <2>2, SeriesGrows DEF FreshOK
  <2>3. ASSUME NEW i \in Runs, SaveState(i)
        PROVE  b \in stored'[Jobs[n].pair] /\ b <= cronState'[JobKey(n)]
    <3>1. stored' = stored /\ ReadsFresh(run[i], stored) /\ run[i].pc = "save"
      BY <2>3 DEF SaveState, FreshOK
    <3>2. CASE JobKey(run[i].job) # JobKey(n)
      BY <2>1, <2>3, <3>1, <3>2 DEF SaveState, TypeOK, FreshOK
    <3>3. CASE JobKey(run[i].job) = JobKey(n)
      <4>1. PairOf(run[i]) = Jobs[n].pair
        BY <3>3 DEF JobKey, PairOf
      <4>2. /\ persisted'[JobKey(n)] = persisted[JobKey(n)] \union {run[i].last}
            /\ cronState'[JobKey(n)] = run[i].last
        BY <2>1, <2>3, <3>3 DEF SaveState, TypeOK
      <4>3. b \in stored[Jobs[n].pair]
        BY <3>1, <4>1, <4>2, LastIsNewest DEF FreshOK
      <4> QED
        BY <3>1, <4>1, <4>2, <4>3, LastIsNewest
    <3> QED
      BY <3>2, <3>3
  <2> QED
    BY <2>2, <2>3, Writers
<1>3. ASSUME NEW i \in Runs, run'[i].pc = "save", ~run'[i].force,
             NEW b \in persisted'[JobKey(run'[i].job)]
      PROVE  b < run'[i].last
  <2>1. run[i].job \in JobNumbers /\ JobKey(run[i].job) \in JobKeys
    BY JobFacts DEF TypeOK, RunRecord
  <2>2. \/ run'[i] = run[i]
        \/ HasEvaluated(run[i], run'[i])
    BY <1>3, PhaseMoves
  <2>3. ASSUME NEW k \in Runs, SaveState(k) PROVE FALSE
    <3>1. k = i
      BY DEF OneAtATime
    <3>2. HasSaved(run[i], run'[i])
      BY <2>3, <3>1, SaveMoves
    <3> QED
      BY <1>3, <3>2 DEF HasSaved
  <2>4. persisted' = persisted
    BY <2>3, Writers
  <2>5. CASE run'[i] = run[i]
    BY <1>3, <2>4, <2>5 DEF FreshOK
  <2>6. CASE HasEvaluated(run[i], run'[i])
    <3>1. run[i].last > cronState[JobKey(run[i].job)]
      BY <1>3, <2>6 DEF HasEvaluated, IsDue
    <3>2. b \in persisted[JobKey(run[i].job)] /\ run'[i].last = run[i].last
      BY <1>3, <2>4, <2>6 DEF HasEvaluated
    <3>3. b <= cronState[JobKey(run[i].job)]
      BY <2>1, <3>2 DEF FreshOK
    <3>4. b \in Nat /\ cronState[JobKey(run[i].job)] \in Nat /\ run[i].last \in Nat
      BY <2>1, <3>2, BoundsAssumption DEF TypeOK, RunRecord, Bars
    <3> QED
      BY <3>1, <3>2, <3>3, <3>4
  <2> QED
    BY <2>2, <2>5, <2>6
<1> QED
  BY <1>1, <1>2, <1>3 DEF FreshOK, JobKey

LEMMA FreshHolds == OneAtATime => (Spec => [](TypeOK /\ WindowOK /\ FreshOK))
<1> SUFFICES ASSUME OneAtATime PROVE Spec => [](TypeOK /\ WindowOK /\ FreshOK)
  OBVIOUS
<1>1. Init => FreshOK
  BY JobFacts DEF Init, FreshOK, ReadsFresh, IdleRun
<1> QED
  BY <1>1, FreshStep, TypesHold, PTL DEF Spec

(* As long as no two runs overlap, the engine evaluates a job only on a    *)
(* bar newer than every bar recorded for it before, unless it is forced:   *)
(* forced requests, deleted scripts, failures and any feed limit included. *)
THEOREM EvaluatesNewBarsOnly == OneAtATime => (Spec => OnlyOnNewBar)
<1> SUFFICES ASSUME OneAtATime PROVE Spec => OnlyOnNewBar
  OBVIOUS
<1> DEFINE A == \A i \in Runs :
       run[i].pc = "state" /\ run'[i].pc = "save" /\ ~run[i].force =>
         \A b \in persisted[JobKey(run[i].job)] : b < run[i].last
<1>1. TypeOK /\ FreshOK /\ [Next]_vars => [A]_vars
  <2> SUFFICES ASSUME TypeOK, FreshOK, [Next]_vars, NEW i \in Runs,
                      run[i].pc = "state", run'[i].pc = "save", ~run[i].force,
                      NEW b \in persisted[JobKey(run[i].job)]
               PROVE  b < run[i].last
    OBVIOUS
  <2>1. run[i].job \in JobNumbers /\ JobKey(run[i].job) \in JobKeys
    BY JobFacts DEF TypeOK, RunRecord
  <2>2. HasEvaluated(run[i], run'[i])
    BY PhaseMoves
  <2>3. run[i].last > cronState[JobKey(run[i].job)]
    BY <2>2 DEF HasEvaluated, IsDue
  <2>4. b <= cronState[JobKey(run[i].job)]
    BY <2>1 DEF FreshOK
  <2>5. b \in Nat /\ cronState[JobKey(run[i].job)] \in Nat /\ run[i].last \in Nat
    BY <2>1, BoundsAssumption DEF TypeOK, RunRecord, Bars
  <2> QED
    BY <2>3, <2>4, <2>5
<1> QED
  BY <1>1, FreshHolds, PTL DEF Spec, OnlyOnNewBar

(* An alert a run holds has not been delivered, no alert was delivered     *)
(* twice, and what was delivered or is held was recorded.                  *)
OnceOK ==
  /\ AlertAtMostOnce
  /\ \A i \in Runs : ~run[i].force
  /\ \A i \in Runs : \A a \in run[i].alerts : alerted[a] = 0

LEMMA OnceStep ==
  /\ OneAtATime /\ ManualRuns = {}
  /\ TypeOK /\ WindowOK /\ FreshOK /\ SaveOK /\ OnceOK /\ [Next]_vars
  => OnceOK'
<1> SUFFICES ASSUME OneAtATime, ManualRuns = {}, TypeOK, WindowOK, FreshOK, SaveOK,
                    OnceOK, [Next]_vars
             PROVE  OnceOK'
  OBVIOUS
<1>1. AlertAtMostOnce'
  <2> SUFFICES ASSUME NEW a \in JobKeys \X Bars PROVE alerted'[a] <= 1
    BY DEF AlertAtMostOnce
  <2>1. alerted[a] \in 0..2 /\ alerted[a] <= 1
    BY DEF TypeOK, OnceOK, AlertAtMostOnce
  <2>2. ASSUME NEW i \in Runs, PostAlerts(i)
        PROVE  alerted'[a] = alerted[a] \/ (alerted[a] = 0 /\ alerted'[a] = 1)
    BY <2>1, <2>2 DEF PostAlerts, TypeOK, OnceOK
  <2> QED
    BY <2>1, <2>2, Writers
<1>2. \A i \in Runs : ~run'[i].force
  BY PhaseMoves DEF OnceOK
<1>3. ASSUME NEW i \in Runs, NEW a \in run'[i].alerts PROVE alerted'[a] = 0
  <2>1. CASE PostAlerts(i)
    BY <2>1 DEF PostAlerts, TypeOK, IdleRun
  <2>2. CASE ~PostAlerts(i)
    <3>1. alerted' = alerted
      BY <2>2, Writers DEF OneAtATime
    <3>2. CASE a \in run[i].alerts
      BY <3>1, <3>2 DEF OnceOK
    <3>3. CASE a \notin run[i].alerts
      <4>1. SaveState(i) /\ HasSaved(run[i], run'[i])
        BY <1>3, <3>3, PhaseMoves
      <4>2. run[i].job \in JobNumbers /\ run[i].bars \in SUBSET Bars
        BY DEF TypeOK, RunRecord
      <4>3. a \in AlertsOf(run[i].job, run[i].last)
        BY <3>3, <4>1 DEF HasSaved
      <4>4. /\ a \in JobKeys \X Bars /\ a[1] = JobKey(run[i].job) /\ a[2] = run[i].last
        <5>1. /\ AlertsOf(run[i].job, run[i].last) \subseteq JobKeys \X Bars
              /\ \A q \in AlertsOf(run[i].job, run[i].last) :
                   q[1] = JobKey(run[i].job) /\ q[2] = run[i].last
          BY <4>2, EmissionType
        <5> QED
          BY <4>3, <5>1
      <4>5. a[2] \notin persisted[a[1]]
        <5>1. SUFFICES ASSUME run[i].last \in persisted[JobKey(run[i].job)] PROVE FALSE
          BY <4>4
        <5>2. run[i].last < run[i].last
          BY <4>1, <5>1 DEF FreshOK, OnceOK, SaveState
        <5>3. run[i].last \in Int
          BY BoundsAssumption DEF TypeOK, RunRecord
        <5> QED
          BY <5>2, <5>3
      <4>6. ~(alerted[a] > 0) /\ alerted[a] \in 0..2
        BY <4>4, <4>5 DEF SaveOK, ForwardedAfterSave, TypeOK
      <4> QED
        BY <3>1, <4>6
    <3> QED
      BY <3>2, <3>3
  <2> QED
    BY <2>1, <2>2
<1> QED
  BY <1>1, <1>2, <1>3 DEF OnceOK

(* Cron ticks that do not overlap deliver the alert of a bar at most once, *)
(* whatever fails, is killed or is redeployed in between.                  *)
THEOREM AlertsDeliveredOnce ==
  OneAtATime /\ ManualRuns = {} => (Spec => []AlertAtMostOnce)
<1> SUFFICES ASSUME OneAtATime, ManualRuns = {} PROVE Spec => []AlertAtMostOnce
  OBVIOUS
<1>1. Init => SaveOK /\ OnceOK
  <2>1. Init => ForwardedAfterSave /\ AlertAtMostOnce
    BY DEF Init, ForwardedAfterSave, AlertAtMostOnce
  <2> QED
    BY <2>1 DEF Init, SaveOK, AccountedFor, OnceOK, IdleRun
<1>2. OnceOK => AlertAtMostOnce
  BY DEF OnceOK
<1> QED
  BY <1>1, <1>2, FreshHolds, SaveStep, OnceStep, PTL DEF Spec

----------------------------------------------------------------------------
(* Every order is executed once.                                           *)

(* No series ever outgrows what is asked of the exchange, or the window of *)
(* a job that runs.                                                        *)
NeverSlides ==
  /\ FeedLimit > MaxBar
  /\ \A n \in JobNumbers : Jobs[n].enabled => Jobs[n].maxBars >= MaxBar

(* A series without a hole starts with the first bar.                      *)
IsPrefix(bars) == \A b \in bars : \A c \in Bars : c <= b => c \in bars

LEMMA SizeOfRange ==
  ASSUME NEW m \in Nat, NEW n \in Nat, m <= n + 1, m > 0
  PROVE  IsFiniteSet(m..n) /\ Cardinality(m..n) = (n + 1) - m
<1>1. m \in Int /\ n \in Int
  OBVIOUS
<1>2. IsFiniteSet(m..n) /\ Cardinality(m..n) = IF m > n THEN 0 ELSE n - m + 1
  BY <1>1, FS_Interval
<1> QED
  BY <1>2

(* A window as long as the series is the series.                           *)
LEMMA WholeWindow ==
  ASSUME NEW bars \in SUBSET Bars, NEW n \in Nat, n >= MaxBar
  PROVE  LastBars(bars, n) = bars
<1>1. ASSUME NEW b \in bars PROVE Cardinality({c \in bars : c > b}) < n
  <2>1. b \in 1..MaxBar /\ MaxBar \in Nat
    BY BoundsAssumption DEF Bars
  <2>2. /\ IsFiniteSet((b + 1)..MaxBar)
        /\ Cardinality((b + 1)..MaxBar) = (MaxBar + 1) - (b + 1)
    BY <2>1, SizeOfRange
  <2>3. {c \in bars : c > b} \subseteq (b + 1)..MaxBar
    <3>1. ASSUME NEW c \in 1..MaxBar, c > b PROVE c \in (b + 1)..MaxBar
      BY <2>1, <3>1
    <3> QED
      BY <3>1 DEF Bars
  <2>4. Cardinality({c \in bars : c > b}) <= Cardinality((b + 1)..MaxBar)
    BY <2>2, <2>3, FS_Subset
  <2>5. Cardinality({c \in bars : c > b}) \in Nat
    BY <2>2, <2>3, FS_Subset, FS_CardinalityType
  <2> QED
    BY <2>1, <2>2, <2>4, <2>5
<1> QED
  BY <1>1 DEF LastBars

(* The position of a bar in a series without a hole is its number.         *)
LEMMA IndexIsNumber ==
  ASSUME NEW bars \in SUBSET Bars, IsPrefix(bars), NEW b \in bars
  PROVE  BarIndex(b, bars) = b - 1
<1>1. b \in 1..MaxBar /\ MaxBar \in Nat
  BY BoundsAssumption DEF Bars
<1>2. {c \in bars : c < b} = 1..(b - 1)
  <2>1. ASSUME NEW c \in 1..(b - 1) PROVE c \in bars /\ c < b
    BY <1>1, <2>1 DEF IsPrefix, Bars
  <2>2. ASSUME NEW c \in bars, c < b PROVE c \in 1..(b - 1)
    BY <1>1, <2>2 DEF Bars
  <2> QED
    BY <2>1, <2>2
<1>3. Cardinality(1..(b - 1)) = b - 1
  <2>1. Cardinality(1..(b - 1)) = ((b - 1) + 1) - 1
    BY <1>1, SizeOfRange
  <2> QED
    BY <1>1, <2>1
<1> QED
  BY <1>2, <1>3 DEF BarIndex

PrefixOK == /\ \A p \in Pairs : IsPrefix(stored[p])
            /\ \A i \in Runs : IsPrefix(run[i].bars)
            /\ \A i \in Runs : run[i].pc = "bars" => Jobs[run[i].job].enabled

LEMMA PrefixStep == NeverSlides /\ TypeOK /\ PrefixOK /\ [Next]_vars => PrefixOK'
<1> SUFFICES ASSUME NeverSlides, TypeOK, PrefixOK, [Next]_vars PROVE PrefixOK'
  OBVIOUS
<1>1. ASSUME NEW p \in Pairs PROVE IsPrefix(stored'[p])
  <2>1. \A i \in Runs : PutBars(i) => IsPrefix(stored'[p])
    BY DEF PutBars, TypeOK, PrefixOK
  <2> QED
    BY <2>1, Writers DEF PrefixOK
<1>2. ASSUME NEW j \in Runs PROVE IsPrefix(run'[j].bars)
  <2>1. run[j].job \in JobNumbers /\ PairOf(run[j]) \in Pairs
    BY JobFacts DEF TypeOK, RunRecord, PairOf, Job
  <2>2. stored[PairOf(run[j])] \in SUBSET Bars /\ IsPrefix(stored[PairOf(run[j])])
    BY <2>1 DEF TypeOK, PrefixOK
  <2>3. IsPrefix(run[j].bars) /\ IsPrefix({})
    BY DEF PrefixOK, IsPrefix
  <2>4. ASSUME HasFetched(run[j], run'[j]) PROVE IsPrefix(run'[j].bars)
    <3>1. closed[PairOf(run[j])] \in 0..MaxBar
      BY <2>1 DEF TypeOK
    <3>2. IsPrefix(ClosedKlines(PairOf(run[j])))
      BY <3>1, BoundsAssumption DEF NeverSlides, IsPrefix, ClosedKlines, Bars
    <3> QED
      BY <2>4, <3>2 DEF HasFetched
  <2>5. ASSUME HasMerged(run[j], run'[j]) PROVE IsPrefix(run'[j].bars)
    BY <2>2, <2>3, <2>5 DEF HasMerged, IsPrefix
  <2>6. ASSUME HasBars(run[j], run'[j]) PROVE IsPrefix(run'[j].bars)
    <3>0. Jobs[run[j].job].enabled
      BY <2>6 DEF HasBars, PrefixOK
    <3>1. Jobs[run[j].job].maxBars \in Nat /\ Jobs[run[j].job].maxBars >= MaxBar
      BY <2>1, <3>0, JobFacts DEF Job, NeverSlides
    <3>2. LastBars(stored[PairOf(run[j])], Jobs[run[j].job].maxBars)
            = stored[PairOf(run[j])]
      BY <2>2, <3>1, WholeWindow
    <3> QED
      BY <2>2, <2>6, <3>2 DEF HasBars
  <2>7. run'[j].bars \in {run[j].bars, {}}
          \/ HasFetched(run[j], run'[j]) \/ HasMerged(run[j], run'[j])
          \/ HasBars(run[j], run'[j])
    BY BarsMove
  <2> QED
    BY <2>3, <2>4, <2>5, <2>6, <2>7
<1>3. ASSUME NEW j \in Runs, run'[j].pc = "bars" PROVE Jobs[run'[j].job].enabled
  <2>1. CASE run'[j] = run[j]
    BY <1>3, <2>1 DEF PrefixOK
  <2>2. CASE run'[j] # run[j]
    BY <1>3, <2>2, PhaseMoves DEF HasScript
  <2> QED
    BY <2>1, <2>2
<1> QED
  BY <1>1, <1>2, <1>3 DEF PrefixOK

(* Events carry the number of their bar as index, and no two orders have   *)
(* one key.                                                                *)
NumberOK ==
  /\ \A i \in Runs : \A e \in run[i].events : e.index = e.bar - 1
  /\ \A o \in accepted : o.event.index = o.event.bar - 1
  /\ \A o, q \in accepted : IdempotencyKey(o) = IdempotencyKey(q) => o = q

LEMMA NumberStep == TypeOK /\ PrefixOK /\ NumberOK /\ [Next]_vars => NumberOK'
<1> SUFFICES ASSUME TypeOK, PrefixOK, NumberOK, [Next]_vars PROVE NumberOK'
  OBVIOUS
<1>1. ASSUME NEW j \in Runs, NEW e \in run'[j].events PROVE e.index = e.bar - 1
  <2>1. CASE e \in run[j].events
    BY <2>1 DEF NumberOK
  <2>2. CASE e \notin run[j].events
    <3>1. HasEvaluated(run[j], run'[j])
      BY <1>1, <2>2, EventsMove
    <3>2. e \in EventsOf(run[j].job, run[j].bars)
      BY <1>1, <2>2, <3>1 DEF HasEvaluated
    <3>3. PICK b \in run[j].bars :
            e = [job |-> run[j].job, bar |-> b, index |-> BarIndex(b, run[j].bars)]
      BY <3>2 DEF EventsOf
    <3>4. run[j].bars \in SUBSET Bars /\ IsPrefix(run[j].bars)
      BY DEF TypeOK, RunRecord, PrefixOK
    <3>5. BarIndex(b, run[j].bars) = b - 1
      BY <3>4, IndexIsNumber
    <3> QED
      BY <3>3, <3>5
  <2> QED
    BY <2>1, <2>2
<1>2. ASSUME NEW o \in accepted', o \notin accepted
      PROVE  /\ o.event.index = o.event.bar - 1
             /\ accepted' = accepted \union {o}
             /\ \A a \in accepted : IdempotencyKey(a) # IdempotencyKey(o)
  <2>1. PICK i \in Runs : \E e \in run[i].events, x \in Exchanges :
          /\ o = [event |-> e, symbol |-> PostedSymbol(i, e), exchange |-> x]
          /\ accepted' = accepted \union {o}
          /\ \A a \in accepted : IdempotencyKey(a) # IdempotencyKey(o)
    BY <1>2, NewOrder
  <2>2. o.event \in run[i].events
    BY <2>1
  <2> QED
    BY <2>1, <2>2 DEF NumberOK
<1>3. \A o \in accepted' : o.event.index = o.event.bar - 1
  BY <1>2 DEF NumberOK
<1>4. ASSUME NEW o \in accepted', NEW q \in accepted',
             IdempotencyKey(o) = IdempotencyKey(q)
      PROVE  o = q
  BY <1>2, <1>4 DEF NumberOK
<1> QED
  BY <1>1, <1>3, <1>4 DEF NumberOK, IdempotencyKey

(* As long as no series outgrows its windows, the order of a script on a   *)
(* pair for a bar is executed at most once: overlapping ticks, requests on *)
(* the default symbol, forced runs, kills and stale writes included.       *)
THEOREM OrdersExecutedOnce ==
  NeverSlides /\ SymbolsKnown => (Spec => []OrderAtMostOnce)
<1> SUFFICES ASSUME NeverSlides, SymbolsKnown PROVE Spec => []OrderAtMostOnce
  OBVIOUS
<1>1. Init => PrefixOK /\ NumberOK
  BY DEF Init, PrefixOK, NumberOK, IsPrefix, IdleRun
<1>2. NumberOK /\ OrderOnItsSymbol => OrderAtMostOnce
  <2> SUFFICES ASSUME NumberOK, OrderOnItsSymbol, NEW o \in accepted, NEW q \in accepted,
                      JobKey(o.event.job) = JobKey(q.event.job),
                      o.event.bar = q.event.bar
               PROVE  o = q
    BY DEF OrderAtMostOnce
  <2>1. /\ Jobs[o.event.job].script = Jobs[q.event.job].script
        /\ Jobs[o.event.job].pair = Jobs[q.event.job].pair
    BY DEF JobKey
  <2>2. o.symbol = q.symbol
    BY <2>1 DEF OrderOnItsSymbol, EventSymbol
  <2>3. o.event.index = q.event.index
    BY DEF NumberOK
  <2> QED
    BY <2>1, <2>2, <2>3 DEF NumberOK, IdempotencyKey
<1> QED
  BY <1>1, <1>2, PrefixStep, NumberStep, TypesHold, OrdersOnTheirSymbol, PTL DEF Spec

----------------------------------------------------------------------------
(* Every order is delivered.                                               *)

(* A series has no hole among the candles the exchange still lists.        *)
Gapless(bars, c) ==
  \A b \in bars : \A d \in Bars : d <= b /\ d > c + 1 - FeedLimit => d \in bars

(* bars adds to the series only what is newer than all of it.              *)
AddsNewer(bars, series) ==
  \A b \in bars : \A d \in series : b <= d => b \in series

FeedOK(r, s, c) ==
  r.pc \in {"merge", "put"} =>
    Gapless(r.bars, c[PairOf(r)]) /\ AddsNewer(r.bars, s[PairOf(r)])

SeriesOK ==
  /\ \A p \in Pairs : Gapless(stored[p], closed[p])
  /\ \A i \in Runs : FeedOK(run[i], stored, closed)
  /\ \A k \in JobKeys : cronState[k] = 0 \/ cronState[k] \in persisted[k]

LEMMA StaysGapless ==
  ASSUME NEW bars, NEW c \in Nat, NEW d \in Nat, c <= d, Gapless(bars, c)
  PROVE  Gapless(bars, d)
<1>1. FeedLimit \in Nat /\ Bars \subseteq Int
  BY BoundsAssumption DEF Bars
<1>2. ASSUME NEW b \in Bars, b > d + 1 - FeedLimit PROVE b > c + 1 - FeedLimit
  BY <1>1, <1>2
<1> QED
  BY <1>2 DEF Gapless

(* What the exchange lists fits the series it was asked for.               *)
LEMMA KlinesFit ==
  ASSUME TypeOK, SeriesOK, NEW p \in Pairs
  PROVE  /\ Gapless(ClosedKlines(p), closed[p])
         /\ AddsNewer(ClosedKlines(p), stored[p])
<1>1. closed[p] \in Nat /\ FeedLimit \in Nat /\ Bars \subseteq Int
  BY BoundsAssumption DEF TypeOK, Bars
<1>2. Gapless(ClosedKlines(p), closed[p])
  BY <1>1 DEF Gapless, ClosedKlines
<1>3. ASSUME NEW b \in ClosedKlines(p), NEW d \in stored[p], b <= d
      PROVE  b \in stored[p]
  <2>1. b \in Bars /\ b > closed[p] + 1 - FeedLimit
    BY DEF ClosedKlines
  <2>2. Gapless(stored[p], closed[p])
    BY DEF SeriesOK
  <2> QED
    BY <1>3, <2>1, <2>2 DEF Gapless
<1> QED
  BY <1>2, <1>3 DEF AddsNewer

LEMMA FeedStep ==
  ASSUME OneAtATime, TypeOK, SeriesOK, [Next]_vars, NEW j \in Runs
  PROVE  FeedOK(run'[j], stored', closed')
<1> DEFINE p == PairOf(run[j])
<1>1. p \in Pairs /\ stored[p] \subseteq Bars
  BY JobFacts DEF TypeOK, RunRecord, PairOf, Job
<1>2. closed[p] \in Nat /\ closed'[p] \in Nat /\ closed[p] <= closed'[p]
  BY <1>1, ClosedGrows
<1>3. FeedOK(run[j], stored, closed) /\ Gapless(stored[p], closed[p])
  BY <1>1 DEF SeriesOK
<1>4. CASE run'[j].pc \notin {"merge", "put"}
  BY <1>4 DEF FeedOK
<1>5. CASE run'[j] = run[j] /\ run[j].pc \in {"merge", "put"}
  <2>1. stored' = stored
    <3>1. ASSUME NEW i \in Runs, PutBars(i) PROVE FALSE
      <4>1. i = j
        BY DEF OneAtATime
      <4>2. run'[j] = NextPair(run[j]) /\ run[j] \in RunRecord
        BY <3>1, <4>1 DEF PutBars, TypeOK
      <4> QED
        BY <1>5, <4>2, MovesOn
    <3> QED
      BY <3>1, Writers
  <2>2. Gapless(run[j].bars, closed'[p])
    BY <1>2, <1>3, <1>5, StaysGapless DEF FeedOK
  <2> QED
    BY <1>3, <1>5, <2>1, <2>2 DEF FeedOK
<1>6. CASE HasFetched(run[j], run'[j])
  <2>1. PairOf(run'[j]) = p /\ run'[j].bars = ClosedKlines(p)
    BY <1>6 DEF HasFetched, PairOf
  <2>2. stored' = stored
    BY <1>6, SeriesKept DEF HasFetched
  <2>3. Gapless(ClosedKlines(p), closed'[p]) /\ AddsNewer(ClosedKlines(p), stored[p])
    BY <1>1, <1>2, KlinesFit, StaysGapless
  <2> QED
    BY <2>1, <2>2, <2>3 DEF FeedOK
<1>7. CASE HasMerged(run[j], run'[j])
  <2>1. /\ PairOf(run'[j]) = p /\ run'[j].bars = run[j].bars \union stored[p]
        /\ run[j].pc = "merge"
    BY <1>7 DEF HasMerged, PairOf
  <2>2. stored' = stored
    BY <2>1, SeriesKept
  <2>3. Gapless(run[j].bars, closed'[p]) /\ Gapless(stored[p], closed'[p])
    BY <1>2, <1>3, <2>1, StaysGapless DEF FeedOK
  <2>4. Gapless(run'[j].bars, closed'[p])
    BY <2>1, <2>3 DEF Gapless
  <2>5. AddsNewer(run'[j].bars, stored[p])
    BY <1>3, <2>1 DEF FeedOK, AddsNewer
  <2> QED
    BY <2>1, <2>2, <2>4, <2>5 DEF FeedOK
<1> QED
  BY <1>4, <1>5, <1>6, <1>7, PhaseMoves

LEMMA SeriesStep == OneAtATime /\ TypeOK /\ SeriesOK /\ [Next]_vars => SeriesOK'
<1> SUFFICES ASSUME OneAtATime, TypeOK, SeriesOK, [Next]_vars PROVE SeriesOK'
  OBVIOUS
<1>1. ASSUME NEW p \in Pairs PROVE Gapless(stored'[p], closed'[p])
  <2>1. closed[p] \in Nat /\ closed'[p] \in Nat /\ closed[p] <= closed'[p]
    BY ClosedGrows
  <2>2. CASE stored' = stored
    BY <2>1, <2>2, StaysGapless DEF SeriesOK
  <2>3. ASSUME NEW i \in Runs, PutBars(i) PROVE Gapless(stored'[p], closed'[p])
    <3>1. CASE PairOf(run[i]) = p
      <4>1. stored'[p] = run[i].bars /\ Gapless(run[i].bars, closed[p])
        BY <2>3, <3>1 DEF PutBars, TypeOK, SeriesOK, FeedOK
      <4> QED
        BY <2>1, <4>1, StaysGapless
    <3>2. CASE PairOf(run[i]) # p
      <4>1. stored'[p] = stored[p]
        BY <2>3, <3>2 DEF PutBars, TypeOK
      <4> QED
        BY <2>1, <4>1, StaysGapless DEF SeriesOK
    <3> QED
      BY <3>1, <3>2
  <2> QED
    BY <2>2, <2>3, Writers
<1>2. \A i \in Runs : FeedOK(run'[i], stored', closed')
  BY FeedStep
<1>3. \A k \in JobKeys : cronState'[k] = 0 \/ cronState'[k] \in persisted'[k]
  <2>1. ASSUME NEW i \in Runs, SaveState(i), NEW k \in JobKeys
        PROVE  cronState'[k] = 0 \/ cronState'[k] \in persisted'[k]
    BY <2>1 DEF SaveState, TypeOK, SeriesOK
  <2> QED
    BY <2>1, Writers DEF SeriesOK
<1> QED
  BY <1>1, <1>2, <1>3 DEF SeriesOK

(* A bar within n bars of the newest one is among the newest n.            *)
LEMMA RecentInWindow ==
  ASSUME NEW bars \in SUBSET Bars, NEW n \in Nat \ {0}, NEW last \in Nat,
         \A b \in bars : b <= last, NEW b \in bars, b > last - n
  PROVE  b \in LastBars(bars, n)
<1>1. b \in Nat /\ b <= last /\ \A c \in bars : c \in Nat
  BY BoundsAssumption DEF Bars
<1>2. IsFiniteSet((b + 1)..last) /\ Cardinality((b + 1)..last) = (last + 1) - (b + 1)
  BY <1>1, SizeOfRange
<1>3. {c \in bars : c > b} \subseteq (b + 1)..last
  <2>1. ASSUME NEW c \in bars, c > b PROVE c \in (b + 1)..last
    BY <1>1, <2>1
  <2> QED
    BY <2>1
<1>4. /\ Cardinality({c \in bars : c > b}) <= Cardinality((b + 1)..last)
      /\ Cardinality({c \in bars : c > b}) \in Nat
  BY <1>2, <1>3, FS_Subset, FS_CardinalityType
<1>5. Cardinality({c \in bars : c > b}) < n
  BY <1>1, <1>2, <1>4
<1> QED
  BY <1>5 DEF LastBars

(* Jobs that share their state agree on what is forwarded of it, and a     *)
(* script runs on one timeframe of a symbol: the key of an order has none. *)
KeysAgree ==
  \A m, n \in JobNumbers : JobKey(m) = JobKey(n) =>
    Jobs[m].forward = Jobs[n].forward /\ Jobs[m].maxBars = Jobs[n].maxBars
OneTimeframe ==
  \A m, n \in JobNumbers :
    /\ Jobs[m].script = Jobs[n].script
    /\ SymbolOf[Jobs[m].pair] = SymbolOf[Jobs[n].pair]
    => Jobs[m].pair = Jobs[n].pair

Delivered(k, b, acc) == \E o \in acc : JobKey(o.event.job) = k /\ o.event.bar = b
Held(k, b, r) == \E e \in r.events : JobKey(e.job) = k /\ e.bar = b

(* The signals in the window of the last evaluated bar.                    *)
InWindow(n, b) ==
  /\ b \in Signals[Jobs[n].script] \intersect stored[Jobs[n].pair]
  /\ Jobs[n].forward
  /\ b <= cronState[JobKey(n)] /\ b > cronState[JobKey(n)] - Jobs[n].maxBars

OrdersPending ==
  failures = 0 =>
    /\ \A i \in Runs : run[i].pc = "save" =>
         EventsOf(run[i].job, run[i].bars) \subseteq run[i].events
    /\ \A i \in Runs : \A e \in run[i].sent : Delivered(JobKey(e.job), e.bar, accepted)
    /\ \A n \in JobNumbers : \A b \in Bars : InWindow(n, b) =>
         \/ Delivered(JobKey(n), b, accepted)
         \/ \E i \in Runs : Held(JobKey(n), b, run[i])

LEMMA StaysDelivered ==
  ASSUME TypeOK, [Next]_vars, NEW k, NEW b, Delivered(k, b, accepted)
  PROVE  Delivered(k, b, accepted')
<1>1. accepted \subseteq accepted'
  BY Writers DEF PostOrder, Execute
<1> QED
  BY <1>1 DEF Delivered

(* An order that is posted is executed, now or before.                     *)
LEMMA PostedDelivered ==
  ASSUME OneTimeframe, SymbolsKnown, TypeOK, OrderOnItsSymbol, NEW i \in Runs,
         NEW e \in Event, NEW x,
         Execute([event |-> e, symbol |-> PostedSymbol(i, e), exchange |-> x])
  PROVE  Delivered(JobKey(e.job), e.bar, accepted')
<1> DEFINE o == [event |-> e, symbol |-> PostedSymbol(i, e), exchange |-> x]
<1>1. o.event = e /\ o.symbol = EventSymbol(e)
  BY PostedSymbolIsEvents
<1> HIDE DEF o
<1>2. CASE o \in accepted'
  BY <1>1, <1>2 DEF Delivered
<1>3. CASE o \notin accepted'
  <2>1. PICK a \in accepted : a \in accepted' /\ IdempotencyKey(a) = IdempotencyKey(o)
    BY <1>3 DEF Execute, o
  <2>2. a.event.job \in JobNumbers /\ e.job \in JobNumbers
    BY <2>1 DEF TypeOK, Order, Event
  <2>3. /\ Jobs[a.event.job].script = Jobs[e.job].script
        /\ a.symbol = EventSymbol(e) /\ a.event.bar = e.bar
    BY <1>1, <2>1 DEF IdempotencyKey
  <2>4. SymbolOf[Jobs[a.event.job].pair] = SymbolOf[Jobs[e.job].pair]
    BY <2>1, <2>3 DEF OrderOnItsSymbol, EventSymbol
  <2>5. JobKey(a.event.job) = JobKey(e.job)
    BY <2>2, <2>3, <2>4 DEF OneTimeframe, JobKey
  <2> QED
    BY <2>1, <2>3, <2>5 DEF Delivered
<1> QED
  BY <1>2, <1>3

LEMMA SentStep ==
  ASSUME OneTimeframe, SymbolsKnown, TypeOK, OrderOnItsSymbol, OrdersPending,
         [Next]_vars, failures' = 0, NEW j \in Runs, NEW e \in run'[j].sent
  PROVE  Delivered(JobKey(e.job), e.bar, accepted')
<1>1. failures = 0 /\ ~Failure(j)
  BY FailuresCount
<1>2. CASE e \in run[j].sent
  BY <1>1, <1>2, StaysDelivered DEF OrdersPending
<1>3. CASE e \notin run[j].sent
  <2>1. PostOrder(j) /\ run[j] \in RunRecord
    BY <1>1, <1>3, SentMove DEF Failure, TypeOK
  <2>2. PICK f \in run[j].events, x \in Exchanges :
          /\ Execute([event |-> f, symbol |-> PostedSymbol(j, f), exchange |-> x])
          /\ run' = [run EXCEPT ![j].sent = @ \union {f}]
    BY <2>1 DEF PostOrder
  <2>3. f \in Event /\ e = f
    BY <1>3, <2>1, <2>2 DEF TypeOK, RunRecord
  <2> QED
    BY <2>2, <2>3, PostedDelivered
<1> QED
  BY <1>2, <1>3

(* A step in which nothing fails loses no event before it was posted.      *)
LEMMA StaysHeld ==
  ASSUME TypeOK, IdleEmpty, OrdersPending, [Next]_vars, failures' = 0,
         NEW j \in Runs, NEW k, NEW b, Held(k, b, run[j])
  PROVE  Held(k, b, run'[j]) \/ Delivered(k, b, accepted')
<1>1. failures = 0 /\ ~Failure(j)
  BY FailuresCount
<1>2. CASE run[j].events \subseteq run'[j].events
  BY <1>2 DEF Held
<1>3. CASE PostAlerts(j)
  <2>1. run[j].sent = run[j].events
    BY <1>3 DEF PostAlerts
  <2>2. Delivered(k, b, accepted)
    BY <1>1, <2>1 DEF OrdersPending, Held
  <2> QED
    BY <2>2, StaysDelivered
<1> QED
  BY <1>1, <1>2, <1>3, EventsKept DEF Failure

(* A signal that comes into the window is held by the run that recorded    *)
(* the bar.                                                                *)
LEMMA SaveHolds ==
  ASSUME KeysAgree, TypeOK, WindowOK, FreshOK, OrdersPending, failures = 0,
         NEW i \in Runs, SaveState(i), NEW n \in JobNumbers, JobKey(n) = JobKey(run[i].job),
         NEW b \in Signals[Jobs[n].script] \intersect stored[Jobs[n].pair],
         Jobs[n].forward, b > run[i].last - Jobs[n].maxBars
  PROVE  Held(JobKey(n), b, run'[i])
<1> DEFINE m == run[i].job
<1>1. m \in JobNumbers /\ run[i].pc = "save" /\ run[i].last \in Nat
  BY BoundsAssumption DEF TypeOK, RunRecord, SaveState
<1>2. /\ Jobs[m].script = Jobs[n].script /\ Jobs[m].pair = Jobs[n].pair
      /\ Jobs[m].forward /\ Jobs[m].maxBars = Jobs[n].maxBars
  BY <1>1 DEF JobKey, KeysAgree
<1>3. /\ Jobs[m].maxBars \in Nat \ {0} /\ stored[Jobs[m].pair] \in SUBSET Bars
  BY <1>1, JobFacts DEF Job, TypeOK
<1>4. ReadsFresh(run[i], stored)
  BY DEF FreshOK
<1>5. \A c \in stored[Jobs[m].pair] : c <= run[i].last
  BY <1>1, <1>4, LastIsNewest DEF PairOf
<1>6. b \in LastBars(stored[Jobs[m].pair], Jobs[m].maxBars)
  BY <1>1, <1>2, <1>3, <1>5, RecentInWindow
<1>7. b \in run[i].bars
  BY <1>1, <1>4, <1>6 DEF ReadsFresh, PairOf
<1> DEFINE e == [job |-> m, bar |-> b, index |-> BarIndex(b, run[i].bars)]
<1>8. e \in EventsOf(m, run[i].bars)
  BY <1>2, <1>7 DEF EventsOf
<1>9. e \in run[i].events
  BY <1>1, <1>8 DEF OrdersPending
<1>10. e \in run'[i].events
  BY <1>9, SaveMoves DEF HasSaved
<1>11. e.job = m /\ e.bar = b
  OBVIOUS
<1> QED
  BY <1>10, <1>11 DEF Held

LEMMA PendingStep ==
  /\ OneAtATime /\ KeysAgree /\ OneTimeframe /\ SymbolsKnown
  /\ TypeOK /\ WindowOK /\ IdleEmpty /\ FreshOK /\ SeriesOK /\ OrderOnItsSymbol
  /\ OrdersPending /\ [Next]_vars
  => OrdersPending'
<1> SUFFICES ASSUME OneAtATime, KeysAgree, OneTimeframe, SymbolsKnown, TypeOK, WindowOK,
                    IdleEmpty, FreshOK, SeriesOK, OrderOnItsSymbol, OrdersPending,
                    [Next]_vars, failures' = 0
             PROVE  OrdersPending'
  BY DEF OrdersPending
<1>1. failures = 0 /\ \A i \in Runs : ~Failure(i)
  BY FailuresCount
<1>2. ASSUME NEW i \in Runs, run'[i].pc = "save"
      PROVE  EventsOf(run'[i].job, run'[i].bars) \subseteq run'[i].events
  <2>1. CASE run'[i] = run[i]
    BY <1>1, <1>2, <2>1 DEF OrdersPending
  <2>2. CASE HasEvaluated(run[i], run'[i])
    BY <2>2 DEF HasEvaluated
  <2> QED
    BY <1>2, <2>1, <2>2, PhaseMoves
<1>3. \A i \in Runs : \A e \in run'[i].sent : Delivered(JobKey(e.job), e.bar, accepted')
  BY SentStep
<1>4. ASSUME NEW n \in JobNumbers, NEW b \in Bars, InWindow(n, b)'
      PROVE  \/ Delivered(JobKey(n), b, accepted')
             \/ \E i \in Runs : Held(JobKey(n), b, run'[i])
  <2> DEFINE k == JobKey(n)
             p == Jobs[n].pair
  <2>1. k \in JobKeys /\ p \in Pairs
    BY JobFacts DEF Job
  <2>2. /\ b \in Signals[Jobs[n].script] /\ b \in stored'[p] /\ Jobs[n].forward
        /\ b <= cronState'[k] /\ b > cronState'[k] - Jobs[n].maxBars
    BY <1>4 DEF InWindow, JobKey
  <2>3. CASE InWindow(n, b)
    BY <1>1, <2>3, StaysDelivered, StaysHeld DEF OrdersPending
  <2>4. ASSUME NEW i \in Runs, SaveState(i), k = JobKey(run[i].job)
        PROVE  Held(k, b, run'[i])
    <3>1. cronState'[k] = run[i].last /\ stored' = stored
      BY <2>1, <2>4 DEF SaveState, TypeOK
    <3> QED
      BY <1>1, <2>2, <2>4, <3>1, SaveHolds
  <2>5. CASE cronState'[k] = cronState[k] /\ ~InWindow(n, b)
    <3>1. b \notin stored[p]
      BY <2>2, <2>5 DEF InWindow
    <3>2. PICK i \in Runs : PutBars(i)
      BY <2>2, <3>1, Writers
    <3>3. /\ PairOf(run[i]) = p /\ b \in run[i].bars
          /\ AddsNewer(run[i].bars, stored[p])
      BY <2>2, <3>1, <3>2 DEF PutBars, TypeOK, SeriesOK, FeedOK
    <3>4. cronState[k] \in stored[p]
      <4>1. cronState[k] # 0
        BY <2>2, <2>5 DEF Bars
      <4> QED
        BY <2>1, <4>1 DEF SeriesOK, FreshOK
    <3> QED
      BY <2>2, <2>5, <3>1, <3>3, <3>4 DEF AddsNewer
  <2>6. cronState'[k] = cronState[k]
          \/ \E i \in Runs : SaveState(i) /\ k = JobKey(run[i].job)
    BY <2>1, Writers DEF SaveState, TypeOK
  <2> QED
    BY <2>3, <2>4, <2>5, <2>6
<1> QED
  BY <1>2, <1>3, <1>4 DEF OrdersPending, JobKey, Delivered, Held

(* As long as nothing failed, runs that do not overlap execute the order   *)
(* of every signal in the window of the last evaluated bar: with outages   *)
(* of the cron trigger longer than the feed limit, forced requests and     *)
(* scripts deleted and deployed again in between.                          *)
THEOREM EveryOrderDelivered ==
  OneAtATime /\ KeysAgree /\ OneTimeframe /\ SymbolsKnown => (Spec => []OrdersDelivered)
<1> SUFFICES ASSUME OneAtATime, KeysAgree, OneTimeframe, SymbolsKnown
             PROVE  Spec => []OrdersDelivered
  OBVIOUS
<1>1. Init => SeriesOK
  BY DEF Init, SeriesOK, FeedOK, Gapless, IdleRun
<1>2. Init => OrdersPending
  BY JobFacts DEF Init, OrdersPending, InWindow, IdleRun, Job
<1>3. IdleEmpty /\ OrdersPending /\ TypeOK => OrdersDelivered
  <2> SUFFICES ASSUME IdleEmpty, OrdersPending, TypeOK, failures = 0, Quiet,
                      NEW n \in JobNumbers,
                      NEW b \in Signals[Jobs[n].script] \intersect stored[Jobs[n].pair],
                      InWindow(n, b)
               PROVE  Delivered(JobKey(n), b, accepted)
    BY DEF OrdersDelivered, InWindow, Delivered
  <2>1. b \in Bars
    BY JobFacts DEF TypeOK, Job
  <2>2. \A i \in Runs : ~Held(JobKey(n), b, run[i])
    BY DEF Held, IdleEmpty, Quiet
  <2> QED
    BY <2>1, <2>2 DEF OrdersPending
<1> QED
  BY <1>1, <1>2, <1>3, PendingStep, SeriesStep, IdleHolds, FreshHolds,
     OrdersOnTheirSymbol, PTL DEF Spec

=============================================================================
