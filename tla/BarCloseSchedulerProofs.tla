---------------------- MODULE BarCloseSchedulerProofs ----------------------
(***************************************************************************)
(* What holds of BarCloseScheduler for any jobs, signals, overlap of runs  *)
(* and number of bars and failures.                                        *)
(***************************************************************************)
EXTENDS BarCloseScheduler, FiniteSetTheorems, TLAPS

(* Jobs are job records, their numbers start at 1.                         *)
LEMMA JobFacts ==
  /\ 1 \in JobNumbers
  /\ \A n \in JobNumbers : Jobs[n] \in Job /\ JobKey(n) \in JobKeys
  /\ \A n \in JobNumbers : n < Len(Jobs) => n + 1 \in JobNumbers
<1>1. Len(Jobs) \in Nat /\ Len(Jobs) # 0
  BY JobsAssumption
<1>2. ASSUME NEW n \in JobNumbers PROVE Jobs[n] \in Job
  BY JobsAssumption DEF JobNumbers
<1> QED
  BY <1>1, <1>2 DEF JobNumbers, JobKeys

(* The position of a bar in a window is a natural number.                  *)
LEMMA BarIndexType ==
  ASSUME NEW window \in SUBSET Bars, NEW b
  PROVE  BarIndex(b, window) \in Nat
<1>1. IsFiniteSet(Bars)
  BY BoundsAssumption, FS_Interval DEF Bars
<1>2. IsFiniteSet({c \in window : c < b})
  BY <1>1, FS_Subset
<1> QED
  BY <1>2, FS_CardinalityType DEF BarIndex

(* An evaluation emits events of its own job, for signal bars in its       *)
(* window, and alerts of its own key for the last bar only.                *)
LEMMA EmissionType ==
  ASSUME NEW n \in JobNumbers, NEW window \in SUBSET Bars, NEW last
  PROVE  /\ EventsOf(n, window) \subseteq Event
         /\ \A e \in EventsOf(n, window) : e.job = n /\ e.bar \in window
         /\ AlertsOf(n, last) \subseteq JobKeys \X Bars
         /\ \A a \in AlertsOf(n, last) : a[1] = JobKey(n) /\ a[2] = last
<1>1. ASSUME NEW e \in EventsOf(n, window)
      PROVE  e \in Event /\ e.job = n /\ e.bar \in window
  <2>1. PICK b \in window :
          e = [job |-> n, bar |-> b, index |-> BarIndex(b, window)]
    BY <1>1 DEF EventsOf
  <2>2. BarIndex(b, window) \in Nat
    BY BarIndexType
  <2> QED
    BY <2>1, <2>2 DEF Event
<1>2. JobKey(n) \in JobKeys /\ Signals[Jobs[n].script] \subseteq Bars
  BY JobFacts, MarketAssumption DEF Job
<1> QED
  BY <1>1, <1>2 DEF AlertsOf

(* Moving on to the next pair or job keeps a run well formed.              *)
LEMMA NextRunType ==
  ASSUME NEW r \in RunRecord
  PROVE  NextPair(r) \in RunRecord /\ NextJob(r) \in RunRecord
<1>1. 1 \in JobNumbers /\ (r.job < Len(Jobs) => r.job + 1 \in JobNumbers)
  BY JobFacts DEF RunRecord
<1>2. 0 \in 0..MaxBar
  BY BoundsAssumption
<1>3. FirstJob(r, "script") \in RunRecord /\ FirstJob(r, "orders") \in RunRecord
  BY <1>1, <1>2 DEF FirstJob, RunRecord, Phases
<1> QED
  BY <1>1, <1>2, <1>3 DEF NextPair, NextJob, RunRecord, Phases

LEMMA IdleRunType == IdleRun \in RunRecord
<1>1. 1 \in JobNumbers
  BY JobFacts
<1>2. 0 \in 0..MaxBar
  BY BoundsAssumption
<1> QED
  BY <1>1, <1>2 DEF IdleRun, RunRecord, Phases

LEMMA InitType == Init => TypeOK
<1>1. 0 \in 0..MaxBar /\ 0 \in 0..MaxFailures
  BY BoundsAssumption
<1> QED
  BY <1>1, IdleRunType DEF Init, TypeOK

(* A step of the market feed keeps the types.                              *)
LEMMA FeedType ==
  ASSUME TypeOK, NEW i \in Runs,
         SkipPair(i) \/ FetchKlines(i) \/ MergeBars(i) \/ PutBars(i) \/ FeedFails(i)
  PROVE  TypeOK'
<1>1. run[i] \in RunRecord /\ NextPair(run[i]) \in RunRecord
  BY NextRunType DEF TypeOK
<1>2. Jobs[run[i].job] \in Job /\ PairOf(run[i]) \in Pairs
  BY <1>1, JobFacts DEF RunRecord, Job, PairOf
<1>3. CASE SkipPair(i)
  BY <1>1, <1>3 DEF SkipPair, TypeOK
<1>4. CASE FetchKlines(i)
  <2>1. ClosedKlines(PairOf(run[i])) \subseteq Bars
    BY DEF ClosedKlines
  <2>2. [run[i] EXCEPT !.pc = "merge", !.bars = ClosedKlines(PairOf(run[i]))]
          \in RunRecord
    BY <1>1, <2>1 DEF RunRecord, Phases
  <2> QED
    BY <1>1, <1>4, <2>2 DEF FetchKlines, TypeOK
<1>5. CASE MergeBars(i)
  <2>1. stored[PairOf(run[i])] \subseteq Bars
    BY <1>2 DEF TypeOK
  <2>2. [run[i] EXCEPT !.pc = "put",
                       !.bars = @ \union stored[PairOf(run[i])]] \in RunRecord
    BY <1>1, <2>1 DEF RunRecord, Phases
  <2>3. run' \in [Runs -> RunRecord]
    BY <1>5, <2>2 DEF MergeBars, TypeOK
  <2> QED
    BY <1>5, <2>3 DEF MergeBars, TypeOK
<1>6. CASE PutBars(i)
  <2>1. run[i].bars \subseteq Bars
    BY <1>1 DEF RunRecord
  <2> QED
    BY <1>1, <1>2, <1>6, <2>1 DEF PutBars, TypeOK
<1>7. CASE FeedFails(i)
  BY <1>1, <1>7, BoundsAssumption DEF FeedFails, MayFail, TypeOK
<1> QED
  BY <1>3, <1>4, <1>5, <1>6, <1>7

(* Between reading the bars and saving the state, a run's last bar is the  *)
(* newest bar of its window.                                               *)
WindowOf(r) ==
  r.pc \in {"state", "save"} => r.last \in r.bars /\ \A b \in r.bars : b <= r.last
WindowOK == \A i \in Runs : WindowOf(run[i])

(* A step of the job loop keeps the types.                                 *)
LEMMA JobLoopType ==
  ASSUME TypeOK, WindowOK, NEW i \in Runs,
         \/ SkipJob(i) \/ GetScript(i) \/ FetchBars(i) \/ FetchBarsFails(i)
         \/ SkipNoNewBar(i) \/ Evaluate(i) \/ EngineFails(i) \/ SaveState(i)
  PROVE  TypeOK'
<1>1. run[i] \in RunRecord /\ NextJob(run[i]) \in RunRecord
  BY NextRunType DEF TypeOK
<1>2. /\ run[i].job \in JobNumbers /\ run[i].bars \in SUBSET Bars
      /\ run[i].events \subseteq Event
      /\ run[i].alerts \subseteq JobKeys \X Bars
      /\ JobKey(run[i].job) \in JobKeys
      /\ PairOf(run[i]) \in Pairs
  BY <1>1, JobFacts DEF RunRecord, Job, PairOf
<1>3. CASE \/ SkipJob(i) \/ FetchBarsFails(i) \/ SkipNoNewBar(i) \/ EngineFails(i)
  BY <1>1, <1>3, BoundsAssumption
  DEF SkipJob, FetchBarsFails, SkipNoNewBar, EngineFails, MayFail, TypeOK
<1>4. CASE GetScript(i)
  <2>1. [run[i] EXCEPT !.pc = "bars"] \in RunRecord
    BY <1>1 DEF RunRecord, Phases
  <2> QED
    BY <1>4, <2>1 DEF GetScript, TypeOK
<1>5. CASE FetchBars(i)
  <2> DEFINE window == LastBars(stored[PairOf(run[i])], Jobs[run[i].job].maxBars)
  <2>1. window \subseteq Bars
    BY <1>2 DEF LastBars, TypeOK
  <2>2. CASE run' = [run EXCEPT ![i] = NextJob(@)]
    BY <1>1, <1>5, <2>2 DEF FetchBars, TypeOK
  <2>3. CASE \E last \in window :
               run' = [run EXCEPT ![i].pc = "state", ![i].bars = window,
                                  ![i].last = last]
    <3>1. PICK last \in window :
            run' = [run EXCEPT ![i].pc = "state", ![i].bars = window,
                               ![i].last = last]
      BY <2>3
    <3>2. last \in 0..MaxBar
      BY <2>1 DEF Bars
    <3>3. [run[i] EXCEPT !.pc = "state", !.bars = window, !.last = last] \in RunRecord
      BY <1>1, <2>1, <3>2 DEF RunRecord, Phases
    <3>4. run' \in [Runs -> RunRecord]
      BY <3>1, <3>3 DEF TypeOK
    <3> QED
      BY <1>5, <3>4 DEF FetchBars, TypeOK
  <2> QED
    BY <1>5, <2>2, <2>3 DEF FetchBars
<1>6. CASE Evaluate(i)
  <2>1. EventsOf(run[i].job, run[i].bars) \subseteq Event
    BY <1>2, EmissionType
  <2>2. Evaluated(run[i]) \in RunRecord
    BY <1>1, <1>2, <2>1 DEF Evaluated, RunRecord, Phases
  <2> QED
    BY <1>6, <2>2 DEF Evaluate, TypeOK
<1>7. CASE SaveState(i)
  <2>1. run[i].last \in Bars
    BY <1>2, <1>7 DEF SaveState, WindowOK, WindowOf
  <2>2. AlertsOf(run[i].job, run[i].last) \subseteq JobKeys \X Bars
    BY <1>2, EmissionType
  <2>3. Saved(run[i]) \in RunRecord
    <3>1. [run[i] EXCEPT !.alerts = @ \union AlertsOf(run[i].job, run[i].last)]
            \in RunRecord
      BY <1>1, <1>2, <2>2 DEF RunRecord
    <3> QED
      BY <3>1, NextRunType DEF Saved
  <2>4. run' \in [Runs -> RunRecord]
    BY <1>7, <2>3 DEF SaveState, TypeOK
  <2>5. cronState' \in [JobKeys -> 0..MaxBar] /\ persisted' \in [JobKeys -> SUBSET Bars]
    BY <1>2, <1>7, <2>1 DEF SaveState, TypeOK, Bars
  <2> QED
    BY <1>7, <2>4, <2>5 DEF SaveState, TypeOK
<1> QED
  BY <1>3, <1>4, <1>5, <1>6, <1>7

(* Forwarding keeps the types.                                             *)
LEMMA ForwardType ==
  ASSUME TypeOK, NEW i \in Runs,
         PostOrder(i) \/ PostOrderFails(i) \/ PostAlerts(i)
  PROVE  TypeOK'
<1>1. run[i] \in RunRecord
  BY DEF TypeOK
<1>2. ASSUME NEW e \in run[i].events
      PROVE  [run[i] EXCEPT !.sent = @ \union {e}] \in RunRecord
  BY <1>1, <1>2 DEF RunRecord
<1>3. CASE PostOrder(i)
  <2>1. PICK e \in run[i].events, x \in Exchanges :
          /\ Execute([event |-> e, symbol |-> PostedSymbol(i, e), exchange |-> x])
          /\ run' = [run EXCEPT ![i].sent = @ \union {e}]
    BY <1>3 DEF PostOrder
  <2>2. e \in Event
    BY <1>1 DEF RunRecord
  <2>3. PostedSymbol(i, e) \in Symbols
    BY <2>2, JobFacts, MarketAssumption DEF PostedSymbol, EventSymbol, Event, Job
  <2>4. accepted' \subseteq Order
    BY <2>1, <2>2, <2>3 DEF Execute, Order, TypeOK
  <2>5. run' \in [Runs -> RunRecord]
    BY <1>2, <2>1 DEF TypeOK
  <2> QED
    BY <1>3, <2>4, <2>5 DEF PostOrder, TypeOK
<1>4. CASE PostOrderFails(i)
  <2>1. PICK e \in run[i].events : run' = [run EXCEPT ![i].sent = @ \union {e}]
    BY <1>4 DEF PostOrderFails
  <2>2. run' \in [Runs -> RunRecord]
    BY <1>2, <2>1 DEF TypeOK
  <2> QED
    BY <1>4, <2>2, BoundsAssumption DEF PostOrderFails, MayFail, TypeOK
<1>5. CASE PostAlerts(i)
  <2>1. alerted' \in [JobKeys \X Bars -> 0..2]
    BY <1>5 DEF PostAlerts, TypeOK
  <2> QED
    BY <1>5, <2>1, IdleRunType DEF PostAlerts, TypeOK
<1> QED
  BY <1>3, <1>4, <1>5

(* The steps of the world, and of a run's start and abrupt end.            *)
LEMMA OuterType ==
  ASSUME TypeOK,
         \/ \E p \in Pairs : CloseBar(p)
         \/ \E s \in Scripts : DeployScript(s) \/ DeleteScript(s)
         \/ \E i \in CronRuns : StartCron(i)
         \/ \E i \in ManualRuns, force, refresh \in BOOLEAN :
              StartManual(i, force, refresh)
         \/ \E i \in Runs : Abort(i)
  PROVE  TypeOK'
<1>1. CASE \E p \in Pairs : CloseBar(p)
  BY <1>1, BoundsAssumption DEF CloseBar, TypeOK
<1>2. CASE \E s \in Scripts : DeployScript(s) \/ DeleteScript(s)
  BY <1>2 DEF DeployScript, DeleteScript, TypeOK
<1>3. CASE \E i \in CronRuns : StartCron(i)
  <2>1. [IdleRun EXCEPT !.pc = "fetch"] \in RunRecord
    BY IdleRunType DEF RunRecord, Phases
  <2> QED
    BY <1>3, <2>1 DEF StartCron, TypeOK
<1>4. CASE \E i \in ManualRuns, force, refresh \in BOOLEAN :
             StartManual(i, force, refresh)
  <2>1. PICK i \in ManualRuns, force \in BOOLEAN, refresh \in BOOLEAN :
          StartManual(i, force, refresh)
    BY <1>4
  <2>2. [IdleRun EXCEPT !.pc = IF refresh THEN "fetch" ELSE "script",
                        !.force = force] \in RunRecord
    BY IdleRunType DEF RunRecord, Phases
  <2>3. run' \in [Runs -> RunRecord]
    BY <2>1, <2>2 DEF StartManual, TypeOK
  <2> QED
    BY <2>1, <2>3 DEF StartManual, TypeOK
<1>5. CASE \E i \in Runs : Abort(i)
  BY <1>5, IdleRunType, BoundsAssumption DEF Abort, MayFail, TypeOK
<1> QED
  BY <1>1, <1>2, <1>3, <1>4, <1>5

LEMMA TypeStep == TypeOK /\ WindowOK /\ [Next]_vars => TypeOK'
<1> SUFFICES ASSUME TypeOK, WindowOK, [Next]_vars PROVE TypeOK'
  OBVIOUS
<1>1. CASE UNCHANGED vars
  BY <1>1 DEF vars, TypeOK
<1>2. CASE Next
  BY <1>2, FeedType, JobLoopType, ForwardType, OuterType DEF Next, Progress, Failure
<1> QED
  BY <1>1, <1>2

(* A step changes at most one run: the one that takes it.                  *)
LEMMA OneRunMoves ==
  ASSUME TypeOK, [Next]_vars, NEW j \in Runs
  PROVE  \/ run'[j] = run[j]
         \/ StartCron(j)
         \/ \E force, refresh \in BOOLEAN : StartManual(j, force, refresh)
         \/ Progress(j)
         \/ Failure(j)
<1>1. CASE UNCHANGED vars
  BY <1>1 DEF vars
<1>2. ASSUME NEW p \in Pairs, CloseBar(p) PROVE run'[j] = run[j]
  BY <1>2 DEF CloseBar
<1>3. ASSUME NEW s \in Scripts, DeployScript(s) \/ DeleteScript(s)
      PROVE  run'[j] = run[j]
  BY <1>3 DEF DeployScript, DeleteScript
<1>4. ASSUME NEW i \in CronRuns, StartCron(i), i # j PROVE run'[j] = run[j]
  BY <1>4 DEF StartCron, TypeOK
<1>5. ASSUME NEW i \in ManualRuns, NEW force \in BOOLEAN, NEW refresh \in BOOLEAN,
             StartManual(i, force, refresh), i # j
      PROVE  run'[j] = run[j]
  BY <1>5 DEF StartManual, TypeOK
<1>6. ASSUME NEW i \in Runs, Progress(i), i # j PROVE run'[j] = run[j]
  <2>1. CASE SkipPair(i) \/ FetchKlines(i) \/ MergeBars(i) \/ PutBars(i)
    BY <1>6, <2>1 DEF SkipPair, FetchKlines, MergeBars, PutBars, TypeOK
  <2>2. CASE SkipJob(i) \/ GetScript(i) \/ FetchBars(i)
    BY <1>6, <2>2 DEF SkipJob, GetScript, FetchBars, TypeOK
  <2>3. CASE SkipNoNewBar(i) \/ Evaluate(i) \/ SaveState(i)
    BY <1>6, <2>3 DEF SkipNoNewBar, Evaluate, SaveState, TypeOK
  <2>4. CASE PostOrder(i) \/ PostAlerts(i)
    BY <1>6, <2>4 DEF PostOrder, PostAlerts, TypeOK
  <2> QED
    BY <1>6, <2>1, <2>2, <2>3, <2>4 DEF Progress
<1>7. ASSUME NEW i \in Runs, Failure(i), i # j PROVE run'[j] = run[j]
  BY <1>7 DEF Failure, Abort, FeedFails, FetchBarsFails, EngineFails,
              PostOrderFails, TypeOK
<1> QED
  BY <1>1, <1>2, <1>3, <1>4, <1>5, <1>6, <1>7 DEF Next

(* A run enters the state phase only with a window and its newest bar, and *)
(* leaves them alone until it has saved.                                   *)
LEMMA WindowStep == TypeOK /\ WindowOK /\ [Next]_vars => WindowOK'
<1> SUFFICES ASSUME TypeOK, WindowOK, [Next]_vars, NEW j \in Runs
             PROVE  WindowOf(run[j])'
  BY DEF WindowOK
<1>1. run[j] \in RunRecord /\ WindowOf(run[j])
  BY DEF TypeOK, WindowOK
<1>2. NextPair(run[j]).pc \notin {"state", "save"}
      /\ NextJob(run[j]).pc \notin {"state", "save"}
      /\ Saved(run[j]).pc \notin {"state", "save"}
  BY <1>1 DEF NextPair, NextJob, Saved, FirstJob, RunRecord
<1>3. CASE run'[j] = run[j]
  BY <1>1, <1>3 DEF WindowOf
<1>4. CASE run'[j].pc \notin {"state", "save"}
  BY <1>4 DEF WindowOf
<1>5. CASE FetchBars(j)
  BY <1>1, <1>2, <1>5 DEF FetchBars, WindowOf, TypeOK, RunRecord
<1>6. CASE Evaluate(j)
  BY <1>1, <1>6 DEF Evaluate, Evaluated, WindowOf, TypeOK, RunRecord
<1>7. CASE StartCron(j) \/ \E force, refresh \in BOOLEAN : StartManual(j, force, refresh)
  <2>1. run'[j].pc \in {"fetch", "script"}
    BY <1>7 DEF StartCron, StartManual, IdleRun, TypeOK
  <2> QED
    BY <1>4, <2>1
<1>8. CASE SkipPair(j) \/ FetchKlines(j) \/ MergeBars(j) \/ PutBars(j)
  <2>1. CASE SkipPair(j) \/ PutBars(j)
    BY <1>2, <1>4, <2>1 DEF SkipPair, PutBars, TypeOK
  <2>2. CASE FetchKlines(j)
    <3>1. run'[j] = NextPair(run[j]) \/ run'[j].pc = "merge"
      BY <1>1, <2>2 DEF FetchKlines, TypeOK, RunRecord
    <3> QED
      BY <1>2, <1>4, <3>1
  <2>3. CASE MergeBars(j)
    <3>1. run'[j].pc = "put"
      BY <1>1, <2>3 DEF MergeBars, TypeOK, RunRecord
    <3> QED
      BY <1>4, <3>1
  <2> QED
    BY <1>8, <2>1, <2>2, <2>3
<1>9. CASE SkipJob(j) \/ GetScript(j) \/ SkipNoNewBar(j) \/ SaveState(j)
  <2>1. run'[j].pc \notin {"state", "save"}
    BY <1>1, <1>2, <1>9 DEF SkipJob, GetScript, SkipNoNewBar, SaveState, TypeOK, RunRecord
  <2> QED
    BY <1>4, <2>1
<1>10. CASE PostOrder(j) \/ PostOrderFails(j)
  <2>1. PICK e \in run[j].events :
          run[j].pc = "orders" /\ run' = [run EXCEPT ![j].sent = @ \union {e}]
    BY <1>10 DEF PostOrder, PostOrderFails, IsNextOrder
  <2>2. run'[j].pc = "orders"
    BY <1>1, <2>1 DEF TypeOK, RunRecord
  <2> QED
    BY <1>4, <2>2
<1>11. CASE PostAlerts(j) \/ Abort(j)
  <2>1. run'[j].pc = "idle"
    BY <1>11 DEF PostAlerts, Abort, IdleRun, TypeOK
  <2> QED
    BY <1>4, <2>1
<1>12. CASE FeedFails(j) \/ FetchBarsFails(j) \/ EngineFails(j)
  <2>1. run'[j].pc \notin {"state", "save"}
    BY <1>2, <1>12 DEF FeedFails, FetchBarsFails, EngineFails, TypeOK
  <2> QED
    BY <1>4, <2>1
<1> QED
  BY <1>3, <1>5, <1>6, <1>7, <1>8, <1>9, <1>10, <1>11, <1>12, OneRunMoves
  DEF Progress, Failure

(* The type invariant, for any number of jobs, pairs and overlapping runs. *)
THEOREM TypeCorrect == Spec => []TypeOK
<1>1. Init => TypeOK /\ WindowOK
  BY InitType DEF Init, WindowOK, WindowOf, IdleRun
<1>2. TypeOK /\ WindowOK /\ [Next]_vars => (TypeOK /\ WindowOK)'
  BY TypeStep, WindowStep
<1> QED
  BY <1>1, <1>2, PTL DEF Spec

----------------------------------------------------------------------------
(* Which action writes what.                                               *)
LEMMA Writers ==
  ASSUME [Next]_vars
  PROVE  /\ closed' = closed \/ \E p \in Pairs : CloseBar(p)
         /\ stored' = stored \/ \E i \in Runs : PutBars(i)
         /\ \/ cronState' = cronState /\ persisted' = persisted
            \/ \E i \in Runs : SaveState(i)
         /\ accepted' = accepted \/ \E i \in Runs : PostOrder(i)
         /\ alerted' = alerted \/ \E i \in Runs : PostAlerts(i)
<1>1. CASE UNCHANGED vars
  BY <1>1 DEF vars
<1>2. CASE \E p \in Pairs : CloseBar(p)
  BY <1>2 DEF CloseBar
<1>3. CASE \E s \in Scripts : DeployScript(s) \/ DeleteScript(s)
  BY <1>3 DEF DeployScript, DeleteScript
<1>4. CASE \/ \E i \in CronRuns : StartCron(i)
           \/ \E i \in ManualRuns, force, refresh \in BOOLEAN :
                StartManual(i, force, refresh)
  BY <1>4 DEF StartCron, StartManual
<1>5. ASSUME NEW i \in Runs,
             \/ SkipPair(i) \/ FetchKlines(i) \/ MergeBars(i) \/ PutBars(i)
             \/ SkipJob(i) \/ GetScript(i) \/ FetchBars(i)
      PROVE  /\ UNCHANGED << closed, cronState, persisted, accepted, alerted >>
             /\ stored' = stored \/ PutBars(i)
  BY <1>5 DEF SkipPair, FetchKlines, MergeBars, PutBars, SkipJob, GetScript, FetchBars
<1>6. ASSUME NEW i \in Runs, SkipNoNewBar(i) \/ Evaluate(i) \/ SaveState(i)
      PROVE  /\ UNCHANGED << closed, stored, accepted, alerted >>
             /\ UNCHANGED << cronState, persisted >> \/ SaveState(i)
  BY <1>6 DEF SkipNoNewBar, Evaluate, SaveState
<1>7. ASSUME NEW i \in Runs, PostOrder(i) \/ PostAlerts(i)
      PROVE  /\ UNCHANGED << closed, stored, cronState, persisted >>
             /\ accepted' = accepted \/ PostOrder(i)
             /\ alerted' = alerted \/ PostAlerts(i)
  BY <1>7 DEF PostOrder, PostAlerts
<1>8. ASSUME NEW i \in Runs, Failure(i)
      PROVE  UNCHANGED << closed, stored, cronState, persisted, accepted, alerted >>
  BY <1>8 DEF Failure, Abort, FeedFails, FetchBarsFails, EngineFails, PostOrderFails
<1> QED
  BY <1>1, <1>2, <1>3, <1>4, <1>5, <1>6, <1>7, <1>8 DEF Next, Progress

----------------------------------------------------------------------------
(* No lookahead.  Beyond the property itself: whatever a run holds, bars   *)
(* it fetched, its last bar and the events it is about to post, is closed. *)

HoldsClosed(r, c) ==
  /\ \A b \in r.bars : b <= c[PairOf(r)]
  /\ r.last <= c[PairOf(r)]
  /\ \A e \in r.events : e.bar <= c[Jobs[e.job].pair]

LookOK == NoLookahead /\ \A i \in Runs : HoldsClosed(run[i], closed)

LEMMA ClosedGrows ==
  ASSUME TypeOK, [Next]_vars
  PROVE  \A p \in Pairs : closed[p] <= closed'[p] /\ closed[p] \in Nat /\ closed'[p] \in Nat
<1>1. CASE closed' = closed
  BY <1>1, BoundsAssumption DEF TypeOK
<1>2. CASE \E p \in Pairs : CloseBar(p)
  BY <1>2, BoundsAssumption DEF CloseBar, TypeOK
<1> QED
  BY <1>1, <1>2, Writers

(* The first conjunct of the step: what is shared.                         *)
LEMMA SharedLooks ==
  ASSUME TypeOK, WindowOK, LookOK, [Next]_vars
  PROVE  NoLookahead'
<1> USE DEF NoLookahead
<1>1. ASSUME NEW p \in Pairs, NEW b \in stored'[p] PROVE b <= closed'[p]
  <2>1. CASE stored' = stored
    <3>1. b \in Nat
      BY <2>1, BoundsAssumption DEF TypeOK, Bars
    <3> QED
      BY <2>1, <3>1, ClosedGrows DEF LookOK
  <2>2. CASE \E i \in Runs : PutBars(i)
    <3>1. PICK i \in Runs : PutBars(i)
      BY <2>2
    <3>2. b \in stored[p] \/ (p = PairOf(run[i]) /\ b \in run[i].bars)
      BY <3>1 DEF PutBars, TypeOK
    <3>3. b \in Nat
      BY <3>2, BoundsAssumption DEF TypeOK, RunRecord, Bars
    <3> QED
      BY <3>2, <3>3, ClosedGrows DEF LookOK, HoldsClosed
  <2> QED
    BY <2>1, <2>2, Writers
<1>2. ASSUME NEW n \in JobNumbers
      PROVE  cronState'[JobKey(n)] <= closed'[Jobs[n].pair]
  <2>1. Jobs[n].pair \in Pairs /\ JobKey(n) \in JobKeys /\ cronState[JobKey(n)] \in Nat
    BY JobFacts, BoundsAssumption DEF Job, TypeOK
  <2>2. CASE cronState' = cronState
    BY <2>1, <2>2, ClosedGrows DEF LookOK
  <2>3. CASE \E i \in Runs : SaveState(i)
    <3>1. PICK i \in Runs : SaveState(i)
      BY <2>3
    <3>2. /\ run[i].last <= closed[PairOf(run[i])]
          /\ run[i].last \in Nat /\ run[i].job \in JobNumbers
      BY BoundsAssumption DEF LookOK, HoldsClosed, TypeOK, RunRecord
    <3>3. CASE JobKey(run[i].job) = JobKey(n)
      <4>1. PairOf(run[i]) = Jobs[n].pair
        BY <3>3 DEF JobKey, PairOf
      <4>2. cronState'[JobKey(n)] = run[i].last
        BY <2>1, <3>1, <3>3 DEF SaveState, TypeOK
      <4> QED
        BY <2>1, <3>2, <4>1, <4>2, ClosedGrows
    <3>4. CASE JobKey(run[i].job) # JobKey(n)
      <4>1. cronState'[JobKey(n)] = cronState[JobKey(n)]
        BY <2>1, <3>1, <3>4 DEF SaveState, TypeOK
      <4> QED
        BY <2>1, <4>1, ClosedGrows DEF LookOK
    <3> QED
      BY <3>3, <3>4
  <2> QED
    BY <2>2, <2>3, Writers
<1>3. ASSUME NEW o \in accepted'
      PROVE  o.event.bar <= closed'[Jobs[o.event.job].pair]
  <2>1. o.event \in Event
    BY TypeStep DEF TypeOK, Order
  <2>2. o.event.bar \in Nat /\ Jobs[o.event.job].pair \in Pairs
    BY <2>1, JobFacts, BoundsAssumption DEF Event, Job, Bars
  <2>3. CASE o \in accepted
    BY <2>2, <2>3, ClosedGrows DEF LookOK
  <2>4. CASE \E i \in Runs : PostOrder(i) /\ o \notin accepted
    <3>1. PICK i \in Runs : PostOrder(i) /\ o \notin accepted
      BY <2>4
    <3>2. o.event \in run[i].events
      BY <3>1 DEF PostOrder, Execute
    <3> QED
      BY <2>2, <3>2, ClosedGrows DEF LookOK, HoldsClosed
  <2> QED
    BY <2>3, <2>4, Writers
<1> QED
  BY <1>1, <1>2, <1>3

(* What was closed stays closed.                                           *)
LEMMA StaysClosed ==
  ASSUME TypeOK, [Next]_vars, NEW r \in RunRecord, HoldsClosed(r, closed)
  PROVE  HoldsClosed(r, closed')
<1>1. PairOf(r) \in Pairs /\ r.last \in Nat /\ r.bars \subseteq Nat
  BY JobFacts, BoundsAssumption DEF PairOf, RunRecord, Job, Bars
<1>2. \A e \in r.events : e.bar \in Nat /\ Jobs[e.job].pair \in Pairs
  BY JobFacts, BoundsAssumption DEF RunRecord, Event, Job, Bars
<1> QED
  BY <1>1, <1>2, ClosedGrows DEF HoldsClosed

(* Moving on drops the bars and keeps the events.                          *)
LEMMA MovesOnClosed ==
  ASSUME TypeOK, NEW r \in RunRecord, HoldsClosed(r, closed)
  PROVE  /\ HoldsClosed(NextPair(r), closed)
         /\ HoldsClosed(NextJob(r), closed)
<1>1. \A p \in Pairs : 0 <= closed[p]
  BY BoundsAssumption DEF TypeOK
<1>2. NextPair(r) \in RunRecord /\ NextJob(r) \in RunRecord
  BY NextRunType
<1>3. PairOf(NextPair(r)) \in Pairs /\ PairOf(NextJob(r)) \in Pairs
  BY <1>2, JobFacts DEF PairOf, RunRecord, Job
<1>4. /\ NextPair(r).bars = {} /\ NextPair(r).last = 0 /\ NextPair(r).events = r.events
      /\ NextJob(r).bars = {} /\ NextJob(r).last = 0 /\ NextJob(r).events = r.events
  BY DEF NextPair, NextJob, FirstJob, RunRecord
<1> QED
  BY <1>1, <1>3, <1>4 DEF HoldsClosed

(* The second conjunct of the step: what a run holds.                      *)
LEMMA RunLooks ==
  ASSUME TypeOK, WindowOK, LookOK, [Next]_vars, NEW j \in Runs
  PROVE  HoldsClosed(run'[j], closed)
<1>1. run[j] \in RunRecord /\ HoldsClosed(run[j], closed)
  BY DEF TypeOK, LookOK
<1>2. HoldsClosed(NextPair(run[j]), closed) /\ HoldsClosed(NextJob(run[j]), closed)
  BY <1>1, MovesOnClosed
<1>3. run[j].job \in JobNumbers /\ PairOf(run[j]) \in Pairs
  BY <1>1, JobFacts DEF PairOf, RunRecord, Job
<1>4. HoldsClosed(IdleRun, closed)
  <2>1. PairOf(IdleRun) \in Pairs
    BY JobFacts DEF IdleRun, PairOf, Job
  <2> QED
    BY <2>1, BoundsAssumption DEF IdleRun, HoldsClosed, TypeOK
<1>5. ASSUME NEW r, run'[j] = r, r.bars = run[j].bars, r.last = run[j].last,
             r.events = run[j].events, r.job = run[j].job
      PROVE  HoldsClosed(run'[j], closed)
  BY <1>1, <1>5 DEF HoldsClosed, PairOf
<1>6. CASE run'[j] = run[j]
  BY <1>1, <1>6
<1>7. CASE StartCron(j) \/ \E force, refresh \in BOOLEAN : StartManual(j, force, refresh)
  <2> DEFINE AsIdle(r) == /\ r.bars = IdleRun.bars /\ r.last = IdleRun.last
                          /\ r.events = IdleRun.events /\ r.job = IdleRun.job
  <2>1. AsIdle(run'[j])
    <3>1. CASE StartCron(j)
      <4>1. AsIdle([IdleRun EXCEPT !.pc = "fetch"])
        BY DEF IdleRun
      <4> QED
        BY <3>1, <4>1 DEF StartCron, TypeOK
    <3>2. ASSUME NEW force \in BOOLEAN, NEW refresh \in BOOLEAN,
                 StartManual(j, force, refresh)
          PROVE  AsIdle(run'[j])
      <4>1. AsIdle([IdleRun EXCEPT !.pc = IF refresh THEN "fetch" ELSE "script",
                                   !.force = force])
        BY DEF IdleRun
      <4> QED
        BY <3>2, <4>1 DEF StartManual, TypeOK
    <3> QED
      BY <1>7, <3>1, <3>2
  <2> QED
    BY <1>4, <2>1 DEF HoldsClosed, PairOf
<1>8. CASE SkipPair(j) \/ PutBars(j) \/ FeedFails(j)
  BY <1>2, <1>8 DEF SkipPair, PutBars, FeedFails, TypeOK
<1>9. CASE FetchKlines(j)
  <2>1. CASE ClosedKlines(PairOf(run[j])) = {}
    BY <1>2, <1>9, <2>1 DEF FetchKlines, TypeOK
  <2>2. CASE ClosedKlines(PairOf(run[j])) # {}
    <3>1. /\ run'[j].bars = ClosedKlines(PairOf(run[j]))
          /\ run'[j].last = run[j].last /\ run'[j].events = run[j].events
          /\ run'[j].job = run[j].job
      BY <1>1, <1>9, <2>2 DEF FetchKlines, TypeOK, RunRecord
    <3> QED
      BY <1>1, <3>1 DEF HoldsClosed, PairOf, ClosedKlines
  <2> QED
    BY <2>1, <2>2
<1>10. CASE MergeBars(j)
  <2>1. /\ run'[j].bars = run[j].bars \union stored[PairOf(run[j])]
        /\ run'[j].last = run[j].last /\ run'[j].events = run[j].events
        /\ run'[j].job = run[j].job
    BY <1>1, <1>10 DEF MergeBars, TypeOK, RunRecord
  <2> QED
    BY <1>1, <1>3, <2>1 DEF HoldsClosed, PairOf, LookOK, NoLookahead
<1>11. CASE \/ SkipJob(j) \/ FetchBarsFails(j) \/ SkipNoNewBar(j) \/ EngineFails(j)
  BY <1>2, <1>11 DEF SkipJob, FetchBarsFails, SkipNoNewBar, EngineFails, TypeOK
<1>12. CASE GetScript(j)
  <2>1. /\ run'[j].bars = run[j].bars /\ run'[j].last = run[j].last
        /\ run'[j].events = run[j].events /\ run'[j].job = run[j].job
    BY <1>1, <1>12 DEF GetScript, TypeOK, RunRecord
  <2> QED
    BY <1>5, <2>1
<1>13. CASE FetchBars(j)
  <2>1. CASE run'[j] = NextJob(run[j])
    BY <1>2, <2>1
  <2>2. CASE \E last \in LastBars(stored[PairOf(run[j])], Jobs[run[j].job].maxBars) :
               run' = [run EXCEPT ![j].pc = "state",
                         ![j].bars = LastBars(stored[PairOf(run[j])],
                                              Jobs[run[j].job].maxBars),
                         ![j].last = last]
    <3>1. /\ run'[j].bars \subseteq stored[PairOf(run[j])]
          /\ run'[j].last \in stored[PairOf(run[j])]
          /\ run'[j].events = run[j].events /\ run'[j].job = run[j].job
      <4> DEFINE window == LastBars(stored[PairOf(run[j])], Jobs[run[j].job].maxBars)
      <4>1. PICK last \in window :
              run' = [run EXCEPT ![j].pc = "state", ![j].bars = window,
                                 ![j].last = last]
        BY <2>2
      <4>2. window \subseteq stored[PairOf(run[j])]
        BY DEF LastBars
      <4> HIDE DEF window
      <4> QED
        BY <1>1, <4>1, <4>2 DEF TypeOK, RunRecord
    <3> QED
      BY <1>1, <1>3, <3>1 DEF HoldsClosed, PairOf, LookOK, NoLookahead
  <2> QED
    BY <1>13, <2>1, <2>2 DEF FetchBars, TypeOK
<1>14. CASE Evaluate(j)
  <2>1. /\ run'[j].bars = run[j].bars /\ run'[j].last = run[j].last
        /\ run'[j].events = run[j].events \union EventsOf(run[j].job, run[j].bars)
        /\ run'[j].job = run[j].job
    BY <1>1, <1>14 DEF Evaluate, Evaluated, TypeOK, RunRecord
  <2>2. \A e \in EventsOf(run[j].job, run[j].bars) :
          e.job = run[j].job /\ e.bar \in run[j].bars
    BY <1>1, <1>3, EmissionType DEF RunRecord
  <2> QED
    BY <1>1, <2>1, <2>2 DEF HoldsClosed, PairOf
<1>15. CASE SaveState(j)
  <2> DEFINE r == [run[j] EXCEPT !.alerts = @ \union AlertsOf(run[j].job, run[j].last)]
  <2>1. r \in RunRecord
    BY <1>1, <1>3, EmissionType DEF RunRecord
  <2>2. HoldsClosed(r, closed)
    BY <1>1 DEF HoldsClosed, PairOf, RunRecord
  <2>3. run'[j] = NextJob(r)
    BY <1>15 DEF SaveState, Saved, TypeOK
  <2> HIDE DEF r
  <2> QED
    BY <2>1, <2>2, <2>3, MovesOnClosed
<1>16. CASE PostOrder(j) \/ PostOrderFails(j)
  <2>1. PICK e \in run[j].events : run' = [run EXCEPT ![j].sent = @ \union {e}]
    BY <1>16 DEF PostOrder, PostOrderFails
  <2>2. /\ run'[j].bars = run[j].bars /\ run'[j].last = run[j].last
        /\ run'[j].events = run[j].events /\ run'[j].job = run[j].job
    BY <1>1, <2>1 DEF TypeOK, RunRecord
  <2> QED
    BY <1>5, <2>2
<1>17. CASE PostAlerts(j) \/ Abort(j)
  BY <1>4, <1>17 DEF PostAlerts, Abort, TypeOK
<1> QED
  BY <1>6, <1>7, <1>8, <1>9, <1>10, <1>11, <1>12, <1>13, <1>14, <1>15, <1>16, <1>17,
     OneRunMoves DEF Progress, Failure

LEMMA LookStep == TypeOK /\ WindowOK /\ LookOK /\ [Next]_vars => LookOK'
<1> SUFFICES ASSUME TypeOK, WindowOK, LookOK, [Next]_vars PROVE LookOK'
  OBVIOUS
<1>1. ASSUME NEW j \in Runs PROVE HoldsClosed(run'[j], closed')
  <2>1. run'[j] \in RunRecord
    BY TypeStep DEF TypeOK
  <2> QED
    BY <2>1, RunLooks, StaysClosed
<1> QED
  BY <1>1, SharedLooks DEF LookOK, HoldsClosed, PairOf

LEMMA InitLooks == Init => TypeOK /\ WindowOK /\ LookOK
<1> SUFFICES ASSUME Init PROVE TypeOK /\ WindowOK /\ LookOK
  OBVIOUS
<1>1. TypeOK
  BY InitType
<1>2. WindowOK
  BY DEF Init, WindowOK, WindowOf, IdleRun
<1>3. NoLookahead
  BY JobFacts DEF Init, NoLookahead, Job
<1>4. PairOf(IdleRun) \in Pairs
  BY JobFacts DEF IdleRun, PairOf, Job
<1> QED
  BY <1>1, <1>2, <1>3, <1>4 DEF LookOK, Init, HoldsClosed, IdleRun

(* No order is executed, no bar stored and no state recorded for a candle  *)
(* that has not closed, for any number of overlapping runs.                *)
THEOREM NeverLooksAhead == Spec => []NoLookahead
<1>1. TypeOK /\ WindowOK /\ LookOK /\ [Next]_vars => (TypeOK /\ WindowOK /\ LookOK)'
  BY TypeStep, WindowStep, LookStep
<1>2. LookOK => NoLookahead
  BY DEF LookOK
<1> QED
  BY <1>1, <1>2, InitLooks, PTL DEF Spec

----------------------------------------------------------------------------
(* State before forwarding.  Beyond the property itself: every event a run *)
(* collected is covered by a recorded bar, except those of the evaluation  *)
(* whose state it is about to save; every alert it holds is recorded.      *)

Recorded(e, h) == \E b \in h[JobKey(e.job)] : e.bar <= b

AllRecorded(r, h) ==
  /\ \A e \in r.events : Recorded(e, h)
  /\ \A a \in r.alerts : a[2] \in h[a[1]]

AccountedFor(r, h) ==
  /\ \A e \in r.events :
       Recorded(e, h) \/ (r.pc = "save" /\ e.job = r.job /\ e.bar <= r.last)
  /\ \A a \in r.alerts : a[2] \in h[a[1]]

SaveOK == ForwardedAfterSave /\ \A i \in Runs : AccountedFor(run[i], persisted)

(* The history only grows.                                                 *)
LEMMA HistoryGrows ==
  ASSUME TypeOK, [Next]_vars
  PROVE  \A k \in JobKeys : persisted[k] \subseteq persisted'[k]
<1>1. ASSUME NEW i \in Runs, SaveState(i)
      PROVE  \A k \in JobKeys : persisted[k] \subseteq persisted'[k]
  BY <1>1 DEF SaveState, TypeOK
<1> QED
  BY <1>1, Writers

(* The shared part of the step.                                            *)
LEMMA SharedSaves ==
  ASSUME TypeOK, SaveOK, [Next]_vars
  PROVE  ForwardedAfterSave'
<1>1. ASSUME NEW o \in accepted'
      PROVE  \E b \in persisted'[JobKey(o.event.job)] : o.event.bar <= b
  <2>1. o.event.job \in JobNumbers
    <3>1. CASE o \in accepted
      BY <3>1 DEF TypeOK, Order, Event
    <3>2. CASE \E i \in Runs : PostOrder(i) /\ o \notin accepted
      BY <3>2 DEF PostOrder, Execute, TypeOK, RunRecord, Event
    <3> QED
      BY <3>1, <3>2, Writers
  <2>2. JobKey(o.event.job) \in JobKeys
    BY <2>1, JobFacts
  <2>3. CASE o \in accepted
    BY <2>2, <2>3, HistoryGrows DEF SaveOK, ForwardedAfterSave
  <2>4. CASE \E i \in Runs : PostOrder(i) /\ o \notin accepted
    <3>1. PICK i \in Runs : PostOrder(i) /\ o \notin accepted
      BY <2>4
    <3>2. o.event \in run[i].events /\ run[i].pc = "orders"
      BY <3>1 DEF PostOrder, IsNextOrder, Execute
    <3>3. Recorded(o.event, persisted)
      BY <3>2 DEF SaveOK, AccountedFor
    <3> QED
      BY <2>2, <3>3, HistoryGrows DEF Recorded
  <2> QED
    BY <2>3, <2>4, Writers
<1>2. ASSUME NEW a \in JobKeys \X Bars, alerted'[a] > 0
      PROVE  a[2] \in persisted'[a[1]]
  <2>1. alerted[a] > 0 \/ \E i \in Runs : a \in run[i].alerts
    <3>1. CASE alerted' = alerted
      BY <1>2, <3>1
    <3>2. ASSUME NEW i \in Runs, PostAlerts(i), a \notin run[i].alerts
          PROVE  alerted[a] > 0
      BY <1>2, <3>2 DEF PostAlerts, TypeOK
    <3> QED
      BY <3>1, <3>2, Writers
  <2>2. a[2] \in persisted[a[1]]
    BY <2>1 DEF SaveOK, ForwardedAfterSave, AccountedFor
  <2> QED
    BY <2>2, HistoryGrows
<1> QED
  BY <1>1, <1>2 DEF ForwardedAfterSave

(* Moving on keeps what the run collected.                                 *)
LEMMA MovesOnRecorded ==
  ASSUME NEW r \in RunRecord, NEW h, AllRecorded(r, h)
  PROVE  AccountedFor(NextPair(r), h) /\ AccountedFor(NextJob(r), h)
<1>1. /\ NextPair(r).events = r.events /\ NextPair(r).alerts = r.alerts
      /\ NextJob(r).events = r.events /\ NextJob(r).alerts = r.alerts
  BY DEF NextPair, NextJob, FirstJob, RunRecord
<1> QED
  BY <1>1 DEF AllRecorded, AccountedFor

LEMMA RunSaves ==
  ASSUME TypeOK, WindowOK, SaveOK, [Next]_vars, NEW j \in Runs
  PROVE  AccountedFor(run'[j], persisted')
<1>1. run[j] \in RunRecord /\ AccountedFor(run[j], persisted)
  BY DEF TypeOK, SaveOK
<1>2. /\ run[j].job \in JobNumbers /\ JobKey(run[j].job) \in JobKeys
      /\ \A e \in run[j].events : JobKey(e.job) \in JobKeys
      /\ \A a \in run[j].alerts : a[1] \in JobKeys
  BY <1>1, JobFacts DEF RunRecord, Event
<1>3. AccountedFor(run[j], persisted')
  BY <1>1, <1>2, HistoryGrows DEF AccountedFor, Recorded
<1>4. run[j].pc # "save" => AllRecorded(run[j], persisted')
  BY <1>3 DEF AccountedFor, AllRecorded
<1>5. run[j].pc # "save" => /\ AccountedFor(NextPair(run[j]), persisted')
                            /\ AccountedFor(NextJob(run[j]), persisted')
  BY <1>1, <1>4, MovesOnRecorded
<1>6. CASE run'[j] = run[j]
  BY <1>3, <1>6
<1>7. ASSUME run'[j].events = {}, run'[j].alerts = {}
      PROVE  AccountedFor(run'[j], persisted')
  BY <1>7 DEF AccountedFor
<1>8. ASSUME run[j].pc # "save", run'[j].events = run[j].events,
             run'[j].alerts = run[j].alerts
      PROVE  AccountedFor(run'[j], persisted')
  BY <1>4, <1>8 DEF AllRecorded, AccountedFor
<1>9. CASE StartCron(j) \/ \E force, refresh \in BOOLEAN : StartManual(j, force, refresh)
  <2>1. CASE StartCron(j)
    <3>1. [IdleRun EXCEPT !.pc = "fetch"].events = {}
          /\ [IdleRun EXCEPT !.pc = "fetch"].alerts = {}
      BY DEF IdleRun
    <3> QED
      BY <1>7, <2>1, <3>1 DEF StartCron, TypeOK
  <2>2. ASSUME NEW force \in BOOLEAN, NEW refresh \in BOOLEAN,
               StartManual(j, force, refresh)
        PROVE  AccountedFor(run'[j], persisted')
    <3> DEFINE r == [IdleRun EXCEPT !.pc = IF refresh THEN "fetch" ELSE "script",
                                    !.force = force]
    <3>1. r.events = {} /\ r.alerts = {}
      BY DEF IdleRun
    <3>2. run'[j] = r
      BY <2>2 DEF StartManual, TypeOK
    <3> QED
      BY <1>7, <3>1, <3>2
  <2> QED
    BY <1>9, <2>1, <2>2
<1>10. CASE PostAlerts(j) \/ Abort(j)
  <2>1. run'[j] = IdleRun
    BY <1>10 DEF PostAlerts, Abort, TypeOK
  <2> QED
    BY <1>7, <2>1 DEF IdleRun
<1>11. CASE SkipPair(j) \/ PutBars(j) \/ FeedFails(j)
  <2>1. run'[j] = NextPair(run[j]) /\ run[j].pc # "save"
    BY <1>11 DEF SkipPair, PutBars, FeedFails, TypeOK
  <2> QED
    BY <1>5, <2>1
<1>12. CASE SkipJob(j) \/ FetchBarsFails(j) \/ SkipNoNewBar(j) \/ EngineFails(j)
  <2>1. run'[j] = NextJob(run[j]) /\ run[j].pc # "save"
    BY <1>12 DEF SkipJob, FetchBarsFails, SkipNoNewBar, EngineFails, TypeOK
  <2> QED
    BY <1>5, <2>1
<1>13. CASE FetchKlines(j)
  <2>1. CASE run'[j] = NextPair(run[j])
    BY <1>5, <1>13, <2>1 DEF FetchKlines
  <2>2. CASE run'[j] = [run[j] EXCEPT !.pc = "merge",
                                      !.bars = ClosedKlines(PairOf(run[j]))]
    <3>1. run'[j].events = run[j].events /\ run'[j].alerts = run[j].alerts
      BY <1>1, <2>2 DEF RunRecord
    <3> QED
      BY <1>8, <1>13, <3>1 DEF FetchKlines
  <2> QED
    BY <1>13, <2>1, <2>2 DEF FetchKlines, TypeOK
<1>14. CASE MergeBars(j)
  <2>1. run'[j].events = run[j].events /\ run'[j].alerts = run[j].alerts
    BY <1>1, <1>14 DEF MergeBars, TypeOK, RunRecord
  <2> QED
    BY <1>8, <1>14, <2>1 DEF MergeBars
<1>15. CASE GetScript(j)
  <2>1. run'[j].events = run[j].events /\ run'[j].alerts = run[j].alerts
    BY <1>1, <1>15 DEF GetScript, TypeOK, RunRecord
  <2> QED
    BY <1>8, <1>15, <2>1 DEF GetScript
<1>16. CASE FetchBars(j)
  <2> DEFINE window == LastBars(stored[PairOf(run[j])], Jobs[run[j].job].maxBars)
  <2>1. CASE run' = [run EXCEPT ![j] = NextJob(@)]
    BY <1>5, <1>16, <2>1 DEF FetchBars, TypeOK
  <2>2. ASSUME NEW last \in window,
               run' = [run EXCEPT ![j].pc = "state", ![j].bars = window,
                                  ![j].last = last]
        PROVE  AccountedFor(run'[j], persisted')
    <3> HIDE DEF window
    <3>1. run'[j].events = run[j].events /\ run'[j].alerts = run[j].alerts
      BY <1>1, <2>2 DEF TypeOK, RunRecord
    <3> QED
      BY <1>8, <1>16, <3>1 DEF FetchBars
  <2> QED
    BY <1>16, <2>1, <2>2 DEF FetchBars
<1>17. CASE Evaluate(j)
  <2>1. /\ run'[j].pc = "save" /\ run'[j].job = run[j].job
        /\ run'[j].last = run[j].last /\ run'[j].alerts = run[j].alerts
        /\ run'[j].events = run[j].events \union EventsOf(run[j].job, run[j].bars)
    BY <1>1, <1>17 DEF Evaluate, Evaluated, TypeOK, RunRecord
  <2>2. \A e \in EventsOf(run[j].job, run[j].bars) :
          e.job = run[j].job /\ e.bar \in run[j].bars
    BY <1>1, <1>2, EmissionType DEF RunRecord
  <2>3. run[j].pc = "state" /\ \A b \in run[j].bars : b <= run[j].last
    BY <1>17 DEF Evaluate, WindowOK, WindowOf
  <2> QED
    BY <1>4, <2>1, <2>2, <2>3 DEF AllRecorded, AccountedFor
<1>18. CASE SaveState(j)
  <2> DEFINE r == [run[j] EXCEPT !.alerts = @ \union AlertsOf(run[j].job, run[j].last)]
  <2>1. run[j].last \in persisted'[JobKey(run[j].job)]
    BY <1>2, <1>18 DEF SaveState, TypeOK
  <2>2. /\ AlertsOf(run[j].job, run[j].last) \subseteq JobKeys \X Bars
        /\ \A a \in AlertsOf(run[j].job, run[j].last) :
             a[1] = JobKey(run[j].job) /\ a[2] = run[j].last
    BY <1>2, <1>1, EmissionType DEF RunRecord
  <2>3. /\ r \in RunRecord /\ r.events = run[j].events
        /\ r.alerts = run[j].alerts \union AlertsOf(run[j].job, run[j].last)
    BY <1>1, <2>2 DEF RunRecord
  <2>4. run'[j] = NextJob(r)
    BY <1>18 DEF SaveState, Saved, TypeOK
  <2> HIDE DEF r
  <2>5. AllRecorded(r, persisted')
    BY <1>3, <2>1, <2>2, <2>3 DEF AllRecorded, AccountedFor, Recorded
  <2> QED
    BY <2>3, <2>4, <2>5, MovesOnRecorded
<1>19. CASE PostOrder(j) \/ PostOrderFails(j)
  <2>1. PICK e \in run[j].events :
          run[j].pc = "orders" /\ run' = [run EXCEPT ![j].sent = @ \union {e}]
    BY <1>19 DEF PostOrder, PostOrderFails, IsNextOrder
  <2>2. run'[j].events = run[j].events /\ run'[j].alerts = run[j].alerts
    BY <1>1, <2>1 DEF TypeOK, RunRecord
  <2> QED
    BY <1>8, <2>1, <2>2
<1> QED
  BY <1>6, <1>9, <1>10, <1>11, <1>12, <1>13, <1>14, <1>15, <1>16, <1>17, <1>18,
     <1>19, OneRunMoves DEF Progress, Failure

LEMMA SaveStep == TypeOK /\ WindowOK /\ SaveOK /\ [Next]_vars => SaveOK'
  BY RunSaves, SharedSaves DEF SaveOK, AccountedFor, Recorded

(* put_cron_state comes before any order or alert it stands for, whatever  *)
(* runs overlap, fail or are killed in between.                            *)
THEOREM SavesBeforeForwarding == Spec => []ForwardedAfterSave
<1>1. Init => TypeOK /\ WindowOK /\ SaveOK
  <2>1. Init => ForwardedAfterSave
    BY DEF Init, ForwardedAfterSave
  <2> QED
    BY <2>1, InitLooks DEF Init, SaveOK, AccountedFor, IdleRun
<1>2. TypeOK /\ WindowOK /\ SaveOK /\ [Next]_vars => (TypeOK /\ WindowOK /\ SaveOK)'
  BY TypeStep, WindowStep, SaveStep
<1>3. SaveOK => ForwardedAfterSave
  BY DEF SaveOK
<1> QED
  BY <1>1, <1>2, <1>3, PTL DEF Spec

=============================================================================
