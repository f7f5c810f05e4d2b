-------------------------- MODULE CrawlQueueProofs --------------------------
(***************************************************************************)
(* Proofs of the safety properties of CrawlQueue, for every number of      *)
(* Machines, workers, crawlers, releases and stock items, and every bound. *)
(***************************************************************************)
EXTENDS CrawlQueue, TLAPS

(* Facts about rows. *)

LEMMA RowTypes ==
    /\ Absent \in Row
    /\ \A cs \in SUBSET Crawler : Requested(cs) \in Row
    /\ \A row \in Row : HandBack(row) \in Row
    /\ \A row \in Row, cs \in SUBSET Crawler :
          /\ [row EXCEPT !.pending = cs] \in Row
          /\ [row EXCEPT !.pending = cs, !.due = TRUE] \in Row
BY DEF Absent, Requested, HandBack, Row, Status

LEMMA MachineOfWorker == ASSUME NEW w \in Worker PROVE MachineOf(w) \in Machine
BY DEF Worker, MachineOf

LEMMA SweptType ==
    ASSUME NEW q \in [Target -> Row], NEW d \in [Target -> SUBSET Crawler], NEW live
    PROVE  /\ Swept(q, live) \in [Target -> Row]
           /\ SweptDebt(d, q, live) \in [Target -> SUBSET Crawler]
BY RowTypes DEF Swept, SweptDebt

LEMMA BackfilledType ==
    ASSUME TypeOK, NEW c \in Crawler, NEW locked
    PROVE  /\ Backfilled(c, locked) \in [Target -> Row]
           /\ BackfilledDebt(c, locked) \in [Target -> SUBSET Crawler]
<1>1. ASSUME NEW t \in Target
      PROVE  /\ Requested({c}) \in Row
             /\ [queue[t] EXCEPT !.pending = @ \cup {c}, !.due = TRUE] \in Row
             /\ queue[t] \in Row
             /\ debt[t] \cup {c} \in SUBSET Crawler
  <2>1. queue[t] \in Row /\ debt[t] \in SUBSET Crawler
    BY <1>1 DEF TypeOK, TablesType, HistoryType
  <2>2. queue[t].pending \cup {c} \in SUBSET Crawler
    BY <2>1 DEF Row
  <2>3. [queue[t] EXCEPT !.pending = queue[t].pending \cup {c}, !.due = TRUE] \in Row
    BY <2>1, <2>2, RowTypes, Zenon
  <2> QED BY <2>1, <2>3, RowTypes
<1> QED BY <1>1 DEF Backfilled, BackfilledDebt, TypeOK, HistoryType

-----------------------------------------------------------------------------
(* Type correctness. *)

LEMMA TypeInit == Init => TypeOK
<1> SUFFICES ASSUME Init PROVE TypeOK
  OBVIOUS
<1>1. TablesType
  BY RowTypes DEF Init, TablesType
<1>2. ProcessType /\ LocalType
  BY DEF Init, ProcessType, LocalType
<1>3. HistoryType /\ BoundsType
  BY QueueAssumption DEF Init, HistoryType, BoundsType
<1> QED BY <1>1, <1>2, <1>3 DEF TypeOK

\* What an action leaves alone keeps its type.
LEMMA TypeFrame ==
    /\ ProcessType /\ UNCHANGED process => ProcessType'
    /\ LocalType /\ UNCHANGED local => LocalType'
    /\ TablesType /\ UNCHANGED tables => TablesType'
    /\ HistoryType /\ UNCHANGED history => HistoryType'
    /\ BoundsType /\ UNCHANGED bounds => BoundsType'
    /\ BoundsType /\ Request /\ UNCHANGED <<stops, overruns, faults>> => BoundsType'
    /\ BoundsType /\ Fault => BoundsType'
<1>1. ProcessType /\ UNCHANGED process => ProcessType'
  BY DEF ProcessType, process
<1>2. LocalType /\ UNCHANGED local => LocalType'
  BY DEF LocalType, local
<1>3. TablesType /\ UNCHANGED tables => TablesType'
  BY DEF TablesType, tables
<1>4. HistoryType /\ UNCHANGED history => HistoryType'
  BY DEF HistoryType, history
<1>5. BoundsType /\ UNCHANGED bounds => BoundsType'
  BY DEF BoundsType, bounds
<1>6. BoundsType /\ Request /\ UNCHANGED <<stops, overruns, faults>> => BoundsType'
  BY QueueAssumption DEF BoundsType, Request
<1>7. BoundsType /\ Fault => BoundsType'
  BY QueueAssumption DEF BoundsType, Fault
<1> QED BY <1>1, <1>2, <1>3, <1>4, <1>5, <1>6, <1>7

LEMMA TypeRequests == TypeOK /\ Requests => TypeOK'
<1> SUFFICES ASSUME TypeOK, Requests PROVE TypeOK'
  OBVIOUS
<1>1. ASSUME NEW t \in Target, Enqueue(t) PROVE TypeOK'
  <2>1. TablesType' /\ HistoryType'
    BY <1>1, RowTypes DEF Enqueue, TypeOK, TablesType, HistoryType, history, Target
  <2>2. LocalType' /\ ProcessType' /\ BoundsType'
    BY <1>1, TypeFrame DEF Enqueue, TypeOK, bounds
  <2> QED BY <2>1, <2>2 DEF TypeOK
<1>2. ASSUME NEW i \in Item, SaveStockItem(i) PROVE TypeOK'
  <2>1. TablesType' /\ HistoryType'
    BY <1>2, RowTypes DEF SaveStockItem, TypeOK, TablesType, HistoryType, history, Target
  <2>2. LocalType' /\ ProcessType' /\ BoundsType'
    BY <1>2, TypeFrame DEF SaveStockItem, TypeOK, bounds
  <2> QED BY <2>1, <2>2 DEF TypeOK
<1>3. ASSUME NEW i \in Item, StockChanges(i) PROVE TypeOK'
  <2>1. TablesType' /\ HistoryType'
    BY <1>3 DEF StockChanges, TypeOK, TablesType, HistoryType, history, Target
  <2>2. LocalType' /\ ProcessType' /\ BoundsType'
    BY <1>3, TypeFrame DEF StockChanges, TypeOK, bounds
  <2> QED BY <2>1, <2>2 DEF TypeOK
<1>4. ASSUME NEW c \in Crawler, EnableCrawler(c) PROVE TypeOK'
  <2>1. TablesType' /\ HistoryType'
    BY <1>4 DEF EnableCrawler, TypeOK, TablesType, HistoryType, history, Target
  <2>2. LocalType' /\ ProcessType' /\ BoundsType'
    BY <1>4, TypeFrame DEF EnableCrawler, TypeOK, bounds
  <2> QED BY <2>1, <2>2 DEF TypeOK
<1>5. ASSUME NEW c \in Crawler, DisableCrawler(c) PROVE TypeOK'
  <2>1. TablesType' /\ HistoryType'
    BY <1>5, SweptType DEF DisableCrawler, TypeOK, TablesType, HistoryType, history, Target
  <2>2. LocalType' /\ ProcessType' /\ BoundsType'
    BY <1>5, TypeFrame DEF DisableCrawler, TypeOK, bounds
  <2> QED BY <2>1, <2>2 DEF TypeOK
<1>6. ASSUME NEW c \in Crawler, ConvertToCatalog(c) PROVE TypeOK'
  <2>1. TablesType' /\ HistoryType'
    BY <1>6, SweptType DEF ConvertToCatalog, TypeOK, TablesType, HistoryType, history, Target
  <2>2. LocalType' /\ ProcessType' /\ BoundsType'
    BY <1>6, TypeFrame DEF ConvertToCatalog, TypeOK, bounds
  <2> QED BY <2>1, <2>2 DEF TypeOK
<1>7. ASSUME NEW c \in Crawler, NEW locked \in SUBSET Target, Backfill(c, locked) PROVE TypeOK'
  <2>1. TablesType' /\ HistoryType'
    BY <1>7, SweptType, BackfilledType DEF Backfill, TypeOK, TablesType, HistoryType, history, Target
  <2>2. LocalType' /\ ProcessType' /\ BoundsType'
    BY <1>7, TypeFrame DEF Backfill, TypeOK, bounds
  <2> QED BY <2>1, <2>2 DEF TypeOK
<1>8. ASSUME NEW c \in Crawler, NEW locked \in SUBSET Target, NEW unlisted \in SUBSET Item,
             ConvertToRelease(c, locked, unlisted) PROVE TypeOK'
  <2>1. TablesType' /\ HistoryType'
    BY <1>8, SweptType, BackfilledType DEF ConvertToRelease, TypeOK, TablesType, HistoryType, history, Target
  <2>2. LocalType' /\ ProcessType' /\ BoundsType'
    BY <1>8, TypeFrame DEF ConvertToRelease, TypeOK, bounds
  <2> QED BY <2>1, <2>2 DEF TypeOK
<1>9. ASSUME NEW c \in Crawler, BackfillSkipped(c) PROVE TypeOK'
  <2>1. TablesType' /\ HistoryType'
    BY <1>9 DEF BackfillSkipped, TypeOK, TablesType, HistoryType, history, Target
  <2>2. LocalType' /\ ProcessType' /\ BoundsType'
    BY <1>9, TypeFrame DEF BackfillSkipped, TypeOK, bounds
  <2> QED BY <2>1, <2>2 DEF TypeOK
<1>10. ASSUME SweepDeadRows PROVE TypeOK'
  <2>1. TablesType' /\ HistoryType'
    BY <1>10, SweptType DEF SweepDeadRows, TypeOK, TablesType, HistoryType, history, Target
  <2>2. LocalType' /\ ProcessType' /\ BoundsType'
    BY <1>10, TypeFrame DEF SweepDeadRows, TypeOK, bounds
  <2> QED BY <2>1, <2>2 DEF TypeOK
<1> QED BY <1>1, <1>2, <1>3, <1>4, <1>5, <1>6, <1>7, <1>8, <1>9, <1>10 DEF Requests

LEMMA ResolvedType ==
    ASSUME NEW row \in Row, NEW m, NEW put_off \in SUBSET Crawler
    PROVE  Resolved(row, m, put_off) \in Row
BY DEF Resolved, Row, Status

\* The rows a claim starts from, once the stranded ones are handed back.
LEMMA WaitingType ==
    ASSUME TablesType, NEW S
    PROVE  [t \in Target |-> IF t \in S THEN HandBack(queue[t]) ELSE queue[t]] \in [Target -> Row]
BY RowTypes DEF TablesType

LEMMA EligibleType == ASSUME NEW t, NEW cs \in SUBSET Crawler PROVE Eligible(t, cs) \subseteq cs
BY DEF Eligible

\* A worker that searches or writes has a row and a crawler.
LEMMA UnitInHand ==
    ASSUME LocalType, BatchShape, NEW w \in Worker, pc[w] \in {"searching", "writing"}
    PROVE  /\ current[w] \in Target /\ current[w] \in todo[w]
           /\ unit[w] \in Crawler /\ unit[w] \in units[w][current[w]]
BY DEF LocalType, BatchShape

LEMMA RowDoneType ==
    ASSUME LocalType, NEW w \in Worker, NEW t \in Target, RowDone(w, t),
           UNCHANGED <<claimed, snapshot>>
    PROVE  LocalType'
BY DEF RowDone, LocalType

LEMMA UnitDoneType ==
    ASSUME LocalType, NEW w \in Worker, NEW t \in Target, NEW c, UnitDone(w, t, c),
           UNCHANGED <<claimed, snapshot, todo, deferred>>
    PROVE  LocalType'
BY DEF UnitDone, LocalType

LEMMA TypeDrain == ASSUME TypeOK, NEW w \in Worker, Drain(w), BatchShape PROVE TypeOK'
<1>0. MachineOf(w) \in Machine
  BY MachineOfWorker
<1> USE DEF TypeOK
<1>1. ASSUME NEW batch \in SUBSET Target, Claim(w, batch) PROVE TypeOK'
  <2>1. TablesType' /\ HistoryType'
    <3> DEFINE waiting == [t \in Target |-> IF t \in Reclaimable THEN HandBack(queue[t]) ELSE queue[t]]
    <3>1. waiting \in [Target -> Row]
      BY WaitingType
    <3>2. \A row \in Row : [row EXCEPT !.status = "in_progress", !.claimed_by = WorkerId(w)] \in Row
      BY DEF Row, Status, WorkerId
    <3>3. queue' = [t \in Target |-> IF t \in batch
                        THEN [waiting[t] EXCEPT !.status = "in_progress", !.claimed_by = WorkerId(w)]
                        ELSE waiting[t]]
      BY <1>1 DEF Claim
    <3>4. queue' \in [Target -> Row]
      <4> HIDE DEF waiting
      <4> QED BY <3>1, <3>2, <3>3
    <3>5. superseded' \subseteq Worker \X Target
      BY <1>1 DEF Claim, HistoryType
    <3> QED BY <3>4, <3>5, <1>1 DEF Claim, TablesType, HistoryType
  <2>2. LocalType'
    <3>1. [t \in Target |-> IF t \in batch THEN queue[t].pending ELSE {}] \in [Target -> SUBSET Crawler]
      BY <1>1 DEF TablesType, Row
    <3> QED BY <3>1, <1>1 DEF Claim, LocalType
  <2>3. ProcessType'
    BY <1>1, TypeFrame DEF Claim
  <2>4. BoundsType'
    BY <1>1, TypeFrame DEF Claim, bounds
  <2> QED BY <2>1, <2>2, <2>3, <2>4
<1>2. ASSUME RevertClaim(w) PROVE TypeOK'
  <2>1. TablesType' /\ HistoryType'
    <3>1. queue' \in [Target -> Row]
      BY <1>2, RowTypes DEF RevertClaim, Reverted, TablesType
    <3> QED BY <1>2, <3>1 DEF RevertClaim, TablesType, HistoryType
  <2>2. LocalType'
    BY <1>2 DEF RevertClaim, LocalType
  <2>3. ProcessType'
    BY <1>2, TypeFrame DEF RevertClaim
  <2>4. BoundsType'
    BY <1>2, TypeFrame DEF RevertClaim, bounds
  <2> QED BY <2>1, <2>2, <2>3, <2>4
<1>3. ASSUME BeginBatch(w) PROVE TypeOK'
  <2>1. TablesType' /\ HistoryType'
    BY <1>3, TypeFrame DEF BeginBatch
  <2>2. LocalType'
    BY <1>3 DEF BeginBatch, LocalType
  <2>3. ProcessType'
    BY <1>3, TypeFrame DEF BeginBatch
  <2>4. BoundsType'
    BY <1>3, TypeFrame DEF BeginBatch, bounds
  <2> QED BY <2>1, <2>2, <2>3, <2>4
<1>4. ASSUME NEW t \in Target, ResolveTarget(w, t) PROVE TypeOK'
  <2>1. TablesType' /\ HistoryType'
    BY <1>4, TypeFrame DEF ResolveTarget, HistoryType
  <2>2. LocalType'
    <3>1. snapshot[w][t] \in SUBSET Crawler
      BY DEF LocalType
    <3>2. Eligible(t, snapshot[w][t]) \in SUBSET Crawler
      BY <3>1, EligibleType
    <3> QED BY <3>2, <1>4 DEF ResolveTarget, LocalType
  <2>3. ProcessType'
    BY <1>4, TypeFrame DEF ResolveTarget
  <2>4. BoundsType'
    BY <1>4, TypeFrame DEF ResolveTarget, bounds
  <2> QED BY <2>1, <2>2, <2>3, <2>4
<1>5. ASSUME NEW t \in Target, ResolveRow(w, t) PROVE TypeOK'
  <2>1. TablesType' /\ HistoryType'
    <3>1. deferred[w][t] \in SUBSET Crawler
      BY <1>5 DEF LocalType
    <3>2. queue' \in [Target -> Row]
      BY <3>1, <1>5, ResolvedType DEF ResolveRow, TablesType
    <3> QED BY <3>2, <1>5 DEF ResolveRow, TablesType, HistoryType
  <2>2. LocalType'
    BY <1>5, RowDoneType DEF ResolveRow
  <2>3. ProcessType'
    BY <1>5, TypeFrame DEF ResolveRow
  <2>4. BoundsType'
    BY <1>5, TypeFrame DEF ResolveRow, bounds
  <2> QED BY <2>1, <2>2, <2>3, <2>4
<1>6. ASSUME NEW t \in Target, NEW c \in Crawler, SkipUnloaded(w, t, c) PROVE TypeOK'
  <2>1. TablesType' /\ HistoryType'
    BY <1>6, TypeFrame DEF SkipUnloaded, Attempted, HistoryType
  <2>2. LocalType'
    BY <1>6, UnitDoneType DEF SkipUnloaded
  <2>3. ProcessType'
    BY <1>6, <1>0 DEF SkipUnloaded, ProcessType, SiteResult
  <2>4. BoundsType'
    BY <1>6, TypeFrame DEF SkipUnloaded, bounds
  <2> QED BY <2>1, <2>2, <2>3, <2>4
<1>7. ASSUME NEW t \in Target, NEW c \in Crawler, DeferUnit(w, t, c) PROVE TypeOK'
  <2>1. TablesType' /\ HistoryType'
    BY <1>7, TypeFrame DEF DeferUnit
  <2>2. LocalType'
    BY <1>7 DEF DeferUnit, UnitDone, LocalType
  <2>3. ProcessType'
    BY <1>7, TypeFrame DEF DeferUnit
  <2>4. BoundsType'
    BY <1>7, TypeFrame DEF DeferUnit, bounds
  <2> QED BY <2>1, <2>2, <2>3, <2>4
<1>8. ASSUME NEW t \in Target, NEW c \in Crawler, StartSearch(w, t, c) PROVE TypeOK'
  <2>1. TablesType' /\ HistoryType'
    BY <1>8, TypeFrame DEF StartSearch
  <2>2. LocalType'
    BY <1>8 DEF StartSearch, LocalType
  <2>3. ProcessType'
    BY <1>8, TypeFrame DEF StartSearch
  <2>4. BoundsType'
    BY <1>8, TypeFrame DEF StartSearch, bounds
  <2> QED BY <2>1, <2>2, <2>3, <2>4
<1>9. ASSUME NEW outcome \in Outcome, NEW bot \in BOOLEAN, SearchReturns(w, outcome, bot) PROVE TypeOK'
  <2>1. TablesType' /\ HistoryType'
    BY <1>9, TypeFrame DEF SearchReturns
  <2>2. LocalType'
    BY <1>9 DEF SearchReturns, LocalType
  <2>3. ProcessType'
    BY <1>9, <1>0, UnitInHand DEF SearchReturns, ProcessType, SiteResult
  <2>4. BoundsType'
    BY <1>9, TypeFrame DEF SearchReturns, bounds
  <2> QED BY <2>1, <2>2, <2>3, <2>4
<1>10. ASSUME SearchFails(w) PROVE TypeOK'
  <2>1. TablesType' /\ HistoryType'
    BY <1>10, TypeFrame DEF SearchFails, Attempted, HistoryType
  <2>2. LocalType'
    BY <1>10, UnitInHand, UnitDoneType DEF SearchFails
  <2>3. ProcessType'
    BY <1>10, <1>0, UnitInHand DEF SearchFails, ProcessType, SiteResult
  <2>4. BoundsType'
    BY <1>10, TypeFrame DEF SearchFails, bounds
  <2> QED BY <2>1, <2>2, <2>3, <2>4
<1>11. ASSUME ResultReclaimed(w) PROVE TypeOK'
  <2>1. TablesType' /\ HistoryType'
    BY <1>11, TypeFrame DEF ResultReclaimed, HistoryType
  <2>2. LocalType'
    <3>1. current[w] \in Target
      BY <1>11, UnitInHand DEF ResultReclaimed
    <3>2. CASE units[w][current[w]] = {unit[w]}
      BY <3>1, <3>2, <1>11, RowDoneType DEF ResultReclaimed
    <3>3. CASE units[w][current[w]] # {unit[w]}
      BY <3>1, <3>3, <1>11, UnitDoneType DEF ResultReclaimed
    <3> QED BY <3>2, <3>3
  <2>3. ProcessType'
    BY <1>11, TypeFrame DEF ResultReclaimed
  <2>4. BoundsType'
    BY <1>11, TypeFrame DEF ResultReclaimed, bounds
  <2> QED BY <2>1, <2>2, <2>3, <2>4
<1>12. ASSUME WriteResult(w) PROVE TypeOK'
  <2>1. TablesType' /\ HistoryType'
    <3>1. current[w] \in Target /\ unit[w] \in Crawler
      BY <1>12, UnitInHand DEF WriteResult
    <3>2. Listings(current[w], unit[w], result[w]) \in SUBSET Crawler
      BY <3>1 DEF Listings, TablesType
    <3> QED BY <1>12, <3>2 DEF WriteResult, Attempted, TablesType, HistoryType
  <2>2. LocalType'
    BY <1>12, UnitInHand, UnitDoneType DEF WriteResult
  <2>3. ProcessType'
    BY <1>12, TypeFrame DEF WriteResult
  <2>4. BoundsType'
    BY <1>12, TypeFrame DEF WriteResult, bounds
  <2> QED BY <2>1, <2>2, <2>3, <2>4
<1> QED BY <1>1, <1>2, <1>3, <1>4, <1>5, <1>6, <1>7, <1>8, <1>9, <1>10, <1>11, <1>12 DEF Drain, Unit

LEMMA ForgetType == ASSUME LocalType, HistoryType, NEW ws, Forget(ws)
                    PROVE  LocalType' /\ superseded' \subseteq Worker \X Target
<1>1. LocalType'
  BY DEF Forget, LocalType
<1>2. superseded' \subseteq Worker \X Target
  BY DEF Forget, HistoryType
<1> QED BY <1>1, <1>2

LEMMA StrandedType ==
    ASSUME TablesType, NEW t \in Target
    PROVE  /\ [queue EXCEPT ![t].stranded = TRUE] \in [Target -> Row]
           /\ [queue EXCEPT ![t].due = TRUE] \in [Target -> Row]
<1>1. /\ [queue[t] EXCEPT !.stranded = TRUE] \in Row
      /\ [queue[t] EXCEPT !.due = TRUE] \in Row
  BY DEF TablesType, Row
<1> QED BY <1>1 DEF TablesType

LEMMA TypeOthers == TypeOK /\ (Shutdown \/ Failures \/ Time \/ UNCHANGED vars) => TypeOK'
<1> SUFFICES ASSUME TypeOK, Shutdown \/ Failures \/ Time \/ UNCHANGED vars PROVE TypeOK'
  OBVIOUS
<1> USE DEF TypeOK
<1>1. ASSUME NEW m \in Machine, StopPool(m) PROVE TypeOK'
  <2>1. ProcessType' /\ BoundsType'
    BY <1>1, QueueAssumption DEF StopPool, ProcessType, BoundsType
  <2> QED BY <2>1, <1>1, TypeFrame DEF StopPool
<1>2. ASSUME NEW m \in Machine, PoolStopped(m) \/ StartPool(m) PROVE TypeOK'
  <2>1. ProcessType'
    BY <1>2 DEF PoolStopped, StartPool, ProcessType
  <2> QED BY <2>1, <1>2, TypeFrame DEF PoolStopped, StartPool
<1>3. ASSUME NEW m \in Machine, Crash(m) PROVE TypeOK'
  <2>1. ProcessType'
    BY <1>3 DEF Crash, ProcessType
  <2> QED BY <2>1, <1>3, TypeFrame, ForgetType DEF Crash, HistoryType
<1>4. ASSUME NEW w \in Worker, WorkerFails(w) PROVE TypeOK'
  BY <1>4, TypeFrame, ForgetType DEF WorkerFails, HistoryType
<1>5. ASSUME NEW t \in Target, ClaimAges(t) \/ RowComesDue(t) PROVE TypeOK'
  <2>1. TablesType'
    BY <1>5, StrandedType DEF ClaimAges, RowComesDue, TablesType
  <2> QED BY <2>1, <1>5, TypeFrame DEF ClaimAges, RowComesDue
<1>6. ASSUME NEW t \in Target, PassRunsLong(t) PROVE TypeOK'
  <2>1. TablesType'
    BY <1>6, StrandedType DEF PassRunsLong, TablesType
  <2>2. BoundsType'
    BY <1>6, QueueAssumption DEF PassRunsLong, BoundsType
  <2> QED BY <2>1, <2>2, <1>6, TypeFrame DEF PassRunsLong
<1>7. ASSUME NEW m \in Machine, NEW c \in Crawler, CooldownEnds(m, c) PROVE TypeOK'
  <2>1. ProcessType'
    BY <1>7 DEF CooldownEnds, ProcessType
  <2> QED BY <2>1, <1>7, TypeFrame DEF CooldownEnds
<1>8. CASE UNCHANGED vars
  BY <1>8, TypeFrame DEF vars
<1> QED BY <1>1, <1>2, <1>3, <1>4, <1>5, <1>6, <1>7, <1>8 DEF Shutdown, Failures, Time

-----------------------------------------------------------------------------
(* The shape of a worker's batch. *)

LEMMA ShapeFrame == BatchShape /\ UNCHANGED local => BatchShape'
BY DEF BatchShape, local

\* Everything but a worker's own step leaves its batch alone, or forgets it.
LEMMA ShapeOthers ==
    ASSUME TypeOK, BatchShape, Requests \/ Shutdown \/ Failures \/ Time \/ UNCHANGED vars
    PROVE  BatchShape'
<1>1. CASE Requests
  BY <1>1, ShapeFrame DEF Requests, Enqueue, SaveStockItem, StockChanges, EnableCrawler,
     DisableCrawler, ConvertToCatalog, Backfill, ConvertToRelease, BackfillSkipped, SweepDeadRows
<1>2. CASE Shutdown \/ Time \/ UNCHANGED vars
  BY <1>2, ShapeFrame DEF Shutdown, StopPool, PoolStopped, StartPool, Time, ClaimAges,
     PassRunsLong, RowComesDue, CooldownEnds, vars
<1>3. ASSUME NEW ws, Forget(ws) PROVE BatchShape'
  BY <1>3 DEF Forget, BatchShape
<1>4. CASE Failures
  BY <1>4, <1>3 DEF Failures, Crash, WorkerFails
<1> QED BY <1>1, <1>2, <1>4

LEMMA ShapeDrain == ASSUME TypeOK, NEW w \in Worker, Drain(w), BatchShape PROVE BatchShape'
<1> USE QueueAssumption DEF TypeOK, LocalType, BatchShape
<1>1. ASSUME NEW batch \in SUBSET Target, Claim(w, batch) PROVE BatchShape'
  <2>1. /\ pc[w] = "idle"
        /\ pc' = [pc EXCEPT ![w] = IF batch = {} THEN "idle" ELSE "claimed"]
        /\ claimed' = [claimed EXCEPT ![w] = batch]
        /\ UNCHANGED <<todo, units, current, unit>>
    BY <1>1 DEF Claim
  <2> QED BY <2>1
<1>2. ASSUME RevertClaim(w) PROVE BatchShape'
  BY <1>2 DEF RevertClaim
<1>3. ASSUME BeginBatch(w) PROVE BatchShape'
  BY <1>3 DEF BeginBatch
<1>4. ASSUME NEW t \in Target, ResolveTarget(w, t) PROVE BatchShape'
  <2>1. /\ pc' = [pc EXCEPT ![w] = IF claimed[w] = {t} THEN "units" ELSE "resolving"]
        /\ claimed' = [claimed EXCEPT ![w] = @ \ {t}]
        /\ todo' = [todo EXCEPT ![w] = @ \cup {t}]
        /\ units' = [units EXCEPT ![w][t] = Eligible(t, snapshot[w][t])]
        /\ UNCHANGED <<current, unit>>
        /\ current[w] = NULL
    BY <1>4 DEF ResolveTarget
  <2> QED BY <2>1
<1>5. ASSUME NEW t \in Target, ResolveRow(w, t) PROVE BatchShape'
  BY <1>5 DEF ResolveRow, RowDone, Bare
<1>6. ASSUME NEW t \in Target, NEW c \in Crawler, SkipUnloaded(w, t, c) PROVE BatchShape'
  BY <1>6 DEF SkipUnloaded, UnitDone, Turn
<1>7. ASSUME NEW t \in Target, NEW c \in Crawler, DeferUnit(w, t, c) PROVE BatchShape'
  BY <1>7 DEF DeferUnit, UnitDone, Turn
<1>8. ASSUME NEW t \in Target, NEW c \in Crawler, StartSearch(w, t, c) PROVE BatchShape'
  BY <1>8 DEF StartSearch, Turn, Bare
<1>9. ASSUME NEW outcome \in Outcome, NEW bot \in BOOLEAN, SearchReturns(w, outcome, bot) PROVE BatchShape'
  BY <1>9 DEF SearchReturns
<1>10. ASSUME SearchFails(w) PROVE BatchShape'
  BY <1>10 DEF SearchFails, UnitDone
<1>11. ASSUME ResultReclaimed(w) PROVE BatchShape'
  <2>1. CASE units[w][current[w]] = {unit[w]}
    <3>1. RowDone(w, current[w]) /\ UNCHANGED claimed /\ pc[w] = "writing"
      BY <1>11, <2>1 DEF ResultReclaimed
    <3> QED BY <3>1 DEF RowDone
  <2>2. CASE units[w][current[w]] # {unit[w]}
    <3>1. /\ UnitDone(w, current[w], unit[w])
          /\ UNCHANGED <<claimed, todo>> /\ pc[w] = "writing"
      BY <1>11, <2>2 DEF ResultReclaimed
    <3> QED BY <2>2, <3>1 DEF UnitDone
  <2> QED BY <2>1, <2>2
<1>12. ASSUME WriteResult(w) PROVE BatchShape'
  BY <1>12 DEF WriteResult, UnitDone
<1> HIDE DEF TypeOK, LocalType, BatchShape
<1> QED BY <1>1, <1>2, <1>3, <1>4, <1>5, <1>6, <1>7, <1>8, <1>9, <1>10, <1>11, <1>12 DEF Drain, Unit

-----------------------------------------------------------------------------
(* Who holds what. *)

ClaimsInv == /\ OpenRowsUnclaimed /\ HeldInProgress /\ SupersededLostClaim
             /\ HandsHold /\ OnlyFaultsStrandRows

\* A request leaves a row alone, or writes one that is in nobody's hands.
OpenRowWritten(q, d, t) ==
    \/ q[t] = queue[t] /\ d[t] = debt[t]
    \/ /\ queue[t].status # "in_progress" /\ q[t].status # "in_progress"
       /\ q[t].claimed_by = NULL /\ ~q[t].stranded

LEMMA SweptRows ==
    ASSUME NEW q, NEW d, NEW live, NEW t \in Target, OpenRowWritten(q, d, t),
           OpenRowsUnclaimed
    PROVE  OpenRowWritten(Swept(q, live), SweptDebt(d, q, live), t)
BY DEF OpenRowWritten, Swept, SweptDebt, Dead, Absent, OpenRowsUnclaimed

LEMMA BackfilledRows ==
    ASSUME TypeOK, OpenRowsUnclaimed, NEW c \in Crawler, NEW locked, NEW t \in Target
    PROVE  OpenRowWritten(Backfilled(c, locked), BackfilledDebt(c, locked), t)
<1>1. CASE t \in Unpriced(c) \ locked
  <2>2. queue[t].status = "done" /\ t \notin Narrowed(c)
    BY <1>1 DEF Unpriced, Narrowed, Rows
  <2>1. Backfilled(c, locked)[t] = Requested({c})
    BY <1>1, <2>2 DEF Backfilled
  <2> QED BY <2>1, <2>2 DEF OpenRowWritten, Requested
<1>2. CASE t \in Narrowed(c) \ locked
  <2>1. queue[t] \in Row /\ queue[t].status = "pending"
    BY <1>2 DEF Narrowed, Rows, TypeOK, TablesType
  <2>2. t \notin Unpriced(c)
    BY <2>1 DEF Unpriced, Rows
  <2>3. Backfilled(c, locked)[t] = [queue[t] EXCEPT !.pending = queue[t].pending \cup {c}, !.due = TRUE]
    BY <1>2, <2>2 DEF Backfilled
  <2>4. /\ Backfilled(c, locked)[t].status = "pending"
        /\ Backfilled(c, locked)[t].claimed_by = queue[t].claimed_by
        /\ Backfilled(c, locked)[t].stranded = queue[t].stranded
    BY <2>1, <2>3 DEF Row
  <2> QED BY <2>1, <2>4 DEF OpenRowWritten, OpenRowsUnclaimed
<1>3. CASE t \notin (Unpriced(c) \cup Narrowed(c)) \ locked
  BY <1>3 DEF OpenRowWritten, Backfilled, BackfilledDebt
<1> QED BY <1>1, <1>2, <1>3

LEMMA RequestRows ==
    ASSUME TypeOK, OpenRowsUnclaimed, Requests, NEW t \in Target
    PROVE  OpenRowWritten(queue', debt', t)
<1>0. OpenRowWritten(queue, debt, t)
  BY DEF OpenRowWritten
<1>1. ASSUME NEW u \in Target, Enqueue(u) PROVE OpenRowWritten(queue', debt', t)
  BY <1>1 DEF Enqueue, TypeOK, TablesType, HistoryType, Requested, OpenRowWritten
<1>2. ASSUME NEW i \in Item, SaveStockItem(i) PROVE OpenRowWritten(queue', debt', t)
  <2>1. CASE t = i
    <3>1. queue'[t] = [queue[t] EXCEPT !.pending = Crawler] /\ queue[t] \in Row
      BY <1>2, <2>1 DEF SaveStockItem, TypeOK, TablesType
    <3>2. /\ queue'[t].status = queue[t].status /\ queue'[t].stranded = queue[t].stranded
          /\ queue'[t].claimed_by = queue[t].claimed_by /\ queue[t].status = "pending"
      BY <3>1, <1>2, <2>1 DEF Row, SaveStockItem
    <3> QED BY <3>2 DEF OpenRowWritten, OpenRowsUnclaimed
  <2>2. CASE t # i
    BY <1>2, <2>2 DEF SaveStockItem, TypeOK, TablesType, HistoryType, OpenRowWritten
  <2> QED BY <2>1, <2>2
<1>3. ASSUME NEW c \in Crawler, DisableCrawler(c) \/ ConvertToCatalog(c)
      PROVE  OpenRowWritten(queue', debt', t)
  BY <1>0, <1>3, SweptRows DEF DisableCrawler, ConvertToCatalog
<1>4. ASSUME NEW c \in Crawler, NEW locked \in SUBSET Target, Backfill(c, locked)
      PROVE  OpenRowWritten(queue', debt', t)
  BY <1>0, <1>4, SweptRows, BackfilledRows DEF Backfill
<1>5. ASSUME NEW c \in Crawler, NEW locked \in SUBSET Target, NEW unlisted \in SUBSET Item,
             ConvertToRelease(c, locked, unlisted)
      PROVE  OpenRowWritten(queue', debt', t)
  BY <1>0, <1>5, SweptRows, BackfilledRows DEF ConvertToRelease
<1>6. CASE SweepDeadRows
  BY <1>0, <1>6, SweptRows DEF SweepDeadRows
<1>7. ASSUME NEW i \in Item, StockChanges(i) PROVE OpenRowWritten(queue', debt', t)
  BY <1>7 DEF StockChanges, history, OpenRowWritten
<1>8. ASSUME NEW c \in Crawler, EnableCrawler(c) \/ BackfillSkipped(c)
      PROVE  OpenRowWritten(queue', debt', t)
  BY <1>8 DEF EnableCrawler, BackfillSkipped, history, OpenRowWritten
<1> QED BY <1>1, <1>2, <1>3, <1>4, <1>5, <1>6, <1>7, <1>8 DEF Requests

LEMMA RequestLocal ==
    Requests => /\ UNCHANGED <<local, superseded>>
                /\ UNCHANGED <<stops, overruns, faults>>
BY DEF Requests, Enqueue, SaveStockItem, StockChanges, EnableCrawler, DisableCrawler,
       ConvertToCatalog, Backfill, ConvertToRelease, BackfillSkipped, SweepDeadRows,
       bounds, history

LEMMA ClaimsRequests == ASSUME TypeOK, ClaimsInv, Requests PROVE ClaimsInv'
<1>1. \A t \in Target :
         \/ queue'[t] = queue[t]
         \/ /\ queue[t].status # "in_progress" /\ queue'[t].status # "in_progress"
            /\ queue'[t].claimed_by = NULL /\ ~queue'[t].stranded
  BY RequestRows DEF ClaimsInv, OpenRowWritten
<1>2. /\ UNCHANGED superseded /\ UNCHANGED <<overruns, faults>>
      /\ \A w \in Worker : InHand(w)' = InHand(w)
  BY RequestLocal DEF local, InHand
<1>3. /\ \A w \in Worker : w # NULL
      /\ \A w \in Worker : InHand(w) \subseteq Target
  BY QueueAssumption DEF InHand, TypeOK, LocalType
<1>4. OpenRowsUnclaimed'
  BY <1>1 DEF ClaimsInv, OpenRowsUnclaimed
<1>5. HeldInProgress'
  BY <1>1, <1>2, <1>3 DEF ClaimsInv, HeldInProgress, ClaimHeld, WorkerId
<1>6. SupersededLostClaim'
  BY <1>1, <1>2, <1>3 DEF ClaimsInv, SupersededLostClaim, ClaimHeld, WorkerId
<1>7. HandsHold'
  BY <1>1, <1>2, <1>3 DEF ClaimsInv, HandsHold, HeldInProgress, ClaimHeld, WorkerId
<1>8. OnlyFaultsStrandRows'
  BY <1>1, <1>2 DEF ClaimsInv, OnlyFaultsStrandRows, InSomeHand, Rows, ClaimHeld
<1> QED BY <1>4, <1>5, <1>6, <1>7, <1>8 DEF ClaimsInv

\* A step that changes neither the rows nor who has them in hand.
LEMMA ClaimsFrame ==
    ASSUME ClaimsInv, UNCHANGED queue, UNCHANGED <<superseded, overruns, faults>>,
           \A w \in Worker : InHand(w)' = InHand(w)
    PROVE  ClaimsInv'
BY DEF ClaimsInv, OpenRowsUnclaimed, HeldInProgress, SupersededLostClaim, HandsHold,
       OnlyFaultsStrandRows, InSomeHand, Rows, ClaimHeld

LEMMA ClaimsClaim ==
    ASSUME TypeOK, ClaimsInv, BatchShape, NEW w \in Worker, NEW batch \in SUBSET Target,
           Claim(w, batch)
    PROVE  ClaimsInv'
<1>1. /\ claimed[w] = {} /\ todo[w] = {}
      /\ claimed' = [claimed EXCEPT ![w] = batch] /\ UNCHANGED <<todo, overruns, faults>>
      /\ superseded' = superseded \cup
               {p \in Worker \X batch : p[1] # w /\ p[2] \in InHand(p[1])}
  BY DEF Claim, BatchShape, bounds
<1>2. /\ InHand(w) = {} /\ InHand(w)' = batch
      /\ \A v \in Worker \ {w} : InHand(v)' = InHand(v)
      /\ \A v \in Worker : InHand(v) \subseteq Target /\ v # NULL
  BY <1>1, QueueAssumption DEF InHand, TypeOK, LocalType
<1>3. \A t \in batch : /\ queue'[t].status = "in_progress" /\ queue'[t].claimed_by = w
                       /\ ~queue'[t].stranded
                       /\ queue[t].status = "pending" \/ t \in Reclaimable
  <2> SUFFICES ASSUME NEW t \in batch
               PROVE  /\ queue'[t].status = "in_progress" /\ queue'[t].claimed_by = w
                      /\ ~queue'[t].stranded
                      /\ queue[t].status = "pending" \/ t \in Reclaimable
    OBVIOUS
  <2>1. queue[t] \in Row
    BY DEF TypeOK, TablesType
  <2>2. CASE t \in Reclaimable
    BY <2>1, <2>2 DEF Claim, HandBack, Row, WorkerId
  <2>3. CASE t \notin Reclaimable
    BY <2>1, <2>3 DEF Claim, Row, WorkerId, ClaimsInv, OpenRowsUnclaimed
  <2> QED BY <2>2, <2>3
<1>4. \A t \in Target \ batch :
         \/ /\ t \in Reclaimable /\ queue'[t].status = "pending"
            /\ queue'[t].claimed_by = NULL /\ ~queue'[t].stranded
         \/ queue'[t] = queue[t]
  <2> SUFFICES ASSUME NEW t \in Target \ batch
               PROVE  \/ /\ t \in Reclaimable /\ queue'[t].status = "pending"
                         /\ queue'[t].claimed_by = NULL /\ ~queue'[t].stranded
                      \/ queue'[t] = queue[t]
    OBVIOUS
  <2>1. queue[t] \in Row
    BY DEF TypeOK, TablesType
  <2> QED BY <2>1 DEF Claim, HandBack, Row
<1>5. \A t \in Reclaimable : queue[t].status = "in_progress" /\ queue[t].stranded
  BY DEF Reclaimable, Rows
<1>6. OpenRowsUnclaimed'
  BY <1>3, <1>4 DEF ClaimsInv, OpenRowsUnclaimed
<1>7. HeldInProgress'
  BY <1>2, <1>3, <1>4 DEF ClaimsInv, HeldInProgress, ClaimHeld, WorkerId
<1>8. SupersededLostClaim'
  <2> SUFFICES ASSUME NEW v \in Worker, NEW t \in Target, <<v, t>> \in superseded'
               PROVE  t \in InHand(v)' /\ queue'[t].claimed_by # v
    BY DEF SupersededLostClaim, ClaimHeld, WorkerId
  <2>1. CASE <<v, t>> \in superseded
    <3>1. t \in InHand(v) /\ queue[t].claimed_by # v /\ v # w
      BY <2>1, <1>2 DEF ClaimsInv, SupersededLostClaim, ClaimHeld, WorkerId
    <3> QED BY <3>1, <1>2, <1>3, <1>4
  <2>2. CASE <<v, t>> \notin superseded
    <3>1. v # w /\ t \in batch /\ t \in InHand(v)
      BY <2>2, <1>1
    <3> QED BY <3>1, <1>2, <1>3
  <2> QED BY <2>1, <2>2
<1>9. HandsHold'
  BY <1>1, <1>2, <1>3, <1>4, <1>5 DEF ClaimsInv, HandsHold, HeldInProgress, ClaimHeld, WorkerId
<1>10. OnlyFaultsStrandRows'
  BY <1>1, <1>2, <1>3, <1>4 DEF ClaimsInv, OnlyFaultsStrandRows, InSomeHand, Rows, ClaimHeld, WorkerId
<1> QED BY <1>6, <1>7, <1>8, <1>9, <1>10 DEF ClaimsInv

LEMMA ClaimsRevert ==
    ASSUME TypeOK, ClaimsInv, BatchShape, NEW w \in Worker, RevertClaim(w)
    PROVE  ClaimsInv'
<1>1. /\ InHand(w)' = {}
      /\ \A v \in Worker \ {w} : InHand(v)' = InHand(v)
      /\ \A v \in Worker : InHand(v) \subseteq Target /\ v # NULL
      /\ superseded' = {p \in superseded : p[1] # w} /\ UNCHANGED <<overruns, faults>>
      /\ claimed[w] = InHand(w)
  BY QueueAssumption DEF RevertClaim, BatchShape, bounds, InHand, TypeOK, LocalType
<1>2. \A t \in Target :
         \/ /\ queue'[t].status = "pending" /\ queue'[t].claimed_by = NULL
            /\ ~queue'[t].stranded /\ t \in InHand(w)
         \/ queue'[t] = queue[t] /\ (t \in InHand(w) => queue[t].status = "absent")
  <2> SUFFICES ASSUME NEW t \in Target
               PROVE  \/ /\ queue'[t].status = "pending" /\ queue'[t].claimed_by = NULL
                         /\ ~queue'[t].stranded /\ t \in InHand(w)
                      \/ queue'[t] = queue[t] /\ (t \in InHand(w) => queue[t].status = "absent")
    OBVIOUS
  <2>1. queue[t] \in Row
    BY DEF TypeOK, TablesType
  <2> QED BY <1>1, <2>1 DEF RevertClaim, Reverted, HandBack, Row
<1>3. OpenRowsUnclaimed'
  BY <1>2 DEF ClaimsInv, OpenRowsUnclaimed
<1>4. HeldInProgress'
  BY <1>1, <1>2 DEF ClaimsInv, HeldInProgress, ClaimHeld, WorkerId
<1>5. SupersededLostClaim'
  <2> SUFFICES ASSUME NEW v \in Worker, NEW t \in Target, <<v, t>> \in superseded'
               PROVE  t \in InHand(v)' /\ queue'[t].claimed_by # v
    BY DEF SupersededLostClaim, ClaimHeld, WorkerId
  <2>1. <<v, t>> \in superseded /\ v # w
    BY <1>1
  <2> QED BY <2>1, <1>1, <1>2 DEF ClaimsInv, SupersededLostClaim, ClaimHeld, WorkerId
<1>6. HandsHold'
  <2> SUFFICES ASSUME overruns = 0, NEW v \in Worker, NEW t \in InHand(v)'
               PROVE  queue'[t].claimed_by = v /\ ~queue'[t].stranded
    BY <1>1 DEF HandsHold, ClaimHeld, WorkerId
  <2>1. v # w /\ t \in InHand(v) /\ t \in Target
    BY <1>1
  <2>2. queue[t].claimed_by = v /\ ~queue[t].stranded
    BY <2>1 DEF ClaimsInv, HandsHold, ClaimHeld, WorkerId
  <2>3. t \notin InHand(w)
    BY <2>1, <2>2 DEF ClaimsInv, HandsHold, ClaimHeld, WorkerId
  <2> QED BY <1>2, <2>1, <2>2, <2>3
<1>7. OnlyFaultsStrandRows'
  <2> SUFFICES ASSUME faults = 0, NEW t \in Target, queue'[t].status = "in_progress"
               PROVE  \E v \in Worker : t \in InHand(v)' /\ queue'[t].claimed_by = v
    BY <1>1 DEF OnlyFaultsStrandRows, InSomeHand, Rows, ClaimHeld, WorkerId
  <2>1. queue'[t] = queue[t] /\ t \notin InHand(w)
    BY <1>2
  <2>2. PICK v \in Worker : t \in InHand(v) /\ queue[t].claimed_by = v
    BY <2>1 DEF ClaimsInv, OnlyFaultsStrandRows, InSomeHand, Rows, ClaimHeld, WorkerId
  <2> QED BY <1>1, <2>1, <2>2
<1> QED BY <1>3, <1>4, <1>5, <1>6, <1>7 DEF ClaimsInv

\* A row leaves a worker's hands, resolved or dropped.
LEMMA ClaimsRowDone ==
    ASSUME TypeOK, ClaimsInv, BatchShape, NEW w \in Worker, NEW t \in Target,
           pc[w] \in {"units", "writing", "settling"},
           RowDone(w, t), UNCHANGED <<claimed, overruns, faults>>,
           superseded' = superseded \ {<<w, t>>},
           \A u \in Target \ {t} : queue'[u] = queue[u],
           ~ClaimHeld(w, t) => queue'[t] = queue[t],
           ClaimHeld(w, t) =>
               \/ queue'[t].status = "done" /\ queue'[t].claimed_by = w /\ ~queue'[t].stranded
               \/ /\ queue'[t].status = "pending" /\ queue'[t].claimed_by = NULL
                  /\ ~queue'[t].stranded
    PROVE  ClaimsInv'
<1>1. /\ InHand(w)' = InHand(w) \ {t}
      /\ \A v \in Worker \ {w} : InHand(v)' = InHand(v)
      /\ \A v \in Worker : InHand(v) \subseteq Target /\ v # NULL
  BY QueueAssumption DEF RowDone, BatchShape, InHand, TypeOK, LocalType
<1>2. OpenRowsUnclaimed'
  BY DEF ClaimsInv, OpenRowsUnclaimed
<1>3. HeldInProgress'
  BY <1>1 DEF ClaimsInv, HeldInProgress, ClaimHeld, WorkerId
<1>4. SupersededLostClaim'
  <2> SUFFICES ASSUME NEW v \in Worker, NEW u \in Target, <<v, u>> \in superseded'
               PROVE  u \in InHand(v)' /\ queue'[u].claimed_by # v
    BY DEF SupersededLostClaim, ClaimHeld, WorkerId
  <2>1. <<v, u>> \in superseded /\ <<v, u>> # <<w, t>>
    OBVIOUS
  <2>2. u \in InHand(v) /\ queue[u].claimed_by # v
    BY <2>1 DEF ClaimsInv, SupersededLostClaim, ClaimHeld, WorkerId
  <2>3. u \in InHand(v)'
    BY <1>1, <2>1, <2>2
  <2>4. CASE u = t /\ v # w
    <3>1. queue'[t].claimed_by \in {queue[t].claimed_by, w, NULL}
      BY DEF ClaimHeld, WorkerId
    <3> QED BY <1>1, <2>2, <2>3, <2>4, <3>1
  <2>5. CASE u # t
    BY <2>2, <2>3, <2>5
  <2> QED BY <2>1, <2>4, <2>5
<1>5. HandsHold'
  <2> SUFFICES ASSUME overruns = 0, NEW v \in Worker, NEW u \in InHand(v)'
               PROVE  queue'[u].claimed_by = v /\ ~queue'[u].stranded
    BY DEF HandsHold, ClaimHeld, WorkerId
  <2>1. u \in InHand(v) /\ u \in Target /\ (v = w => u # t)
    BY <1>1
  <2>2. queue[u].claimed_by = v /\ ~queue[u].stranded
    BY <2>1 DEF ClaimsInv, HandsHold, ClaimHeld, WorkerId
  <2> QED BY <2>1, <2>2 DEF ClaimHeld, WorkerId
<1>6. OnlyFaultsStrandRows'
  <2> SUFFICES ASSUME faults = 0, NEW u \in Target, queue'[u].status = "in_progress"
               PROVE  \E v \in Worker : u \in InHand(v)' /\ queue'[u].claimed_by = v
    BY DEF OnlyFaultsStrandRows, InSomeHand, Rows, ClaimHeld, WorkerId
  <2>1. queue'[u] = queue[u] /\ (u = t => queue[u].claimed_by # w)
    BY DEF ClaimHeld, WorkerId
  <2>2. PICK v \in Worker : u \in InHand(v) /\ queue[u].claimed_by = v
    BY <2>1 DEF ClaimsInv, OnlyFaultsStrandRows, InSomeHand, Rows, ClaimHeld, WorkerId
  <2> QED BY <1>1, <2>1, <2>2
<1> QED BY <1>2, <1>3, <1>4, <1>5, <1>6 DEF ClaimsInv

LEMMA ClaimsDrain ==
    ASSUME TypeOK, ClaimsInv, BatchShape, NEW w \in Worker, Drain(w)
    PROVE  ClaimsInv'
<1>1. ASSUME NEW t \in Target, ResolveTarget(w, t) PROVE ClaimsInv'
  <2>1. \A v \in Worker : InHand(v)' = InHand(v)
    BY <1>1 DEF ResolveTarget, InHand, TypeOK, LocalType
  <2> QED BY <1>1, <2>1, ClaimsFrame DEF ResolveTarget, tables, bounds
<1>2. ASSUME NEW t \in Target, ResolveRow(w, t) PROVE ClaimsInv'
  <2>1. /\ queue[t] \in Row
        /\ queue' = IF ClaimHeld(w, t)
                   THEN [queue EXCEPT ![t] = Resolved(queue[t], MachineOf(w), deferred[w][t])]
                   ELSE queue
    BY <1>2 DEF ResolveRow, TypeOK, TablesType
  <2>2. \/ /\ Resolved(queue[t], MachineOf(w), deferred[w][t]).status = "done"
           /\ Resolved(queue[t], MachineOf(w), deferred[w][t]).claimed_by = queue[t].claimed_by
           /\ ~Resolved(queue[t], MachineOf(w), deferred[w][t]).stranded
        \/ /\ Resolved(queue[t], MachineOf(w), deferred[w][t]).status = "pending"
           /\ Resolved(queue[t], MachineOf(w), deferred[w][t]).claimed_by = NULL
           /\ ~Resolved(queue[t], MachineOf(w), deferred[w][t]).stranded
    BY <2>1 DEF Resolved, Row
  <2>3. queue \in [Target -> Row]
    BY DEF TypeOK, TablesType
  <2>4. /\ \A u \in Target \ {t} : queue'[u] = queue[u]
        /\ ~ClaimHeld(w, t) => queue'[t] = queue[t]
        /\ ClaimHeld(w, t) =>
               \/ queue'[t].status = "done" /\ queue'[t].claimed_by = w /\ ~queue'[t].stranded
               \/ /\ queue'[t].status = "pending" /\ queue'[t].claimed_by = NULL
                  /\ ~queue'[t].stranded
    BY <2>1, <2>2, <2>3 DEF ClaimHeld, WorkerId
  <2>5. /\ RowDone(w, t) /\ superseded' = superseded \ {<<w, t>>}
        /\ UNCHANGED <<claimed, overruns, faults>> /\ pc[w] \in {"units", "writing", "settling"}
    BY <1>2 DEF ResolveRow, bounds
  <2> QED BY <2>4, <2>5, ClaimsRowDone
<1>3. CASE ResultReclaimed(w)
  <2>1. current[w] \in Target
    BY <1>3, UnitInHand DEF ResultReclaimed, TypeOK
  <2>2. CASE units[w][current[w]] = {unit[w]}
    BY <1>3, <2>1, <2>2, ClaimsRowDone DEF ResultReclaimed, tables, bounds
  <2>3. CASE units[w][current[w]] # {unit[w]}
    BY <1>3, <2>3, ClaimsFrame DEF ResultReclaimed, tables, bounds, InHand
  <2> QED BY <2>2, <2>3
<1>4. CASE Unit(w) /\ ~ResultReclaimed(w)
  <2>1. UNCHANGED <<queue, claimed, todo, superseded, overruns, faults>>
    BY <1>4 DEF Unit, SkipUnloaded, DeferUnit, StartSearch, SearchReturns, SearchFails,
       WriteResult, tables, history, bounds
  <2> QED BY <2>1, ClaimsFrame DEF InHand
<1>5. CASE BeginBatch(w)
  BY <1>5, ClaimsFrame DEF BeginBatch, tables, history, bounds, InHand
<1> QED BY <1>1, <1>2, <1>3, <1>4, <1>5, ClaimsClaim, ClaimsRevert DEF Drain

\* Workers that lose their memory leave their claims in the table.
LEMMA ClaimsForget ==
    ASSUME TypeOK, ClaimsInv, NEW ws, Forget(ws), Fault, UNCHANGED queue
    PROVE  ClaimsInv'
<1>1. \A v \in Worker : InHand(v)' = IF v \in ws THEN {} ELSE InHand(v)
  BY DEF Forget, InHand
<1>2. faults' # 0 /\ UNCHANGED overruns
  BY DEF Fault, TypeOK, BoundsType
<1>3. OpenRowsUnclaimed'
  BY DEF ClaimsInv, OpenRowsUnclaimed
<1>4. HeldInProgress'
  BY <1>1 DEF ClaimsInv, HeldInProgress, ClaimHeld
<1>5. SupersededLostClaim'
  <2> SUFFICES ASSUME NEW v \in Worker, NEW t \in Target, <<v, t>> \in superseded'
               PROVE  t \in InHand(v)' /\ ~ClaimHeld(v, t)'
    BY DEF SupersededLostClaim
  <2>1. <<v, t>> \in superseded /\ v \notin ws
    BY DEF Forget
  <2> QED BY <2>1, <1>1 DEF ClaimsInv, SupersededLostClaim, ClaimHeld
<1>6. HandsHold'
  BY <1>1, <1>2 DEF ClaimsInv, HandsHold, ClaimHeld
<1>7. OnlyFaultsStrandRows'
  BY <1>2 DEF OnlyFaultsStrandRows
<1> QED BY <1>3, <1>4, <1>5, <1>6, <1>7 DEF ClaimsInv

\* A claim ages: the flag alone changes.
LEMMA ClaimsAge ==
    ASSUME TypeOK, ClaimsInv, NEW t \in Target, ClaimAges(t) \/ PassRunsLong(t)
    PROVE  ClaimsInv'
<1>1. /\ queue[t] \in Row /\ queue[t].status = "in_progress"
      /\ queue'[t] = [queue[t] EXCEPT !.stranded = TRUE]
      /\ \A u \in Target \ {t} : queue'[u] = queue[u]
  BY DEF ClaimAges, PassRunsLong, TypeOK, TablesType
<1>2. \A u \in Target : /\ queue'[u].status = queue[u].status
                         /\ queue'[u].claimed_by = queue[u].claimed_by
  <2>1. queue'[t].status = queue[t].status /\ queue'[t].claimed_by = queue[t].claimed_by
    BY <1>1 DEF Row
  <2> QED BY <1>1, <2>1
<1>9. /\ UNCHANGED <<superseded, faults>>
      /\ \A v \in Worker : InHand(v)' = InHand(v)
  BY DEF ClaimAges, PassRunsLong, history, bounds, local, InHand
<1>4. \A v \in Worker : InHand(v) \subseteq Target
  BY DEF InHand, TypeOK, LocalType
<1>10. queue[t].status = "in_progress" /\ \A u \in Target \ {t} : queue'[u] = queue[u]
  BY <1>1
<1>3. OpenRowsUnclaimed'
  BY <1>10, <1>2 DEF ClaimsInv, OpenRowsUnclaimed
<1>5. HeldInProgress'
  BY <1>9, <1>2, <1>4 DEF ClaimsInv, HeldInProgress, ClaimHeld
<1>6. SupersededLostClaim'
  BY <1>9, <1>2 DEF ClaimsInv, SupersededLostClaim, ClaimHeld
<1>7. HandsHold'
  <2>1. CASE ClaimAges(t)
    <3>1. UNCHANGED overruns
      BY <2>1 DEF ClaimAges, bounds
    <3>2. overruns = 0 => \A v \in Worker : t \notin InHand(v)
      BY <2>1 DEF ClaimAges, InSomeHand, ClaimsInv, HandsHold
    <3> QED BY <3>1, <3>2, <1>9, <1>10, <1>2, <1>4 DEF ClaimsInv, HandsHold, ClaimHeld
  <2>2. CASE PassRunsLong(t)
    <3>1. overruns' # 0
      BY <2>2 DEF PassRunsLong, TypeOK, BoundsType
    <3> QED BY <3>1 DEF HandsHold
  <2> QED BY <2>1, <2>2
<1>8. OnlyFaultsStrandRows'
  BY <1>9, <1>2 DEF ClaimsInv, OnlyFaultsStrandRows, InSomeHand, Rows, ClaimHeld
<1> QED BY <1>3, <1>5, <1>6, <1>7, <1>8 DEF ClaimsInv

LEMMA ClaimsDue ==
    ASSUME TypeOK, ClaimsInv, NEW t \in Target, RowComesDue(t)
    PROVE  ClaimsInv'
<1>1. /\ queue[t] \in Row /\ queue'[t] = [queue[t] EXCEPT !.due = TRUE]
      /\ \A u \in Target \ {t} : queue'[u] = queue[u]
      /\ UNCHANGED <<superseded, faults, overruns>>
      /\ \A v \in Worker : InHand(v)' = InHand(v)
  BY DEF RowComesDue, TypeOK, TablesType, history, bounds, local, InHand
<1>2. \A u \in Target : /\ queue'[u].status = queue[u].status
                         /\ queue'[u].claimed_by = queue[u].claimed_by
                         /\ queue'[u].stranded = queue[u].stranded
  BY <1>1 DEF Row
<1>3. \A v \in Worker : InHand(v) \subseteq Target
  BY DEF InHand, TypeOK, LocalType
<1>4. OpenRowsUnclaimed' /\ HeldInProgress'
  BY <1>1, <1>2, <1>3 DEF ClaimsInv, OpenRowsUnclaimed, HeldInProgress, ClaimHeld
<1>5. SupersededLostClaim' /\ HandsHold'
  BY <1>1, <1>2, <1>3 DEF ClaimsInv, SupersededLostClaim, HandsHold, ClaimHeld
<1>6. OnlyFaultsStrandRows'
  BY <1>1, <1>2 DEF ClaimsInv, OnlyFaultsStrandRows, InSomeHand, Rows, ClaimHeld
<1> QED BY <1>4, <1>5, <1>6 DEF ClaimsInv

LEMMA ClaimsOthers ==
    ASSUME TypeOK, ClaimsInv, Shutdown \/ Failures \/ Time \/ UNCHANGED vars
    PROVE  ClaimsInv'
<1>1. CASE Shutdown \/ UNCHANGED vars
  BY <1>1, ClaimsFrame DEF Shutdown, StopPool, PoolStopped, StartPool, vars, tables, local,
     history, bounds, InHand
<1>2. CASE Failures
  BY <1>2, ClaimsForget DEF Failures, Crash, WorkerFails, tables
<1>3. ASSUME NEW m \in Machine, NEW c \in Crawler, CooldownEnds(m, c) PROVE ClaimsInv'
  BY <1>3, ClaimsFrame DEF CooldownEnds, tables, local, history, bounds, InHand
<1>4. CASE Time
  BY <1>3, <1>4, ClaimsAge, ClaimsDue DEF Time
<1> QED BY <1>1, <1>2, <1>4

-----------------------------------------------------------------------------
(* What is owed. *)

Owes(q, d) ==
    \A t \in Target :
        d[t] \subseteq IF q[t].status \in {"pending", "in_progress"} THEN q[t].pending ELSE {}

LEMMA OwesSwept ==
    ASSUME NEW q, NEW d, NEW live, Owes(q, d)
    PROVE  Owes(Swept(q, live), SweptDebt(d, q, live))
BY DEF Owes, Swept, SweptDebt

LEMMA OwesBackfilled ==
    ASSUME TypeOK, Owes(queue, debt), NEW c \in Crawler, NEW locked
    PROVE  Owes(Backfilled(c, locked), BackfilledDebt(c, locked))
<1> SUFFICES ASSUME NEW t \in Target
             PROVE  BackfilledDebt(c, locked)[t] \subseteq
                        IF Backfilled(c, locked)[t].status \in {"pending", "in_progress"}
                        THEN Backfilled(c, locked)[t].pending ELSE {}
  BY DEF Owes
<1>0. queue[t] \in Row
  BY DEF TypeOK, TablesType
<1>1. CASE t \in Unpriced(c) \ locked
  <2>1. queue[t].status = "done" /\ t \notin Narrowed(c)
    BY <1>1 DEF Unpriced, Narrowed, Rows
  <2>2. Backfilled(c, locked)[t] = Requested({c})
    BY <1>1, <2>1 DEF Backfilled
  <2>3. BackfilledDebt(c, locked)[t] = debt[t] \cup {c} /\ debt[t] = {}
    BY <1>1, <2>1 DEF BackfilledDebt, Owes
  <2> QED BY <2>2, <2>3 DEF Requested
<1>2. CASE t \in Narrowed(c) \ locked
  <2>1. queue[t].status = "pending" /\ t \notin Unpriced(c)
    BY <1>2 DEF Narrowed, Unpriced, Rows
  <2>2. Backfilled(c, locked)[t] = [queue[t] EXCEPT !.pending = queue[t].pending \cup {c}, !.due = TRUE]
    BY <1>2, <2>1 DEF Backfilled
  <2>3. /\ Backfilled(c, locked)[t].status = "pending"
        /\ Backfilled(c, locked)[t].pending = queue[t].pending \cup {c}
    BY <1>0, <2>1, <2>2 DEF Row
  <2>4. BackfilledDebt(c, locked)[t] = debt[t] \cup {c} /\ debt[t] \subseteq queue[t].pending
    BY <1>2, <2>1 DEF BackfilledDebt, Owes
  <2> QED BY <2>3, <2>4
<1>3. CASE t \notin (Unpriced(c) \cup Narrowed(c)) \ locked
  <2>1. Backfilled(c, locked)[t] = queue[t] /\ BackfilledDebt(c, locked)[t] = debt[t]
    BY <1>3 DEF Backfilled, BackfilledDebt
  <2> QED BY <2>1 DEF Owes
<1> QED BY <1>1, <1>2, <1>3

OwedInv == OwedInHand /\ NothingOwedIsLost

LEMMA OwedIsOwes == NothingOwedIsLost <=> Owes(queue, debt)
BY DEF NothingOwedIsLost, Owes

LEMMA OwedRequests == ASSUME TypeOK, ClaimsInv, OwedInv, Requests PROVE OwedInv'
<1>0. Owes(queue, debt)
  BY OwedIsOwes DEF OwedInv
<1>1. Owes(queue', debt')
  <2>1. ASSUME NEW u \in Target, Enqueue(u) PROVE Owes(queue', debt')
    BY <1>0, <2>1 DEF Enqueue, Owes, Requested, TypeOK, TablesType, HistoryType
  <2>2. ASSUME NEW i \in Item, SaveStockItem(i) PROVE Owes(queue', debt')
    <3>1. queue[i] \in Row /\ i \in Target /\ queue[i].status = "pending"
      BY <2>2 DEF SaveStockItem, TypeOK, TablesType, Target
    <3>2. queue'[i].pending = Crawler /\ queue'[i].status = "pending" /\ debt'[i] = Crawler
      BY <2>2, <3>1 DEF SaveStockItem, TypeOK, TablesType, HistoryType, Row
    <3>3. \A t \in Target \ {i} : queue'[t] = queue[t] /\ debt'[t] = debt[t]
      BY <2>2 DEF SaveStockItem, TypeOK, TablesType, HistoryType
    <3> QED BY <1>0, <3>2, <3>3 DEF Owes
  <2>3. ASSUME NEW c \in Crawler, DisableCrawler(c) \/ ConvertToCatalog(c)
        PROVE  Owes(queue', debt')
    BY <1>0, <2>3, OwesSwept DEF DisableCrawler, ConvertToCatalog
  <2>4. ASSUME NEW c \in Crawler, NEW locked \in SUBSET Target, Backfill(c, locked)
        PROVE  Owes(queue', debt')
    BY <1>0, <2>4, OwesSwept, OwesBackfilled DEF Backfill
  <2>5. ASSUME NEW c \in Crawler, NEW locked \in SUBSET Target, NEW unlisted \in SUBSET Item,
               ConvertToRelease(c, locked, unlisted)
        PROVE  Owes(queue', debt')
    BY <1>0, <2>5, OwesSwept, OwesBackfilled DEF ConvertToRelease
  <2>6. CASE SweepDeadRows
    BY <1>0, <2>6, OwesSwept DEF SweepDeadRows
  <2>7. ASSUME NEW i \in Item, StockChanges(i) PROVE Owes(queue', debt')
    BY <1>0, <2>7 DEF StockChanges, history
  <2>8. ASSUME NEW c \in Crawler, EnableCrawler(c) \/ BackfillSkipped(c)
        PROVE  Owes(queue', debt')
    BY <1>0, <2>8 DEF EnableCrawler, BackfillSkipped, history
  <2> QED BY <2>1, <2>2, <2>3, <2>4, <2>5, <2>6, <2>7, <2>8 DEF Requests
<1>2. NothingOwedIsLost'
  BY <1>1 DEF Owes, NothingOwedIsLost
<1>3. OwedInHand'
  <2>1. \A t \in Target : \/ queue'[t] = queue[t] /\ debt'[t] = debt[t]
                          \/ queue'[t].claimed_by = NULL
    BY RequestRows DEF OpenRowWritten, ClaimsInv
  <2>2. UNCHANGED <<claimed, snapshot, todo, units, deferred>>
    BY RequestLocal DEF local
  <2>3. \A v \in Worker : v # NULL /\ claimed[v] \subseteq Target /\ todo[v] \subseteq Target
    BY QueueAssumption DEF TypeOK, LocalType
  <2> QED BY <2>1, <2>2, <2>3 DEF OwedInv, OwedInHand, ClaimHeld, WorkerId
<1> QED BY <1>2, <1>3 DEF OwedInv

\* A step that leaves the claims and what the rows name alone, in the table and in
\* every worker that does not lose its whole batch.
LEMMA OwedFrame ==
    ASSUME TypeOK, OwedInv,
           \A t \in Target : /\ queue'[t].status = queue[t].status
                             /\ queue'[t].pending = queue[t].pending
                             /\ queue'[t].claimed_by = queue[t].claimed_by,
           UNCHANGED debt,
           \A v \in Worker :
              \/ claimed'[v] = {} /\ todo'[v] = {}
              \/ /\ claimed'[v] = claimed[v] /\ todo'[v] = todo[v]
                 /\ snapshot'[v] = snapshot[v] /\ units'[v] = units[v]
                 /\ deferred'[v] = deferred[v]
    PROVE  OwedInv'
<1>1. NothingOwedIsLost'
  BY DEF OwedInv, NothingOwedIsLost
<1>2. \A v \in Worker : claimed[v] \subseteq Target /\ todo[v] \subseteq Target
  BY DEF TypeOK, LocalType
<1>3. OwedInHand'
  BY <1>2 DEF OwedInv, OwedInHand, ClaimHeld
<1> QED BY <1>1, <1>3 DEF OwedInv

LEMMA OwedClaim ==
    ASSUME TypeOK, ClaimsInv, OwedInv, BatchShape, NEW w \in Worker,
           NEW batch \in SUBSET Target, Claim(w, batch)
    PROVE  OwedInv'
<1>1. /\ claimed' = [claimed EXCEPT ![w] = batch] /\ todo[w] = {}
      /\ snapshot' = [snapshot EXCEPT ![w] =
                         [t \in Target |-> IF t \in batch THEN queue[t].pending ELSE {}]]
      /\ UNCHANGED <<todo, units, deferred, debt>>
  BY DEF Claim, BatchShape
<1>2. \A t \in Target :
         /\ queue'[t].pending = queue[t].pending
         /\ \/ queue'[t] = queue[t] /\ t \notin batch
            \/ /\ queue[t].status \in {"pending", "in_progress"}
               /\ queue'[t].status \in {"pending", "in_progress"}
               /\ queue'[t].claimed_by = IF t \in batch THEN w ELSE NULL
  <2> SUFFICES ASSUME NEW t \in Target
               PROVE  /\ queue'[t].pending = queue[t].pending
                      /\ \/ queue'[t] = queue[t] /\ t \notin batch
                         \/ /\ queue[t].status \in {"pending", "in_progress"}
                            /\ queue'[t].status \in {"pending", "in_progress"}
                            /\ queue'[t].claimed_by = IF t \in batch THEN w ELSE NULL
    OBVIOUS
  <2>1. queue[t] \in Row
    BY DEF TypeOK, TablesType
  <2>2. CASE t \in Reclaimable
    <3>1. queue[t].status = "in_progress"
      BY <2>2 DEF Reclaimable, Rows
    <3> QED BY <2>1, <2>2, <3>1 DEF Claim, HandBack, Row, WorkerId
  <2>3. CASE t \notin Reclaimable
    BY <2>1, <2>3 DEF Claim, Row, WorkerId
  <2> QED BY <2>2, <2>3
<1>3. NothingOwedIsLost'
  BY <1>1, <1>2 DEF OwedInv, NothingOwedIsLost
<1>4. \A v \in Worker : v # NULL /\ claimed[v] \subseteq Target /\ todo[v] \subseteq Target
  BY QueueAssumption DEF TypeOK, LocalType
<1>5. claimed'[w] = batch /\ todo'[w] = {}
      /\ \A t \in batch : snapshot'[w][t] = queue[t].pending
  BY <1>1 DEF TypeOK, LocalType
<1>6. \A v \in Worker \ {w} : claimed'[v] = claimed[v] /\ snapshot'[v] = snapshot[v]
  BY <1>1 DEF TypeOK, LocalType
<1>7. ASSUME NEW v \in Worker, v # w, NEW t \in Target, queue'[t].claimed_by = v
      PROVE  queue[t].claimed_by = v
  BY <1>2, <1>4, <1>7
<1>8. \A t \in batch : debt'[t] \subseteq queue[t].pending
  BY <1>1, <1>2 DEF OwedInv, NothingOwedIsLost
<1>9. OwedInHand'
  <2> SUFFICES ASSUME NEW v \in Worker
               PROVE  /\ \A t \in claimed'[v] :
                            queue'[t].claimed_by = v => debt'[t] \subseteq snapshot'[v][t]
                      /\ \A t \in todo'[v] \ claimed'[v] :
                            queue'[t].claimed_by = v =>
                                debt'[t] \subseteq units'[v][t] \cup deferred'[v][t]
    BY DEF OwedInHand, ClaimHeld, WorkerId
  <2>1. CASE v = w
    BY <2>1, <1>5, <1>8
  <2>2. CASE v # w
    BY <2>2, <1>1, <1>4, <1>6, <1>7 DEF OwedInv, OwedInHand, ClaimHeld, WorkerId
  <2> QED BY <2>1, <2>2
<1> QED BY <1>3, <1>9 DEF OwedInv

LEMMA OwedRevert ==
    ASSUME TypeOK, OwedInv, BatchShape, NEW w \in Worker, RevertClaim(w)
    PROVE  OwedInv'
<1>1. /\ claimed'[w] = {} /\ todo'[w] = {} /\ UNCHANGED <<todo, units, deferred, debt>>
      /\ \A v \in Worker \ {w} : claimed'[v] = claimed[v] /\ snapshot'[v] = snapshot[v]
  BY DEF RevertClaim, BatchShape, TypeOK, LocalType
<1>2. \A t \in Target :
         /\ queue'[t].pending = queue[t].pending
         /\ \/ queue'[t] = queue[t]
            \/ queue'[t].status = "pending" /\ queue'[t].claimed_by = NULL
  <2> SUFFICES ASSUME NEW t \in Target
               PROVE  /\ queue'[t].pending = queue[t].pending
                      /\ \/ queue'[t] = queue[t]
                         \/ queue'[t].status = "pending" /\ queue'[t].claimed_by = NULL
    OBVIOUS
  <2>1. queue[t] \in Row
    BY DEF TypeOK, TablesType
  <2> QED BY <2>1 DEF RevertClaim, Reverted, HandBack, Row
<1>3. NothingOwedIsLost'
  BY <1>1, <1>2 DEF OwedInv, NothingOwedIsLost
<1>4. \A v \in Worker : v # NULL /\ claimed[v] \subseteq Target /\ todo[v] \subseteq Target
  BY QueueAssumption DEF TypeOK, LocalType
<1>5. OwedInHand'
  <2> SUFFICES ASSUME NEW v \in Worker
               PROVE  /\ \A t \in claimed'[v] :
                            queue'[t].claimed_by = v => debt'[t] \subseteq snapshot'[v][t]
                      /\ \A t \in todo'[v] \ claimed'[v] :
                            queue'[t].claimed_by = v =>
                                debt'[t] \subseteq units'[v][t] \cup deferred'[v][t]
    BY DEF OwedInHand, ClaimHeld, WorkerId
  <2>1. CASE v = w
    BY <2>1, <1>1
  <2>2. CASE v # w
    BY <2>2, <1>1, <1>2, <1>4 DEF OwedInv, OwedInHand, ClaimHeld, WorkerId
  <2> QED BY <2>1, <2>2
<1> QED BY <1>3, <1>5 DEF OwedInv

LEMMA OwedResolveTarget ==
    ASSUME TypeOK, OwedInv, BatchShape, NEW w \in Worker, NEW t \in Target, ResolveTarget(w, t)
    PROVE  OwedInv'
<1>1. /\ t \in claimed[w] /\ UNCHANGED <<queue, deferred>>
      /\ units' = [units EXCEPT ![w][t] = Eligible(t, snapshot[w][t])]
      /\ claimed' = [claimed EXCEPT ![w] = claimed[w] \ {t}]
      /\ todo' = [todo EXCEPT ![w] = todo[w] \cup {t}]
      /\ snapshot' = [snapshot EXCEPT ![w][t] = {}]
      /\ debt' = IF ClaimHeld(w, t)
                 THEN [debt EXCEPT ![t] = debt[t] \cap Eligible(t, Crawler)] ELSE debt
  BY DEF ResolveTarget, tables
<1>2. \A u \in Target : debt'[u] \subseteq debt[u]
  BY <1>1 DEF TypeOK, HistoryType
<1>3. NothingOwedIsLost'
  BY <1>1, <1>2 DEF OwedInv, NothingOwedIsLost
<1>4. ClaimHeld(w, t) => debt'[t] \subseteq Eligible(t, snapshot[w][t])
  <2>1. SUFFICES ASSUME ClaimHeld(w, t) PROVE debt'[t] \subseteq Eligible(t, snapshot[w][t])
    OBVIOUS
  <2>2. debt[t] \subseteq snapshot[w][t]
    BY <1>1, <2>1 DEF OwedInv, OwedInHand
  <2>3. debt'[t] = debt[t] \cap Eligible(t, Crawler)
    BY <1>1, <2>1 DEF TypeOK, HistoryType
  <2> QED BY <2>2, <2>3 DEF Eligible
<1>5. OwedInHand'
  <2> SUFFICES ASSUME NEW v \in Worker
               PROVE  /\ \A u \in claimed'[v] :
                            ClaimHeld(v, u) => debt'[u] \subseteq snapshot'[v][u]
                      /\ \A u \in todo'[v] \ claimed'[v] :
                            ClaimHeld(v, u) => debt'[u] \subseteq units'[v][u] \cup deferred[v][u]
    BY <1>1 DEF OwedInHand, ClaimHeld
  <2>0. claimed[v] \subseteq Target /\ todo[v] \subseteq Target
    BY DEF TypeOK, LocalType
  <2>1. CASE v = w
    <3>1. /\ claimed'[v] = claimed[v] \ {t} /\ todo'[v] = todo[v] \cup {t}
          /\ units'[v][t] = Eligible(t, snapshot[w][t])
          /\ \A u \in Target \ {t} : snapshot'[v][u] = snapshot[v][u] /\ units'[v][u] = units[v][u]
      BY <1>1, <2>1 DEF TypeOK, LocalType
    <3> QED BY <1>2, <1>4, <2>0, <2>1, <3>1 DEF OwedInv, OwedInHand
  <2>2. CASE v # w
    <3>1. /\ claimed'[v] = claimed[v] /\ todo'[v] = todo[v]
          /\ units'[v] = units[v] /\ snapshot'[v] = snapshot[v]
      BY <1>1, <2>2 DEF TypeOK, LocalType
    <3> QED BY <1>2, <2>0, <3>1 DEF OwedInv, OwedInHand
  <2> QED BY <2>1, <2>2
<1> QED BY <1>3, <1>5 DEF OwedInv

\* A unit is over: run for a row still held, put off, or dropped with the claim.
LEMMA OwedUnitDone ==
    ASSUME TypeOK, OwedInv, NEW w \in Worker, NEW t \in Target, NEW c \in Crawler,
           UnitDone(w, t, c), UNCHANGED <<queue, claimed, snapshot, todo>>,
           \/ Attempted(w, t, c) /\ UNCHANGED deferred
           \/ UNCHANGED debt /\ deferred' = [deferred EXCEPT ![w][t] = deferred[w][t] \cup {c}]
           \/ ~ClaimHeld(w, t) /\ UNCHANGED <<debt, deferred>>
    PROVE  OwedInv'
<1>1. /\ \A u \in Target : debt'[u] \subseteq debt[u]
      /\ \A v \in Worker, u \in Target :
            <<v, u>> # <<w, t>> => units'[v][u] = units[v][u] /\ deferred'[v][u] = deferred[v][u]
      /\ units'[w][t] = units[w][t] \ {c} /\ deferred[w][t] \subseteq deferred'[w][t]
      /\ ClaimHeld(w, t) => c \notin debt'[t] \/ c \in deferred'[w][t]
  <2>1. /\ debt \in [Target -> SUBSET Crawler]
        /\ units \in [Worker -> [Target -> SUBSET Crawler]]
        /\ deferred \in [Worker -> [Target -> SUBSET Crawler]]
        /\ units' = [units EXCEPT ![w][t] = units[w][t] \ {c}]
    BY DEF UnitDone, TypeOK, HistoryType, LocalType
  <2>2. /\ units'[w][t] = units[w][t] \ {c}
        /\ \A v \in Worker, u \in Target : <<v, u>> # <<w, t>> => units'[v][u] = units[v][u]
    BY <2>1
  <2>3. CASE Attempted(w, t, c) /\ UNCHANGED deferred
    <3>1. debt' = IF ClaimHeld(w, t) THEN [debt EXCEPT ![t] = debt[t] \ {c}] ELSE debt
      BY <2>3 DEF Attempted
    <3> QED BY <2>1, <2>2, <2>3, <3>1
  <2>4. CASE UNCHANGED debt /\ deferred' = [deferred EXCEPT ![w][t] = deferred[w][t] \cup {c}]
    BY <2>1, <2>2, <2>4
  <2>5. CASE ~ClaimHeld(w, t) /\ UNCHANGED <<debt, deferred>>
    BY <2>2, <2>5
  <2> QED BY <2>3, <2>4, <2>5
<1>2. NothingOwedIsLost'
  BY <1>1 DEF OwedInv, NothingOwedIsLost
<1>3. OwedInHand'
  <2> SUFFICES ASSUME NEW v \in Worker
               PROVE  /\ \A u \in claimed[v] :
                            ClaimHeld(v, u) => debt'[u] \subseteq snapshot[v][u]
                      /\ \A u \in todo[v] \ claimed[v] :
                            ClaimHeld(v, u) => debt'[u] \subseteq units'[v][u] \cup deferred'[v][u]
    BY DEF OwedInHand, ClaimHeld
  <2>0. claimed[v] \subseteq Target /\ todo[v] \subseteq Target
    BY DEF TypeOK, LocalType
  <2>1. \A u \in claimed[v] : ClaimHeld(v, u) => debt'[u] \subseteq snapshot[v][u]
    BY <1>1, <2>0 DEF OwedInv, OwedInHand
  <2>2. ASSUME NEW u \in todo[v] \ claimed[v], ClaimHeld(v, u)
        PROVE  debt'[u] \subseteq units'[v][u] \cup deferred'[v][u]
    <3>1. debt[u] \subseteq units[v][u] \cup deferred[v][u]
      BY <2>2 DEF OwedInv, OwedInHand
    <3> QED BY <1>1, <2>0, <2>2, <3>1
  <2> QED BY <2>1, <2>2
<1> QED BY <1>2, <1>3 DEF OwedInv

\* A row leaves its worker's hands: dropped because the claim is gone, or resolved.
LEMMA OwedRowDone ==
    ASSUME TypeOK, OwedInv, BatchShape, NEW w \in Worker, NEW t \in Target, RowDone(w, t),
           UNCHANGED <<claimed, snapshot, debt>>, claimed[w] = {},
           \A u \in Target \ {t} : queue'[u] = queue[u],
           ~ClaimHeld(w, t) => queue'[t] = queue[t],
           ClaimHeld(w, t) =>
               /\ t \in todo[w] /\ units[w][t] = {}
               /\ queue'[t].claimed_by \in {w, NULL}
               /\ \/ queue'[t].status = "done" /\ deferred[w][t] = {}
                  \/ queue'[t].status = "pending" /\ queue'[t].pending = deferred[w][t]
    PROVE  OwedInv'
<1>1. NothingOwedIsLost'
  <2>1. ClaimHeld(w, t) => debt[t] \subseteq deferred[w][t]
    BY DEF OwedInv, OwedInHand
  <2> QED BY <2>1 DEF OwedInv, NothingOwedIsLost
<1>2. /\ todo' = [todo EXCEPT ![w] = todo[w] \ {t}]
      /\ units' = [units EXCEPT ![w][t] = {}]
      /\ deferred' = [deferred EXCEPT ![w][t] = {}]
  BY DEF RowDone
<1>3. OwedInHand'
  <2> SUFFICES ASSUME NEW v \in Worker
               PROVE  /\ \A u \in claimed[v] :
                            queue'[u].claimed_by = v => debt[u] \subseteq snapshot[v][u]
                      /\ \A u \in todo'[v] \ claimed[v] :
                            queue'[u].claimed_by = v =>
                                debt[u] \subseteq units'[v][u] \cup deferred'[v][u]
    BY DEF OwedInHand, ClaimHeld, WorkerId
  <2>0. claimed[v] \subseteq Target /\ todo[v] \subseteq Target /\ v # NULL
    BY QueueAssumption DEF TypeOK, LocalType
  <2>1. CASE v = w
    <3>1. /\ claimed[v] = {} /\ todo'[v] = todo[v] \ {t}
          /\ \A u \in Target \ {t} : units'[v][u] = units[v][u] /\ deferred'[v][u] = deferred[v][u]
      BY <1>2, <2>1 DEF TypeOK, LocalType
    <3> QED BY <2>0, <3>1 DEF OwedInv, OwedInHand, ClaimHeld, WorkerId
  <2>2. CASE v # w
    <3>1. todo'[v] = todo[v] /\ units'[v] = units[v] /\ deferred'[v] = deferred[v]
      BY <1>2, <2>2 DEF TypeOK, LocalType
    <3>2. \A u \in Target : queue'[u].claimed_by = v => queue[u].claimed_by = v
      BY <2>0, <2>2 DEF ClaimHeld, WorkerId
    <3> QED BY <2>0, <3>1, <3>2 DEF OwedInv, OwedInHand, ClaimHeld, WorkerId
  <2> QED BY <2>1, <2>2
<1> QED BY <1>1, <1>3 DEF OwedInv

LEMMA OwedDrain ==
    ASSUME TypeOK, ClaimsInv, OwedInv, BatchShape, NEW w \in Worker, Drain(w)
    PROVE  OwedInv'
<1>1. ASSUME NEW t \in Target, ResolveRow(w, t) PROVE OwedInv'
  <2>1. /\ queue[t] \in Row
        /\ queue' = IF ClaimHeld(w, t)
                   THEN [queue EXCEPT ![t] = Resolved(queue[t], MachineOf(w), deferred[w][t])]
                   ELSE queue
        /\ queue \in [Target -> Row]
    BY <1>1 DEF ResolveRow, TypeOK, TablesType
  <2>2. /\ t \in todo[w] /\ units[w][t] = {} /\ claimed[w] = {}
        /\ RowDone(w, t) /\ UNCHANGED <<claimed, snapshot, debt>>
    BY <1>1 DEF ResolveRow, BatchShape, Bare
  <2>3. LET row == Resolved(queue[t], MachineOf(w), deferred[w][t])
        IN  /\ row.claimed_by \in {queue[t].claimed_by, NULL}
            /\ \/ row.status = "done" /\ deferred[w][t] = {}
               \/ row.status = "pending" /\ row.pending = deferred[w][t]
    BY <2>1 DEF Resolved, Row
  <2>4. /\ \A u \in Target \ {t} : queue'[u] = queue[u]
        /\ ~ClaimHeld(w, t) => queue'[t] = queue[t]
        /\ ClaimHeld(w, t) =>
               /\ queue'[t].claimed_by \in {w, NULL}
               /\ \/ queue'[t].status = "done" /\ deferred[w][t] = {}
                  \/ queue'[t].status = "pending" /\ queue'[t].pending = deferred[w][t]
    BY <2>1, <2>3 DEF ClaimHeld, WorkerId
  <2> QED BY <2>2, <2>4, OwedRowDone
<1>2. CASE ResultReclaimed(w)
  <2>1. /\ current[w] \in Target /\ unit[w] \in Crawler /\ claimed[w] = {}
        /\ pc[w] = "writing" /\ ~ClaimHeld(w, current[w])
        /\ UNCHANGED <<queue, claimed, snapshot, debt>>
    BY <1>2, UnitInHand DEF ResultReclaimed, TypeOK, BatchShape, tables
  <2>2. CASE units[w][current[w]] = {unit[w]}
    BY <1>2, <2>1, <2>2, OwedRowDone DEF ResultReclaimed
  <2>3. CASE units[w][current[w]] # {unit[w]}
    BY <1>2, <2>1, <2>3, OwedUnitDone DEF ResultReclaimed
  <2> QED BY <2>2, <2>3
<1>3. ASSUME NEW t \in Target, NEW c \in Crawler, SkipUnloaded(w, t, c) \/ DeferUnit(w, t, c)
      PROVE  OwedInv'
  BY <1>3, OwedUnitDone DEF SkipUnloaded, DeferUnit, tables, history
<1>4. CASE SearchFails(w) \/ WriteResult(w)
  <2>1. /\ current[w] \in Target /\ unit[w] \in Crawler
        /\ UnitDone(w, current[w], unit[w]) /\ Attempted(w, current[w], unit[w])
        /\ UNCHANGED <<queue, claimed, snapshot, todo, deferred>>
    BY <1>4, UnitInHand DEF SearchFails, WriteResult, TypeOK, tables
  <2> QED BY <2>1, OwedUnitDone
<1>5. CASE \/ BeginBatch(w)
           \/ \E t \in Target, c \in Crawler : StartSearch(w, t, c)
           \/ \E outcome \in Outcome, bot \in BOOLEAN : SearchReturns(w, outcome, bot)
  <2>1. UNCHANGED <<queue, debt, claimed, todo, snapshot, units, deferred>>
    BY <1>5 DEF BeginBatch, StartSearch, SearchReturns, tables, history
  <2> QED BY <2>1, OwedFrame
<1> QED BY <1>1, <1>2, <1>3, <1>4, <1>5, OwedClaim, OwedRevert, OwedResolveTarget DEF Drain, Unit

LEMMA OwedOthers ==
    ASSUME TypeOK, OwedInv, Shutdown \/ Failures \/ Time \/ UNCHANGED vars
    PROVE  OwedInv'
<1>1. CASE Shutdown \/ UNCHANGED vars
  BY <1>1, OwedFrame DEF Shutdown, StopPool, PoolStopped, StartPool, vars, tables, local, history
<1>2. ASSUME NEW ws, Forget(ws), UNCHANGED <<queue, debt>> PROVE OwedInv'
  BY <1>2, OwedFrame DEF Forget
<1>3. CASE Failures
  BY <1>2, <1>3 DEF Failures, Crash, WorkerFails, tables
<1>4. ASSUME NEW t \in Target, ClaimAges(t) \/ PassRunsLong(t) \/ RowComesDue(t)
      PROVE  OwedInv'
  <2>1. /\ queue[t] \in Row /\ \A u \in Target \ {t} : queue'[u] = queue[u]
        /\ \/ queue'[t] = [queue[t] EXCEPT !.stranded = TRUE]
           \/ queue'[t] = [queue[t] EXCEPT !.due = TRUE]
    BY <1>4 DEF ClaimAges, PassRunsLong, RowComesDue, TypeOK, TablesType
  <2>2. /\ queue'[t].status = queue[t].status /\ queue'[t].pending = queue[t].pending
        /\ queue'[t].claimed_by = queue[t].claimed_by
    BY <2>1 DEF Row
  <2>3. \A u \in Target : /\ queue'[u].status = queue[u].status
                          /\ queue'[u].pending = queue[u].pending
                          /\ queue'[u].claimed_by = queue[u].claimed_by
    BY <2>1, <2>2
  <2>4. UNCHANGED <<debt, claimed, todo, snapshot, units, deferred>>
    BY <1>4 DEF ClaimAges, PassRunsLong, RowComesDue, history, local
  <2> QED BY <2>3, <2>4, OwedFrame
<1>5. ASSUME NEW m \in Machine, NEW c \in Crawler, CooldownEnds(m, c) PROVE OwedInv'
  BY <1>5, OwedFrame DEF CooldownEnds, tables, local, history
<1>6. CASE Time
  BY <1>4, <1>5, <1>6 DEF Time
<1> QED BY <1>1, <1>3, <1>6

-----------------------------------------------------------------------------
(* Listings. *)

LEMMA ListingsStep ==
    ASSUME TypeOK, BatchShape, NoListingOutlivesConversion, [Next]_vars
    PROVE  NoListingOutlivesConversion'
<1>1. ASSUME UNCHANGED <<priced, marketplace>> PROVE NoListingOutlivesConversion'
  BY <1>1 DEF NoListingOutlivesConversion
<1>2. ASSUME NEW c \in Crawler, ConvertToCatalog(c) PROVE NoListingOutlivesConversion'
  BY <1>2 DEF ConvertToCatalog, NoListingOutlivesConversion
<1>3. ASSUME NEW c \in Crawler, NEW locked, NEW unlisted, ConvertToRelease(c, locked, unlisted)
      PROVE  NoListingOutlivesConversion'
  BY <1>3 DEF ConvertToRelease, NoListingOutlivesConversion
<1>4. CASE Requests
  BY <1>1, <1>2, <1>3, <1>4 DEF Requests, Enqueue, SaveStockItem, StockChanges, EnableCrawler,
     DisableCrawler, Backfill, BackfillSkipped, SweepDeadRows
<1>5. ASSUME NEW w \in Worker, WriteResult(w) PROVE NoListingOutlivesConversion'
  <2>1. /\ UNCHANGED marketplace /\ current[w] \in Target /\ priced \in [Target -> SUBSET Crawler]
        /\ priced' = [priced EXCEPT ![current[w]] = Listings(current[w], unit[w], result[w])]
    BY <1>5, UnitInHand DEF WriteResult, TypeOK, TablesType
  <2>2. Listings(current[w], unit[w], result[w]) \subseteq marketplace
    BY <2>1 DEF Listings, NoListingOutlivesConversion
  <2> QED BY <2>1, <2>2 DEF NoListingOutlivesConversion
<1>6. ASSUME NEW w \in Worker, Drain(w) PROVE NoListingOutlivesConversion'
  <2>1. CASE WriteResult(w)
    BY <1>5, <2>1
  <2>2. CASE ~WriteResult(w)
    <3>1. UNCHANGED <<priced, marketplace>>
      BY <1>6, <2>2 DEF Drain, Unit, Claim, RevertClaim, BeginBatch, ResolveTarget, ResolveRow,
         SkipUnloaded, DeferUnit, StartSearch, SearchReturns, SearchFails, ResultReclaimed, tables
    <3> QED BY <1>1, <3>1
  <2> QED BY <2>1, <2>2
<1>7. CASE Shutdown \/ Failures \/ Time \/ UNCHANGED vars
  BY <1>1, <1>7 DEF Shutdown, StopPool, PoolStopped, StartPool, Failures, Crash, WorkerFails,
     Time, ClaimAges, PassRunsLong, RowComesDue, CooldownEnds, vars, tables
<1> QED BY <1>4, <1>6, <1>7 DEF Next

-----------------------------------------------------------------------------
(* The theorems. *)

LEMMA InvInit == Init => Inv
<1> SUFFICES ASSUME Init PROVE Inv
  OBVIOUS
<1>1. TypeOK
  BY TypeInit
<1>2. OpenRowsUnclaimed /\ NothingOwedIsLost /\ NoListingOutlivesConversion
  BY DEF Init, Absent, OpenRowsUnclaimed, NothingOwedIsLost, NoListingOutlivesConversion
<1>3. BatchShape /\ HeldInProgress /\ OwedInHand /\ SupersededLostClaim /\ HandsHold
  BY DEF Init, BatchShape, HeldInProgress, OwedInHand, SupersededLostClaim, HandsHold, InHand
<1>4. OnlyFaultsStrandRows
  BY DEF Init, Absent, OnlyFaultsStrandRows, Rows
<1> QED BY <1>1, <1>2, <1>3, <1>4 DEF Inv

LEMMA InvStep == Inv /\ [Next]_vars => Inv'
<1> SUFFICES ASSUME Inv, [Next]_vars PROVE Inv'
  OBVIOUS
<1>1. TypeOK /\ BatchShape /\ ClaimsInv /\ OwedInv /\ NoListingOutlivesConversion
  BY DEF Inv, ClaimsInv, OwedInv
<1>2. CASE Requests
  <2>1. TypeOK' /\ BatchShape'
    BY <1>1, <1>2, TypeRequests, RequestLocal, ShapeFrame
  <2>2. ClaimsInv' /\ OwedInv'
    BY <1>1, <1>2, ClaimsRequests, OwedRequests
  <2> QED BY <1>1, <2>1, <2>2, ListingsStep DEF Inv, ClaimsInv, OwedInv
<1>3. ASSUME NEW w \in Worker, Drain(w) PROVE Inv'
  <2>1. TypeOK' /\ BatchShape'
    BY <1>1, <1>3, TypeDrain, ShapeDrain
  <2>2. ClaimsInv' /\ OwedInv'
    BY <1>1, <1>3, ClaimsDrain, OwedDrain
  <2> QED BY <1>1, <2>1, <2>2, ListingsStep DEF Inv, ClaimsInv, OwedInv
<1>4. CASE Shutdown \/ Failures \/ Time \/ UNCHANGED vars
  <2>1. TypeOK' /\ BatchShape'
    BY <1>1, <1>4, TypeOthers, ShapeOthers
  <2>2. ClaimsInv' /\ OwedInv'
    BY <1>1, <1>4, ClaimsOthers, OwedOthers
  <2> QED BY <1>1, <2>1, <2>2, ListingsStep DEF Inv, ClaimsInv, OwedInv
<1> QED BY <1>2, <1>3, <1>4 DEF Next

\* The inductive invariant holds in every reachable state of the queue and its workers,
\* whatever the number of Machines, workers, crawlers and rows.
THEOREM QueueInvariant == Spec => []Inv
BY InvInit, InvStep, PTL DEF Spec

\* Every column of the queue and every local variable of a worker keeps its type.
THEOREM TypeCorrect == Spec => []TypeOK
<1>1. Inv => TypeOK
  BY DEF Inv
<1> QED BY <1>1, QueueInvariant, PTL

\* A crawler promised to a target is never lost before it ran: crashes, shutdowns,
\* reclaims, deferrals and backfills included.
THEOREM OwedIsKept == Spec => []NothingOwedIsLost
<1>1. Inv => NothingOwedIsLost
  BY DEF Inv
<1> QED BY <1>1, QueueInvariant, PTL

\* Until a live pass outlasts the stranded threshold no row is in two workers' hands,
\* on one Machine or on two.
THEOREM RowsAreExclusive == Spec => []OneWorkerPerRow
<1>1. Inv => OneWorkerPerRow
  BY DEF Inv, HandsHold, OneWorkerPerRow, ClaimHeld, WorkerId
<1> QED BY <1>1, QueueInvariant, PTL

\* Without a crash or an escaped exception every in-progress row has its worker, through
\* any number of pool shutdowns and restarts.
THEOREM ShutdownStrandsNothing == Spec => []OnlyFaultsStrandRows
<1>1. Inv => OnlyFaultsStrandRows
  BY DEF Inv
<1> QED BY <1>1, QueueInvariant, PTL

\* A crawler converted to a catalog kind keeps no listing, whatever was in flight.
THEOREM ConversionIsFinal == Spec => []NoListingOutlivesConversion
<1>1. Inv => NoListingOutlivesConversion
  BY DEF Inv
<1> QED BY <1>1, QueueInvariant, PTL

\* A worker whose row was claimed by another one since writes neither row nor listing.
THEOREM SupersededIsHarmless == Spec => SupersededWritesNothing
<1>1. ASSUME Inv, NEW w \in Worker, NEW t \in Target, <<w, t>> \in superseded,
             (WriteResult(w) /\ current[w] = t) \/ ResolveRow(w, t)
      PROVE  queue'[t] = queue[t] /\ priced'[t] = priced[t]
  <2>1. ~ClaimHeld(w, t)
    BY <1>1 DEF Inv, SupersededLostClaim
  <2> QED BY <1>1, <2>1 DEF WriteResult, ResolveRow
<1>2. Inv => [\A w \in Worker, t \in Target :
                 /\ <<w, t>> \in superseded
                 /\ (WriteResult(w) /\ current[w] = t) \/ ResolveRow(w, t)
                 => queue'[t] = queue[t] /\ priced'[t] = priced[t]]_vars
  BY <1>1
<1> QED BY <1>2, QueueInvariant, PTL DEF SupersededWritesNothing

\* No request touches a row that a worker has claimed.
THEOREM ClaimedRowsAreLeftAlone == Spec => RequestsLeaveClaimedRows
<1>1. Inv => [Requests => \A t \in Rows("in_progress") : queue'[t] = queue[t]]_vars
  BY RequestRows DEF Inv, Rows, OpenRowWritten
<1> QED BY <1>1, QueueInvariant, PTL DEF RequestsLeaveClaimedRows
=============================================================================
