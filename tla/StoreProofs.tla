----------------------------- MODULE StoreProofs ------------------------------
(*******************************************************************************)
(* The proofs about StockSync and CatalogWalk: for every set of Machines and  *)
(* stores and every bound, and for every number of products, pages and        *)
(* retries of a store's list.                                                 *)
(*                                                                            *)
(* StockSync: StockInv follows each Machine by itself.  RunShape says what    *)
(* the run has in hand, by its scope: that is what makes replacing a resume   *)
(* job safe.                                                                  *)
(*                                                                            *)
(* CatalogWalk: WalkInv says that what was read so far are the tallies of     *)
(* some products the store may list.  A guard is a statement about the        *)
(* tallies, so what a crawler's guard refuses or passes is decided by lemmas  *)
(* about one product at a time, for each crawler's file: which losses its     *)
(* guards count and which they miss (tables of CatalogWalk), and what tallies *)
(* a product leaves that lost none of them.                                   *)
(*******************************************************************************)
EXTENDS StockSync, CatalogWalk, DataLemmas

-----------------------------------------------------------------------------
(* Stock sync runs. *)

Run == [at : {"idle", "started", "next", "crawling", "writing"},
        scope : {"none", "full", "one", "resume"},
        todo : Seq(Store), limited : Seq(Store), inARow : Nat]

StockType ==
    /\ stores \in [Store -> [enabled : BOOLEAN, catalog : BOOLEAN, listed : BOOLEAN]]
    /\ sync \in [StockMachine -> Run]
    /\ resume \in [StockMachine -> Seq(Store)]
    /\ owed \in [StockMachine -> SUBSET Store]

\* What a run has in hand, by its scope.  A resume has no other resume beside it, a full run
\* has every store that is due, and a run of one store meets no second 429.
RunShape(run, pending, due) ==
    /\ run.at = "idle" => run = IdleSync
    /\ run.at # "idle" => run.scope # "none"
    /\ run.at = "started" => run.limited = <<>>
    /\ run.at = "started" /\ run.scope = "full" => run.todo = <<>>
    /\ run.at \in {"crawling", "writing"} => run.todo # <<>>
    /\ run.scope = "one" => Len(run.todo) <= 1 /\ (run.todo # <<>> => run.inARow = 0)
    /\ run.scope = "resume" => pending = <<>>
    /\ run.scope = "full" /\ run.at # "started"
       => due \subseteq ToSet(run.todo) \cup ToSet(run.limited)
    /\ due \subseteq ToSet(pending) \cup ToSet(run.todo) \cup ToSet(run.limited)

StockInv ==
    /\ StockType
    /\ \A m \in StockMachine : RunShape(sync[m], resume[m], owed[m])

\* The idle run is a run.
LEMMA IdleRun == IdleSync \in Run
BY DEF IdleSync, Run

\* What is due then is in the pending resume.
LEMMA IdleShape ==
    ASSUME NEW pending, NEW due, due \subseteq ToSet(pending)
    PROVE  RunShape(IdleSync, pending, due)
BY ToSetEmpty DEF RunShape, IdleSync

\* What holds of the run of m before its step.
LEMMA RunFacts ==
    ASSUME StockInv, NEW m \in StockMachine
    PROVE  /\ sync[m] \in Run /\ resume[m] \in Seq(Store) /\ owed[m] \in SUBSET Store
           /\ sync[m].todo \in Seq(Store) /\ sync[m].limited \in Seq(Store)
           /\ sync[m].inARow \in Nat
           /\ RunShape(sync[m], resume[m], owed[m])
           /\ sync = [sync EXCEPT ![m] = sync[m]]
           /\ resume = [resume EXCEPT ![m] = resume[m]]
           /\ owed = [owed EXCEPT ![m] = owed[m]]
<1>1. sync[m] \in Run /\ resume[m] \in Seq(Store) /\ owed[m] \in SUBSET Store
  BY DEF StockInv, StockType
<1>2. /\ sync = [sync EXCEPT ![m] = sync[m]]
      /\ resume = [resume EXCEPT ![m] = resume[m]]
      /\ owed = [owed EXCEPT ![m] = owed[m]]
  BY DEF StockInv, StockType
<1> QED BY <1>1, <1>2 DEF Run, StockInv

\* A step of one Machine leaves the others as they are.
LEMMA OneMachine ==
    ASSUME StockInv, NEW m \in StockMachine,
           NEW run \in Run, sync' = [sync EXCEPT ![m] = run],
           NEW pending \in Seq(Store), resume' = [resume EXCEPT ![m] = pending],
           NEW due \in SUBSET Store, owed' = [owed EXCEPT ![m] = due],
           RunShape(run, pending, due),
           stores' \in [Store -> [enabled : BOOLEAN, catalog : BOOLEAN, listed : BOOLEAN]]
    PROVE  StockInv'
<1>1. StockType
  BY DEF StockInv
<1>2. sync' \in [StockMachine -> Run] /\ sync'[m] = run
      /\ \A n \in StockMachine : n # m => sync'[n] = sync[n]
  BY <1>1 DEF StockType
<1>3. resume' \in [StockMachine -> Seq(Store)] /\ resume'[m] = pending
      /\ \A n \in StockMachine : n # m => resume'[n] = resume[n]
  BY <1>1 DEF StockType
<1>4. owed' \in [StockMachine -> SUBSET Store] /\ owed'[m] = due
      /\ \A n \in StockMachine : n # m => owed'[n] = owed[n]
  BY <1>1 DEF StockType
<1>5. StockType'
  BY <1>2, <1>3, <1>4 DEF StockType
<1>6. ASSUME NEW n \in StockMachine PROVE RunShape(sync'[n], resume'[n], owed'[n])
  <2>1. CASE n = m
    BY <2>1, <1>2, <1>3, <1>4
  <2>2. CASE n # m
    <3>1. sync'[n] = sync[n] /\ resume'[n] = resume[n] /\ owed'[n] = owed[n]
      BY <2>2, <1>2, <1>3, <1>4
    <3>2. RunShape(sync[n], resume[n], owed[n])
      BY DEF StockInv
    <3> QED BY <3>1, <3>2
  <2> QED BY <2>1, <2>2
<1> QED BY <1>5, <1>6 DEF StockInv

\* The part of the type that no run changes.
LEMMA StoresTyped ==
    ASSUME StockInv
    PROVE  stores \in [Store -> [enabled : BOOLEAN, catalog : BOOLEAN, listed : BOOLEAN]]
BY DEF StockInv, StockType

-----------------------------------------------------------------------------
(* One lemma per action. *)

\* What a start puts in hand keeps what is due: _start_stock_sync.
LEMMA StockStarts ==
    ASSUME StockInv, NEW m \in StockMachine, NEW scope \in {"full", "one", "resume"},
           NEW ids \in Seq(Store), Started(m, scope, ids),
           scope = "full" => ids = <<>>, scope = "one" => Len(ids) <= 1,
           stores' = stores, owed' = owed,
           NEW pending \in Seq(Store), resume' = [resume EXCEPT ![m] = pending],
           IF scope = "resume" THEN ids = resume[m] /\ pending = <<>> ELSE pending = resume[m]
    PROVE  StockInv'
<1> DEFINE run == [at |-> "started", scope |-> scope, todo |-> ids, limited |-> <<>>,
                   inARow |-> 0]
<1>1. run \in Run
  BY DEF Run
<1>2. sync' = [sync EXCEPT ![m] = run]
  BY DEF Started, SetRun
<1>3. owed[m] \subseteq ToSet(resume[m])
  <2>1. sync[m].at = "idle"
    BY DEF Started, SyncRunning
  <2>2. sync[m].todo = <<>> /\ sync[m].limited = <<>>
    BY <2>1, RunFacts DEF RunShape, IdleSync
  <2> QED BY <2>2, RunFacts, ToSetEmpty DEF RunShape
<1>4. RunShape(run, pending, owed[m])
  <2>1. run.at = "started" /\ run.scope = scope /\ run.todo = ids /\ run.limited = <<>>
        /\ run.inARow = 0
    OBVIOUS
  <2>2. owed[m] \subseteq ToSet(pending) \cup ToSet(ids)
    BY <1>3
  <2> HIDE DEF run
  <2> QED BY <2>1, <2>2 DEF RunShape
<1>5. owed[m] \in SUBSET Store /\ owed' = [owed EXCEPT ![m] = owed[m]]
  BY RunFacts
<1> HIDE DEF run
<1> QED BY <1>1, <1>2, <1>4, <1>5, StoresTyped, OneMachine

\* The "all stores" start.
LEMMA FullStart ==
    ASSUME StockInv, NEW m \in StockMachine, StartStockSync(m, "full", <<>>)
    PROVE  StockInv'
<1>1. <<>> \in Seq(Store) /\ Started(m, "full", <<>>)
      /\ stores' = stores /\ owed' = owed /\ resume' = resume
  BY DEF StartStockSync
<1> QED BY <1>1, RunFacts, StockStarts

\* The start of one store.
LEMMA OneStart ==
    ASSUME StockInv, NEW m \in StockMachine, NEW s \in Store, StartStockSync(m, "one", <<s>>)
    PROVE  StockInv'
<1>1. <<s>> \in Seq(Store) /\ Len(<<s>>) <= 1
  OBVIOUS
<1>2. Started(m, "one", <<s>>) /\ stores' = stores /\ owed' = owed /\ resume' = resume
  BY DEF StartStockSync
<1> QED BY <1>1, <1>2, RunFacts, StockStarts

\* A step that touches none of it.
LEMMA Unchanged ==
    ASSUME StockInv, UNCHANGED <<stores, sync, resume, owed>>
    PROVE  StockInv'
BY DEF StockInv, StockType

\* The resume job fires: a task started, or not, the job is gone.
LEMMA ResumeStart ==
    ASSUME StockInv, NEW m \in StockMachine, ResumeStockSync(m)
    PROVE  StockInv'
<1>1. CASE Started(m, "resume", resume[m]) /\ resume' = [resume EXCEPT ![m] = <<>>]
  <2>1. /\ resume[m] \in Seq(Store) /\ <<>> \in Seq(Store)
        /\ stores' = stores /\ owed' = owed
    BY RunFacts DEF ResumeStockSync
  <2> QED BY <1>1, <2>1, StockStarts
<1>2. CASE UNCHANGED <<resume, sync, syncLock>>
  BY <1>2, Unchanged DEF ResumeStockSync
<1> QED BY <1>1, <1>2 DEF ResumeStockSync

\* The stores a run comes to are the enabled ones it was started for.
LEMMA OrderFacts ==
    ASSUME StockInv, NEW m \in StockMachine, NEW order \in Orders(m)
    PROVE  /\ order \in Seq(Store)
           /\ sync[m].scope = "full" => ToSet(order) = EnabledStores
           /\ sync[m].scope # "full" => ToSet(order) = EnabledStores \cap ToSet(sync[m].todo)
           /\ sync[m].scope = "one" => Len(order) <= 1
<1> DEFINE S == IF sync[m].scope = "full" THEN EnabledStores
                ELSE EnabledStores \cap ToSet(sync[m].todo)
<1>1. order \in SetToSeqs(S)
  BY DEF Orders
<1>2. S \subseteq Store
  BY DEF EnabledStores
<1>3. IsFiniteSet(S)
  BY <1>2, FS_Subset, StockSyncAssumption
<1>4. order \in Seq(S) /\ ToSet(order) = S /\ Len(order) = Cardinality(S)
  <2> HIDE DEF S
  <2> QED BY <1>1, <1>3, OrdersOfSet
<1>5. order \in Seq(Store)
  <2> HIDE DEF S
  <2> QED BY <1>2, <1>4
<1>6. ASSUME sync[m].scope = "one" PROVE Cardinality(S) <= 1
  <2>1. sync[m].todo \in Seq(Store) /\ Len(sync[m].todo) <= 1
    BY <1>6, RunFacts DEF RunShape
  <2>2. PICK x : ToSet(sync[m].todo) \subseteq {x}
    <3>1. CASE sync[m].todo = <<>>
      BY <3>1, ToSetEmpty
    <3>2. CASE sync[m].todo # <<>>
      <4>1. Tail(sync[m].todo) = <<>>
        BY <2>1, <3>2
      <4>2. ToSet(sync[m].todo) = {Head(sync[m].todo)} \cup ToSet(Tail(sync[m].todo))
        BY <2>1, <3>2, ToSetHeadTail
      <4> QED BY <4>1, <4>2, ToSetEmpty
    <3> QED BY <3>1, <3>2
  <2>3. S \subseteq {x}
    BY <1>6, <2>2
  <2>4. IsFiniteSet({x}) /\ Cardinality({x}) = 1
    BY FS_Singleton
  <2> HIDE DEF S
  <2> QED BY <2>3, <2>4, FS_Subset
<1> QED BY <1>4, <1>5, <1>6

\* The stores a run will come to are the enabled ones in its scope.
LEMMA Loaded ==
    ASSUME StockInv, NEW m \in StockMachine, LoadStores(m)
    PROVE  StockInv'
<1> DEFINE due == owed[m] \ FoundDisabled(m)
<1>1. due \in SUBSET Store /\ owed' = [owed EXCEPT ![m] = due]
  BY RunFacts DEF LoadStores
<1>2. PICK order \in Orders(m) :
        IF order = <<>> THEN Ended(m)
        ELSE MoveOn(m, "next", order, <<>>, 0)
  BY DEF LoadStores
<1>3. /\ sync[m].at = "started" /\ resume' = [resume EXCEPT ![m] = resume[m]]
      /\ stores' = stores
  BY RunFacts DEF LoadStores
<1>4. /\ sync[m].limited = <<>> /\ sync[m].scope # "none"
      /\ owed[m] \subseteq ToSet(resume[m]) \cup ToSet(sync[m].todo)
  BY <1>3, RunFacts, ToSetEmpty DEF RunShape
<1>5. due \subseteq ToSet(resume[m]) \cup ToSet(order)
  BY <1>1, <1>4, OrderFacts DEF FoundDisabled
<1>6. CASE order = <<>>
  <2>1. sync' = [sync EXCEPT ![m] = IdleSync]
    BY <1>2, <1>6 DEF Ended
  <2>2. RunShape(IdleSync, resume[m], due)
    BY <1>5, <1>6, ToSetEmpty, IdleShape
  <2> HIDE DEF due
  <2> QED BY <1>1, <1>3, <2>1, <2>2, IdleRun, RunFacts, StoresTyped, OneMachine
<1>7. CASE order # <<>>
  <2> DEFINE run == [at |-> "next", scope |-> sync[m].scope, todo |-> order,
                     limited |-> <<>>, inARow |-> 0]
  <2>2. sync' = [sync EXCEPT ![m] = run]
    BY <1>2, <1>7 DEF MoveOn, SetRun
  <2>3. run \in Run
    BY RunFacts, OrderFacts DEF Run
  <2>4. RunShape(run, resume[m], due)
    <3>1. /\ run.at = "next" /\ run.scope = sync[m].scope /\ run.todo = order
          /\ run.limited = <<>> /\ run.inARow = 0
      OBVIOUS
    <3>2. sync[m].scope = "full" => due \subseteq ToSet(order)
      BY <1>1, OrderFacts DEF FoundDisabled
    <3>4. sync[m].scope = "resume" => resume[m] = <<>>
      BY RunFacts DEF RunShape
    <3> HIDE DEF run, due
    <3> QED BY <1>4, <1>5, <3>1, <3>2, <3>4, OrderFacts DEF RunShape
  <2> HIDE DEF run, due
  <2> QED BY <1>1, <1>3, <2>2, <2>3, <2>4, RunFacts, StoresTyped, OneMachine
<1> QED BY <1>6, <1>7

\* The store of the run is done with: skipped, failed, or written.
LEMMA StoreDone ==
    ASSUME StockInv, NEW m \in StockMachine, sync[m].at \in {"next", "crawling", "writing"},
           sync[m].todo # <<>>, NEW inARow \in Nat,
           inARow = 0 \/ inARow = sync[m].inARow,
           Advance(m, "next", inARow), resume' = resume,
           owed' = [owed EXCEPT ![m] = @ \ {Current(m)}],
           stores' \in [Store -> [enabled : BOOLEAN, catalog : BOOLEAN, listed : BOOLEAN]]
    PROVE  StockInv'
<1> DEFINE run == [at |-> "next", scope |-> sync[m].scope, todo |-> Tail(sync[m].todo),
                   limited |-> sync[m].limited, inARow |-> inARow]
           due == owed[m] \ {Current(m)}
<1>1. sync' = [sync EXCEPT ![m] = run]
  BY DEF Advance, MoveOn, SetRun
<1>2. /\ Tail(sync[m].todo) \in Seq(Store)
      /\ Len(Tail(sync[m].todo)) = Len(sync[m].todo) - 1
      /\ ToSet(sync[m].todo) = {Current(m)} \cup ToSet(Tail(sync[m].todo))
  BY RunFacts, ToSetHeadTail DEF Current
<1>3. run \in Run
  BY <1>2, RunFacts DEF Run
<1>4. due \in SUBSET Store /\ owed' = [owed EXCEPT ![m] = due]
  BY RunFacts
<1>5. RunShape(run, resume[m], due)
  <2>1. /\ run.at = "next" /\ run.scope = sync[m].scope /\ run.todo = Tail(sync[m].todo)
        /\ run.limited = sync[m].limited /\ run.inARow = inARow
    OBVIOUS
  <2>2. sync[m].scope = "one" => Len(run.todo) <= 1 /\ run.todo = <<>>
    <3>1. sync[m].scope = "one" => Len(sync[m].todo) <= 1
      BY RunFacts DEF RunShape
    <3> QED BY <1>2, <2>1, <3>1
  <2>3. due \subseteq ToSet(resume[m]) \cup ToSet(run.todo) \cup ToSet(run.limited)
    BY <1>2, <2>1, RunFacts DEF RunShape
  <2>4. sync[m].scope = "full" => due \subseteq ToSet(run.todo) \cup ToSet(run.limited)
    BY <1>2, <2>1, RunFacts DEF RunShape
  <2>5. (sync[m].scope = "resume" => resume[m] = <<>>) /\ sync[m].scope # "none"
    BY RunFacts DEF RunShape
  <2> HIDE DEF run, due
  <2> QED BY <2>1, <2>2, <2>3, <2>4, <2>5 DEF RunShape
<1>6. resume' = [resume EXCEPT ![m] = resume[m]] /\ resume[m] \in Seq(Store)
  BY RunFacts
<1> HIDE DEF run, due
<1> QED BY <1>1, <1>3, <1>4, <1>5, <1>6, OneMachine

\* A disabled store is passed over.
LEMMA Skipped ==
    ASSUME StockInv, NEW m \in StockMachine, SkipStore(m)
    PROVE  StockInv'
BY RunFacts, StoresTyped, StoreDone DEF SkipStore

\* A store whose crawl failed is passed over.
LEMMA Failed ==
    ASSUME StockInv, NEW m \in StockMachine, StoreFails(m)
    PROVE  StockInv'
<1>1. sync[m].todo # <<>>
  BY RunFacts DEF StoreFails, RunShape
<1> QED BY <1>1, StoresTyped, StoreDone DEF StoreFails

\* A snapshot was written, for a store still of the kind.
LEMMA Written ==
    ASSUME StockInv, NEW m \in StockMachine, WriteSnapshot(m)
    PROVE  StockInv'
<1>1. sync[m].todo # <<>>
  BY RunFacts DEF WriteSnapshot, RunShape
<1>2. stores' \in [Store -> [enabled : BOOLEAN, catalog : BOOLEAN, listed : BOOLEAN]]
  BY StoresTyped DEF WriteSnapshot
<1> QED BY <1>1, <1>2, StoreDone DEF WriteSnapshot

\* The head of the list is crawled.
LEMMA CrawlBegins ==
    ASSUME StockInv, NEW m \in StockMachine, CrawlStore(m)
    PROVE  StockInv'
<1> DEFINE run == [at |-> "crawling", scope |-> sync[m].scope, todo |-> sync[m].todo,
                   limited |-> sync[m].limited, inARow |-> sync[m].inARow]
<1>1. sync' = [sync EXCEPT ![m] = run] /\ sync[m].at = "next" /\ sync[m].todo # <<>>
      /\ resume' = resume /\ owed' = owed /\ stores' = stores
  BY DEF CrawlStore, MoveOn, SetRun
<1>2. run \in Run
  BY RunFacts DEF Run
<1>3. RunShape(run, resume[m], owed[m])
  BY <1>1, RunFacts DEF RunShape
<1> HIDE DEF run
<1> QED BY <1>1, <1>2, <1>3, RunFacts, StoresTyped, OneMachine

\* The crawl is over; only a catalog's listings are written.
LEMMA Crawled ==
    ASSUME StockInv, NEW m \in StockMachine, StoreCrawled(m)
    PROVE  StockInv'
<1> DEFINE run == [at |-> "writing", scope |-> sync[m].scope, todo |-> sync[m].todo,
                   limited |-> sync[m].limited, inARow |-> 0]
<1>1. sync' = [sync EXCEPT ![m] = run] /\ sync[m].at = "crawling"
      /\ resume' = resume /\ owed' = owed /\ stores' = stores
  BY DEF StoreCrawled, MoveOn, SetRun
<1>2. run \in Run
  BY RunFacts DEF Run
<1>3. RunShape(run, resume[m], owed[m])
  BY <1>1, RunFacts DEF RunShape
<1> HIDE DEF run
<1> QED BY <1>1, <1>2, <1>3, RunFacts, StoresTyped, OneMachine

\* A run that aborts has in hand whatever is due: it was for one store only if it met no
\* other 429, and there is no other resume beside a resume.
LEMMA InHand ==
    ASSUME StockInv, NEW m \in StockMachine, sync[m].at = "crawling", sync[m].inARow >= 1
    PROVE  owed[m] \subseteq ToSet(sync[m].limited) \cup ToSet(sync[m].todo)
<1>1. RunShape(sync[m], resume[m], owed[m]) /\ sync[m] \in Run
  BY RunFacts
<1>2. CASE sync[m].scope = "resume"
  BY <1>1, <1>2, ToSetEmpty DEF RunShape
<1>3. CASE sync[m].scope = "full"
  BY <1>1, <1>3 DEF RunShape
<1>4. CASE sync[m].scope = "one"
  BY <1>1, <1>4 DEF RunShape
<1>5. sync[m].scope \in {"resume", "full", "one"}
  BY <1>1 DEF RunShape, Run
<1> QED BY <1>2, <1>3, <1>4, <1>5

\* A 429: one store waits, or the run aborts and its stores with it.
LEMMA Limited ==
    ASSUME StockInv, NEW m \in StockMachine, RateLimited(m)
    PROVE  StockInv'
<1>1. sync[m].at = "crawling" /\ stores' = stores
  BY DEF RateLimited
<1>2. sync[m].todo # <<>>
  BY <1>1, RunFacts DEF RunShape
<1>3. /\ Current(m) \in Store /\ Tail(sync[m].todo) \in Seq(Store)
      /\ Len(Tail(sync[m].todo)) = Len(sync[m].todo) - 1
      /\ ToSet(sync[m].todo) = {Current(m)} \cup ToSet(Tail(sync[m].todo))
  BY <1>2, RunFacts, ToSetHeadTail DEF Current
<1>4. CASE sync[m].inARow >= 1
  <2> DEFINE rest == sync[m].limited \o sync[m].todo
             due == owed[m] \cup ToSet(rest)
  <2>1. /\ sync' = [sync EXCEPT ![m] = IdleSync]
        /\ resume' = [resume EXCEPT ![m] = rest]
        /\ owed' = [owed EXCEPT ![m] = due]
    BY <1>4, RunFacts DEF RateLimited, Ended, Unsynced
  <2>2. rest \in Seq(Store) /\ ToSet(rest) = ToSet(sync[m].limited) \cup ToSet(sync[m].todo)
    BY RunFacts, ToSetConcat
  <2>3. ToSet(rest) \subseteq Store
    BY <2>2, ToSetType
  <2>4. due \subseteq ToSet(rest)
    BY <1>1, <1>4, <2>2, InHand
  <2>5. due \in SUBSET Store
    BY <2>3, <2>4
  <2> HIDE DEF rest, due
  <2> QED BY <1>1, <2>1, <2>2, <2>4, <2>5, IdleShape, IdleRun, StoresTyped, OneMachine
<1>5. CASE ~(sync[m].inARow >= 1)
  <2> DEFINE put == Append(sync[m].limited, Current(m))
             run == [at |-> "next", scope |-> sync[m].scope, todo |-> Tail(sync[m].todo),
                     limited |-> put, inARow |-> 1]
             due == owed[m] \cup {Current(m)}
  <2>1. /\ sync' = [sync EXCEPT ![m] = run] /\ resume' = resume
        /\ owed' = [owed EXCEPT ![m] = due]
    BY <1>5, RunFacts DEF RateLimited, MoveOn, SetRun
  <2>2. put \in Seq(Store) /\ ToSet(put) = ToSet(sync[m].limited) \cup {Current(m)}
    BY <1>3, RunFacts, ToSetAppend
  <2>3. run \in Run
    <3> HIDE DEF put
    <3> QED BY <1>3, <2>2, RunFacts DEF Run
  <2>4. due \in SUBSET Store
    BY <1>3, RunFacts
  <2>5. RunShape(run, resume[m], due)
    <3>1. /\ run.at = "next" /\ run.scope = sync[m].scope /\ run.todo = Tail(sync[m].todo)
          /\ run.limited = put /\ run.inARow = 1
      OBVIOUS
    <3>2. sync[m].scope = "one" => Len(run.todo) <= 1 /\ run.todo = <<>>
      <4>1. sync[m].scope = "one" => Len(sync[m].todo) <= 1
        BY RunFacts DEF RunShape
      <4> QED BY <1>3, <3>1, <4>1
    <3>3. due \subseteq ToSet(resume[m]) \cup ToSet(run.todo) \cup ToSet(run.limited)
      BY <1>3, <2>2, <3>1, RunFacts DEF RunShape
    <3>4. sync[m].scope = "full" => due \subseteq ToSet(run.todo) \cup ToSet(run.limited)
      BY <1>1, <1>3, <2>2, <3>1, RunFacts DEF RunShape
    <3>5. (sync[m].scope = "resume" => resume[m] = <<>>) /\ sync[m].scope # "none"
      BY <1>1, RunFacts DEF RunShape
    <3> HIDE DEF run, due
    <3> QED BY <3>1, <3>2, <3>3, <3>4, <3>5 DEF RunShape
  <2>6. resume' = [resume EXCEPT ![m] = resume[m]] /\ resume[m] \in Seq(Store)
    BY <2>1, RunFacts
  <2> HIDE DEF put, run, due
  <2> QED BY <1>1, <2>1, <2>3, <2>4, <2>5, <2>6, StoresTyped, OneMachine
<1> QED BY <1>4, <1>5

\* The task of m is over, whatever became of its resume job.
LEMMA RunOver ==
    ASSUME StockInv, NEW m \in StockMachine, sync' = [sync EXCEPT ![m] = IdleSync],
           NEW pending \in Seq(Store), resume' = [resume EXCEPT ![m] = pending],
           NEW due \in SUBSET Store, owed' = [owed EXCEPT ![m] = due],
           due \subseteq ToSet(pending), stores' = stores
    PROVE  StockInv'
BY IdleRun, IdleShape, StoresTyped, OneMachine

\* The run is over: what the 429s kept back goes to the resume job.
LEMMA Completed ==
    ASSUME StockInv, NEW m \in StockMachine, CompleteSync(m)
    PROVE  StockInv'
<1> DEFINE pending == IF sync[m].scope = "full" THEN <<>> ELSE resume[m]
           due == owed[m] \ (ToSet(sync[m].limited) \ ToSet(pending))
<1>1. /\ sync[m].at = "next" /\ sync[m].todo = <<>> /\ stores' = stores
      /\ sync' = [sync EXCEPT ![m] = IdleSync]
  BY DEF CompleteSync, Ended
<1>2. pending \in Seq(Store) /\ resume' = [resume EXCEPT ![m] = pending]
  <2>1. CASE sync[m].scope = "full"
    BY <2>1 DEF CompleteSync, CoversResume
  <2>2. CASE sync[m].scope # "full"
    BY <2>2, RunFacts DEF CompleteSync, CoversResume
  <2> QED BY <2>1, <2>2
<1>3. resume'[m] = pending
  BY <1>2 DEF StockInv, StockType
<1>4. due \in SUBSET Store /\ owed' = [owed EXCEPT ![m] = due]
  <2>1. owed' = [owed EXCEPT ![m] = @ \ (ToSet(sync[m].limited) \ ToSet(resume'[m]))]
    BY DEF CompleteSync
  <2> HIDE DEF pending
  <2> QED BY <1>3, <2>1, RunFacts
<1>5. due \subseteq ToSet(pending)
  <2>1. owed[m] \subseteq ToSet(resume[m]) \cup ToSet(sync[m].limited)
    BY <1>1, RunFacts, ToSetEmpty DEF RunShape
  <2>2. sync[m].scope = "full" => owed[m] \subseteq ToSet(sync[m].limited)
    BY <1>1, RunFacts, ToSetEmpty DEF RunShape
  <2>3. CASE sync[m].scope = "full"
    BY <2>2, <2>3, ToSetEmpty
  <2>4. CASE sync[m].scope # "full"
    BY <2>1, <2>4
  <2> QED BY <2>3, <2>4
<1> HIDE DEF pending, due
<1> QED BY <1>1, <1>2, <1>4, <1>5, RunOver

\* A run that fails abandons its stores, and nothing of it is due.
LEMMA RunBroken ==
    ASSUME StockInv, NEW m \in StockMachine, SyncFails(m)
    PROVE  StockInv'
<1> DEFINE due == owed[m] \cap ToSet(resume[m])
<1>1. due \in SUBSET Store /\ owed' = [owed EXCEPT ![m] = due] /\ due \subseteq ToSet(resume[m])
  BY RunFacts DEF SyncFails
<1>2. sync' = [sync EXCEPT ![m] = IdleSync] /\ resume' = resume /\ stores' = stores
  BY DEF SyncFails, Ended
<1> HIDE DEF due
<1> QED BY <1>1, <1>2, RunFacts, RunOver

\* A resume that cannot be scheduled, or a process that ends.
LEMMA JobLost ==
    ASSUME StockInv, NEW m \in StockMachine, ResumeFails(m) \/ ProcessEnds(m)
    PROVE  StockInv'
<1>1. /\ resume' = [resume EXCEPT ![m] = <<>>] /\ owed' = [owed EXCEPT ![m] = {}]
      /\ stores' = stores /\ <<>> \in Seq(Store) /\ {} \in SUBSET Store
      /\ {} \subseteq ToSet(<<>>)
  BY DEF ResumeFails, ProcessEnds
<1>2. sync' = [sync EXCEPT ![m] = IdleSync]
  <2>1. CASE ResumeFails(m)
    <3>1. sync[m] = IdleSync /\ sync' = sync
      BY <2>1, RunFacts DEF ResumeFails, SyncRunning, RunShape
    <3> QED BY <3>1, RunFacts
  <2>2. CASE ProcessEnds(m)
    BY <2>2 DEF ProcessEnds, Ended
  <2> QED BY <2>1, <2>2
<1> QED BY <1>1, <1>2, RunOver

\* A store is disabled or converted: what was due of it is no more.
LEMMA StoreChanged ==
    ASSUME StockInv, NEW s \in Store, ToggleStore(s) \/ ConvertStore(s)
    PROVE  StockInv'
<1>1. UNCHANGED <<sync, resume, owed>>
  BY DEF ToggleStore, ConvertStore, StoreChange
<1>2. stores' \in [Store -> [enabled : BOOLEAN, catalog : BOOLEAN, listed : BOOLEAN]]
  <2>1. CASE ToggleStore(s)
    BY <2>1, StoresTyped DEF ToggleStore
  <2>2. CASE ConvertStore(s)
    BY <2>2, StoresTyped DEF ConvertStore
  <2> QED BY <2>1, <2>2
<1> QED BY <1>1, <1>2 DEF StockInv, StockType

-----------------------------------------------------------------------------

\* StockInv is inductive.
LEMMA StockInvHolds == StockSpec => []StockInv
<1>1. StockInit => StockInv
  <2> SUFFICES ASSUME StockInit PROVE StockInv
    OBVIOUS
  <2>1. StockType
    BY IdleRun DEF StockInit, StockType
  <2>2. ASSUME NEW m \in StockMachine PROVE RunShape(sync[m], resume[m], owed[m])
    BY IdleShape DEF StockInit
  <2> QED BY <2>1, <2>2 DEF StockInv
<1>2. StockInv /\ [StockNext]_stockVars => StockInv'
  <2> SUFFICES ASSUME StockInv, [StockNext]_stockVars PROVE StockInv'
    OBVIOUS
  <2>1. ASSUME NEW m \in StockMachine, NEW s \in Store,
               StartStockSync(m, "one", <<s>>) \/ CoolingEnds(m, s)
        PROVE  StockInv'
    BY <2>1, OneStart, Unchanged DEF CoolingEnds
  <2>2. ASSUME NEW m \in StockMachine,
               \/ StartStockSync(m, "full", <<>>)
               \/ ResumeStockSync(m) \/ LoadStores(m) \/ SkipStore(m) \/ CrawlStore(m)
               \/ RateLimited(m) \/ StoreFails(m) \/ StoreCrawled(m) \/ WriteSnapshot(m)
               \/ CompleteSync(m) \/ SyncFails(m) \/ ResumeFails(m) \/ ProcessEnds(m)
        PROVE  StockInv'
    BY <2>2, FullStart, ResumeStart, Loaded, Skipped, CrawlBegins, Limited, Failed, Crawled,
       Written, Completed, RunBroken, JobLost
  <2>3. CASE UNCHANGED stockVars
    BY <2>3, Unchanged DEF stockVars
  <2> QED BY <2>1, <2>2, <2>3, StoreChanged DEF StockNext
<1> QED BY <1>1, <1>2, PTL DEF StockSpec

\* A store a 429 kept from syncing is in the resume job, or still with the run that will
\* schedule one: replacing, refusing and cancelling a resume job (schedule_stock_resume,
\* cancel_stock_resume, _start_stock_sync) never drop a store that is due.
THEOREM NoUnsyncedStoreIsForgotten == StockSpec => []ResumeCoversUnsynced
<1>1. StockInv => ResumeCoversUnsynced
  BY DEF StockInv, RunShape, ResumeCoversUnsynced
<1> QED BY <1>1, StockInvHolds, PTL

\* replace_stock_items writes for a catalog only, in the transaction that reads the kind,
\* and a conversion clears: no order of the two leaves a snapshot behind.
THEOREM SnapshotsFollowTheKind == StockSpec => []NoSnapshotOutlivesKind
<1>1. StockInit => NoSnapshotOutlivesKind
  BY DEF StockInit, NoSnapshotOutlivesKind
<1>2. StockInv /\ NoSnapshotOutlivesKind /\ [StockNext]_stockVars => NoSnapshotOutlivesKind'
  <2> SUFFICES ASSUME StockInv, NoSnapshotOutlivesKind, [StockNext]_stockVars,
                      NEW s \in Store, stores'[s].listed
               PROVE  stores'[s].catalog
    BY DEF NoSnapshotOutlivesKind
  <2>1. CASE stores' = stores
    BY <2>1 DEF NoSnapshotOutlivesKind
  <2>2. ASSUME NEW m \in StockMachine, WriteSnapshot(m) PROVE stores'[s].catalog
    BY <2>2, StoresTyped DEF WriteSnapshot, StillCatalog, NoSnapshotOutlivesKind
  <2>3. ASSUME NEW t \in Store, ToggleStore(t) PROVE stores'[s].catalog
    BY <2>3, StoresTyped DEF ToggleStore, NoSnapshotOutlivesKind
  <2>4. ASSUME NEW t \in Store, ConvertStore(t) PROVE stores'[s].catalog
    BY <2>4, StoresTyped DEF ConvertStore, NoSnapshotOutlivesKind
  <2>5. \/ stores' = stores \/ \E m \in StockMachine : WriteSnapshot(m)
        \/ \E t \in Store : ToggleStore(t) \/ ConvertStore(t)
    BY DEF StockNext, stockVars, StartStockSync, ResumeStockSync, LoadStores, SkipStore,
       CrawlStore, RateLimited, StoreFails, StoreCrawled, CompleteSync, SyncFails, ResumeFails,
       ProcessEnds, CoolingEnds
  <2> QED BY <2>1, <2>2, <2>3, <2>4, <2>5
<1> QED BY <1>1, <1>2, StockInvHolds, PTL DEF StockSpec

-----------------------------------------------------------------------------
(* The catalog walks. *)

\* What the fields of a product are that it has not lost.
LEMMA ProductFields ==
    ASSUME NEW p \in Product
    PROVE  /\ p.kind \in {"record", "other", "none"} /\ p.format \in {"record", "other"}
           /\ p.title \in {"parses", "odd", "blank"} /\ p.credit \in {"there", "none"}
           /\ p.handle \in {"there", "gone"} /\ p.price \in {"sound", "zero", "unread"}
           /\ "kind" \notin Lost(p) => p.kind # "none"
           /\ "title" \notin Lost(p) => p.title # "blank"
           /\ "parse" \notin Lost(p) => p.title # "odd"
           /\ "credit" \notin Lost(p) => p.credit = "there"
           /\ "artist" \notin Lost(p) => p.title = "parses" \/ p.credit = "there"
           /\ "handle" \notin Lost(p) => p.handle = "there"
           /\ "price" \notin Lost(p) => p.price = "sound"
  BY DEF Product, Lost, Lacks, Titled, Parses, Credited, HasHandle, HasPrice

\* What it is to have lost a field.
LEMMA LostFields ==
    ASSUME NEW p
    PROVE  /\ "kind" \in Lost(p) => p.kind = "none"
           /\ "title" \in Lost(p) => p.title = "blank"
           /\ "parse" \in Lost(p) => p.title = "odd"
           /\ "credit" \in Lost(p) => p.credit # "there"
           /\ "artist" \in Lost(p) => p.title # "parses" /\ p.credit # "there"
           /\ "variants" \in Lost(p) => p.variants = {}
  BY DEF Lost, Lacks, Titled, Parses, Credited

\* What a variant may be.
LEMMA VariantFields ==
    ASSUME NEW v \in Variant
    PROVE  /\ v.stock \in {"in", "out", "unread"}
           /\ v = Junk => v.name = "junk" /\ v.stock = "unread"
           /\ v # Junk => v.name \in {"record", "plain", "other", "blank", "default"}
  BY DEF Variant, Junk

\* There are finitely many variants.
LEMMA FiniteVariants == IsFiniteSet(Variant)
<1> DEFINE Names == {"record", "plain", "other", "blank", "default"}
           Stocks == {"in", "out", "unread"}
           Made == [x \in Names \X Stocks |-> [name |-> x[1], stock |-> x[2]]]
<1>1. IsFiniteSet(Names) /\ IsFiniteSet(Stocks)
  <2>1. IsFiniteSet({"in"}) /\ IsFiniteSet({"record"})
    BY FS_Singleton
  <2>2. IsFiniteSet({"in"} \cup {"out"}) /\ IsFiniteSet({"record"} \cup {"plain"})
    BY <2>1, FS_AddElement
  <2>3. /\ IsFiniteSet({"in"} \cup {"out"} \cup {"unread"})
        /\ IsFiniteSet({"record"} \cup {"plain"} \cup {"other"})
    BY <2>2, FS_AddElement
  <2>4. IsFiniteSet({"record"} \cup {"plain"} \cup {"other"} \cup {"blank"})
    BY <2>3, FS_AddElement
  <2>5. IsFiniteSet({"record"} \cup {"plain"} \cup {"other"} \cup {"blank"} \cup {"default"})
    BY <2>4, FS_AddElement
  <2>6. /\ Names = {"record"} \cup {"plain"} \cup {"other"} \cup {"blank"} \cup {"default"}
        /\ Stocks = {"in"} \cup {"out"} \cup {"unread"}
    OBVIOUS
  <2> QED BY <2>3, <2>5
<1>2. IsFiniteSet(Names \X Stocks)
  BY <1>1, FS_Product
<1>3. Made \in Surjection(Names \X Stocks, [name : Names, stock : Stocks])
  <2>1. Made \in [Names \X Stocks -> [name : Names, stock : Stocks]]
    OBVIOUS
  <2>2. ASSUME NEW v \in [name : Names, stock : Stocks]
        PROVE  \E x \in Names \X Stocks : Made[x] = v
    <3>1. <<v.name, v.stock>> \in Names \X Stocks
      OBVIOUS
    <3>2. Made[<<v.name, v.stock>>] = v
      OBVIOUS
    <3> QED BY <3>1
  <2> QED BY <2>2 DEF Surjection
<1>4. IsFiniteSet([name : Names, stock : Stocks])
  BY <1>2, <1>3, FS_Surjection
<1> QED BY <1>4, FS_AddElement DEF Variant

\* What its variants are.
LEMMA ProductVariants ==
    ASSUME NEW p \in Product
    PROVE  /\ p.variants \subseteq Variant
           /\ "variants" \notin Lost(p) => p.variants # {}
           /\ "entries" \notin Lost(p) => Junk \notin p.variants
           /\ \A v \in p.variants \ {Junk} :
                 /\ "names" \notin Lost(p) => v.name # "blank"
                 /\ "stock" \notin Lost(p) => v.stock # "unread"
                 /\ "placeholder" \notin Lost(p) /\ v.name = "default"
                     => Cardinality(p.variants) = 1
<1>1. p.variants \subseteq Variant
  BY DEF Product, kSubset
<1>2. ASSUME NEW v \in p.variants, v.name = "default", "placeholder" \notin Lost(p)
      PROVE  Cardinality(p.variants) = 1
  <2>1. ~(Cardinality(p.variants) > 1)
    BY <1>2 DEF Lost, Lacks
  <2>2. IsFiniteSet(p.variants)
    BY <1>1, FiniteVariants, FS_Subset
  <2>3. Cardinality(p.variants) \in Nat /\ Cardinality(p.variants) # 0
    BY <1>2, <2>2, FS_EmptySet, FS_CardinalityType
  <2> QED BY <2>1, <2>3
<1>3. /\ "variants" \notin Lost(p) => p.variants # {}
      /\ "entries" \notin Lost(p) => Junk \notin p.variants
      /\ "names" \notin Lost(p) => \A v \in p.variants : v.name # "blank"
      /\ "stock" \notin Lost(p) => \A v \in p.variants \ {Junk} : v.stock # "unread"
  BY DEF Lost, Lacks, Flagged, Entries
<1> QED BY <1>1, <1>2, <1>3

\* A placeholder that is the only variant is the only entry.
LEMMA OnlyEntry ==
    ASSUME NEW p, p.variants \subseteq Variant, Cardinality(p.variants) = 1,
           NEW v \in p.variants, v # Junk
    PROVE  Cardinality(Entries(p)) = 1
<1>1. IsFiniteSet(p.variants)
  BY FiniteVariants, FS_Subset
<1>2. PICK w : p.variants = {w}
  BY <1>1, FS_Singleton
<1>3. Entries(p) = {v}
  BY <1>2 DEF Entries
<1> QED BY <1>3, FS_Singleton

\* The only variant.
LEMMA OnlyVariant ==
    ASSUME NEW p \in Product, Cardinality(p.variants) = 1, NEW v \in p.variants
    PROVE  p.variants = {v}
<1>1. p.variants \subseteq Variant
  BY DEF Product, kSubset
<1>2. IsFiniteSet(p.variants)
  BY <1>1, FiniteVariants, FS_Subset
<1>3. PICK w : p.variants = {w}
  BY <1>2, FS_Singleton
<1> QED BY <1>3

\* Where no variant lost anything, all of them are entries, named and kept.
LEMMA WholeVariants ==
    ASSUME NEW p \in Product,
           Lost(p) \cap {"variants", "entries", "names", "placeholder", "stock"} = {}
    PROVE  /\ p.variants # {} /\ Junk \notin p.variants
           /\ Entries(p) = p.variants /\ Kept(p, AnyName) = p.variants
           /\ \A v \in p.variants :
                 /\ v.name \in {"record", "plain", "other", "default"}
                 /\ v.stock \in {"in", "out"}
                 /\ v.name = "default" => Cardinality(p.variants) = 1
<1>1. /\ p.variants \subseteq Variant /\ p.variants # {} /\ Junk \notin p.variants
      /\ \A v \in p.variants :
            /\ v.name # "blank" /\ v.stock # "unread"
            /\ v.name = "default" => Cardinality(p.variants) = 1
  BY ProductVariants
<1>2. Entries(p) = p.variants
  BY <1>1 DEF Entries
<1>3. \A v \in p.variants : /\ v.name \in {"record", "plain", "other", "default"}
                            /\ v.stock \in {"in", "out"}
  BY <1>1, VariantFields
<1>4. Kept(p, AnyName) = p.variants
  BY <1>1, <1>2, <1>3 DEF Kept, AnyName
<1> QED BY <1>1, <1>2, <1>3, <1>4

\* The entries of a product that lost no stock flag are flagged.
LEMMA FlaggedEntries ==
    ASSUME NEW p, "stock" \notin Lost(p), NEW V \in SUBSET Entries(p)
    PROVE  Flagged(V)
  BY DEF Lost, Lacks, Flagged

-----------------------------------------------------------------------------
(* The guards of a crawler, as tables of tallies. *)

\* The tallies that make a result without rows no answer.
Blames ==
    [joyful |-> {"variants_unreadable", "untitled_live", "unreadable_prices", "artist_missing",
       "identity_missing", "unreadable_stock"},
     xl |-> {"identity_missing", "variant_identity_missing", "unreadable_stock"},
     don |-> {"unclassifiable", "identity_missing", "variant_identity_missing",
        "unreadable_stock"},
     bella |-> {"unclassifiable", "identity_missing", "variant_identity_missing",
        "unreadable_stock"},
     sacred |-> {"artist_missing", "unreadable_variants", "identity_missing", "unreadable_stock"},
     earache |-> {"identity_missing", "unreadable_stock"},
     flenser |-> {"identity_missing", "variantless_records", "unnamed_pressings",
        "unreadable_stock"},
     lenoise |-> {"unreadable_products", "unreadable_kind", "unreadable_variants",
        "identity_missing", "artist_missing", "unreadable_stock"},
     monorail |-> {"unreadable_variants", "artist_missing", "identity_missing",
        "unreadable_stock"},
     trans |-> {"artist_missing", "pressings_missing", "identity_missing", "unreadable_stock"},
     matador |-> {"identity_missing", "unreadable_stock"},
     counter |-> {"identity_missing", "unreadable_stock"},
     iodine |-> {"identity_missing", "unreadable_stock"},
     revolver |-> {"unreadable_products", "unreadable_variants", "identity_missing",
        "unreadable_stock"},
     mov |-> {"identity_missing", "unreadable_stock"},
     spkr |-> {"identity_missing", "unreadable_stock"},
     rhino |-> {"unreadable_stock"}]

\* The tallies without which no result is one.
Musts ==
    [joyful |-> {"products_seen", "format_named"},
     xl |-> {"products_seen"},
     don |-> {"products_seen", "artist_ok", "parsed_ok", "sources_ok"},
     bella |-> {"products_seen", "parsed_ok"},
     sacred |-> {"products_seen"},
     earache |-> {"products_seen", "parsed_ok"},
     flenser |-> {"products_seen", "vinyl_typed", "parsed", "format_ok"},
     lenoise |-> {"products_seen", "vinyl_typed", "records"},
     monorail |-> {"products_seen", "music_seen", "vinyl_products"},
     trans |-> {"products_seen", "type_ok", "vinyl_typed", "artist_ok", "pressings_seen"},
     matador |-> {"products_seen", "typed", "artist_ok", "vinyl_seen"},
     counter |-> {"products_seen", "typed", "artist_ok", "vinyl_seen"},
     iodine |-> {"products_seen", "typed", "artist_ok", "vinyl_seen"},
     revolver |-> {"products_seen", "vinyl_typed", "artist_ok", "records"},
     mov |-> {"products_seen", "vinyl_seen", "artist_ok"},
     spkr |-> {"products_seen", "vinyl_seen", "artist_ok"},
     rhino |-> {"products_seen", "vinyl_seen", "artist_ok"}]

\* The tallies that a sound record adds to.
Shows ==
    [joyful |-> {"products_seen", "format_named"},
     xl |-> {"products_seen", "artist_resolved", "claims_vinyl"},
     don |-> {"products_seen", "artist_ok", "parsed_ok", "sources_ok"},
     bella |-> {"products_seen", "parsed_ok"},
     sacred |-> {"products_seen"},
     earache |-> {"products_seen", "parsed_ok"},
     flenser |-> {"products_seen", "vinyl_typed", "parsed", "format_ok", "record_variants_seen"},
     lenoise |-> {"products_seen", "vinyl_typed", "records"},
     monorail |-> {"products_seen", "music_seen", "vinyl_products"},
     trans |-> {"products_seen", "type_ok", "vinyl_typed", "artist_ok", "pressings_seen"},
     matador |-> {"products_seen", "typed", "artist_ok", "vinyl_seen"},
     counter |-> {"products_seen", "typed", "artist_ok", "vinyl_seen"},
     iodine |-> {"products_seen", "typed", "artist_ok", "vinyl_seen"},
     revolver |-> {"products_seen", "vinyl_typed", "artist_ok", "records"},
     mov |-> {"products_seen", "vinyl_seen", "artist_ok"},
     spkr |-> {"products_seen", "vinyl_seen", "artist_ok"},
     rhino |-> {"products_seen", "vinyl_seen", "artist_ok"}]

\* A variant that is not readably sold out is in stock, or has no readable flag.
LEMMA OnSale ==
    ASSUME NEW V, NEW v \in V, v \in Variant, v.stock # "out"
    PROVE  InStock(V) \/ ~Flagged(V)
  BY VariantFields DEF InStock, Flagged

-----------------------------------------------------------------------------
(* joyfulnoiserecordings.py *)

\* The guards raise on the tallies of the tables, and on no other ones.
LEMMA JoyfulGuards ==
    ASSUME NEW n
    PROVE  /\ (\E t \in Musts.joyful : ~n[t]) => JoyfulRefuses(n)
           /\ ~n.yielded /\ (\E t \in Blames.joyful : n[t]) => JoyfulRefuses(n)
           /\ JoyfulRefuses(n)
               => \/ \E t \in Shows.joyful : ~n[t]
                  \/ ~n.yielded /\ \E t \in Blames.joyful : n[t]
<1>1. (\E t \in Musts.joyful : ~n[t]) <=> ~n.products_seen \/ ~n.format_named
  BY DEF Musts
<1>2. (\E t \in Blames.joyful : n[t]) <=> n.variants_unreadable \/ n.untitled_live
                                          \/ n.unreadable_prices \/ n.artist_missing
                                          \/ n.identity_missing \/ n.unreadable_stock
  BY DEF Blames
<1>3. (\E t \in Shows.joyful : ~n[t]) <=> ~n.products_seen \/ ~n.format_named
  BY DEF Shows
<1> QED BY <1>1, <1>2, <1>3 DEF JoyfulRefuses

\* A product that may be live, and lost nothing the guards miss, yields a row or is to blame.
LEMMA JoyfulLive ==
    ASSUME NEW p \in Product, MayBeLive("joyful", p), Lost(p) \cap Missed.joyful = {}
    PROVE  JoyfulReads(p).yielded \/ \E t \in Blames.joyful : JoyfulReads(p)[t]
<1> DEFINE r == JoyfulReads(p)
           Answers == \/ r.yielded
                      \/ r.variants_unreadable \/ r.untitled_live \/ r.unreadable_prices
                         \/ r.artist_missing \/ r.identity_missing \/ r.unreadable_stock
<1>1. ~OtherFormat(p) /\ p.price \in {"sound", "unread"}
  BY ProductFields DEF MayBeLive, NotOfRecord, Parses
<1>2. CASE p.variants = {}
  <2>1. Answers
    BY <1>2 DEF JoyfulReads
  <2> QED BY <2>1 DEF Blames
<1>3. ASSUME NEW v \in p.variants, v.name \notin NoRecord("joyful"), v.stock # "out"
      PROVE  Answers
  <2>1. v \in Variant /\ v.name \in {"record", "blank", "junk"}
    BY <1>3, ProductVariants, VariantFields DEF NoRecord
  <2>2. CASE v \in JoyfulPressings(p)
    <3>1. InStock(JoyfulPressings(p)) \/ ~Flagged(JoyfulPressings(p))
      BY <2>1, <2>2, <1>3, OnSale
    <3> QED BY <1>1, <2>2, <3>1 DEF JoyfulReads, JoyfulRows, HasPrice
  <2>3. CASE v \notin JoyfulPressings(p)
    BY <1>1, <2>1, <2>3, <1>3, VariantFields DEF JoyfulReads, OfRecordKind, JoyfulPressings,
       VinylWord
  <2> QED BY <2>2, <2>3
<1>4. ASSUME Answers PROVE r.yielded \/ \E t \in Blames.joyful : r[t]
  BY <1>4 DEF Blames
<1> QED BY <1>2, <1>3, <1>4 DEF MayBeLive

\* No product is to blame that lost nothing the guards count.
LEMMA JoyfulSound ==
    ASSUME NEW p \in Product, Lost(p) \cap Noticed.joyful = {}
    PROVE  \A t \in Blames.joyful : ~JoyfulReads(p)[t]
<1> DEFINE r == JoyfulReads(p)
<1>1. p.title # "blank" /\ p.credit = "there" /\ p.handle = "there" /\ p.price = "sound"
  <2>1. Lost(p) \cap {"credit", "title", "handle", "price"} = {}
    BY DEF Noticed
  <2> QED BY <2>1, ProductFields
<1>2. p.variants # {} /\ Junk \notin p.variants /\ \A v \in p.variants : v.name # "blank"
  <2>1. Lost(p) \cap {"variants", "entries", "names"} = {}
    BY DEF Noticed
  <2> QED BY <2>1, ProductVariants
<1>3. Flagged(JoyfulPressings(p))
  <2>1. "stock" \notin Lost(p)
    BY DEF Noticed
  <2>2. JoyfulPressings(p) \subseteq Entries(p)
    BY <1>2 DEF JoyfulPressings, VinylWord, Entries, Junk
  <2> QED BY <2>1, <2>2, FlaggedEntries
<1>5. ~r.variants_unreadable /\ ~r.untitled_live /\ ~r.unreadable_prices /\ ~r.artist_missing
      /\ ~r.identity_missing /\ ~r.unreadable_stock
  BY <1>1, <1>2, <1>3 DEF JoyfulReads, HasIdentity, Titled, HasHandle, HasPrice, Credited,
     OfRecordKind
<1>7. \A t \in Blames.joyful : ~r[t]
  BY <1>5 DEF Blames
<1> QED BY <1>7

\* A record without a loss is what the guards look for.
LEMMA JoyfulShown ==
    ASSUME NEW p \in Product, Lost(p) = {}, HasRecord("joyful", p)
    PROVE  \A t \in Shows.joyful : JoyfulReads(p)[t]
<1> DEFINE r == JoyfulReads(p)
<1>1. p.title = "parses" /\ p.credit = "there" /\ p.format = "record" /\ ~OtherFormat(p)
  <2>1. Lost(p) \cap {"kind", "title", "parse", "credit"} = {}
    OBVIOUS
  <2> QED BY <2>1, ProductFields DEF HasRecord, NotOfRecord, OtherFormat, Titled
<1>2. /\ p.variants # {} /\ Junk \notin p.variants
      /\ Entries(p) = p.variants /\ Kept(p, AnyName) = p.variants
      /\ \A v \in p.variants :
            /\ v.name \in {"record", "plain", "other", "default"}
            /\ v.name = "default" => Cardinality(p.variants) = 1
  <2>1. Lost(p) \cap {"variants", "entries", "names", "placeholder", "stock"} = {}
    OBVIOUS
  <2> QED BY <2>1, WholeVariants
<1>3. PICK v \in p.variants : v.name \notin NoRecord("joyful")
  BY DEF HasRecord
<1>4. v \in JoyfulPressings(p)
  BY <1>1, <1>2, <1>3 DEF JoyfulPressings, VinylWord, OtherFormat, NoRecord
<1>6. r.products_seen /\ r.format_named
  BY <1>1, <1>4 DEF JoyfulReads
<1> QED BY <1>6 DEF Shows

-----------------------------------------------------------------------------
(* xlrecordings.py *)

\* The guards raise on the tallies of the tables, and on no other ones.
LEMMA XLGuards ==
    ASSUME NEW n
    PROVE  /\ (\E t \in Musts.xl : ~n[t]) => XLRefuses(n)
           /\ ~n.yielded /\ (\E t \in Blames.xl : n[t]) => XLRefuses(n)
           /\ n.yielded /\ ~n.priced => XLRefuses(n)
           /\ XLRefuses(n)
               => \/ \E t \in Shows.xl : ~n[t]
                  \/ ~n.yielded /\ \E t \in Blames.xl : n[t]
                  \/ n.yielded /\ ~n.priced
<1>1. (\E t \in Musts.xl : ~n[t]) <=> ~n.products_seen
  BY DEF Musts
<1>2. (\E t \in Blames.xl : n[t]) <=> n.identity_missing \/ n.variant_identity_missing
                                      \/ n.unreadable_stock
  BY DEF Blames
<1>3. (\E t \in Shows.xl : ~n[t]) <=> ~n.products_seen \/ ~n.artist_resolved \/ ~n.claims_vinyl
  BY DEF Shows
<1> QED BY <1>1, <1>2, <1>3 DEF XLRefuses

\* A product that may be live, and lost nothing the guards miss, yields a row or is to blame.
LEMMA XLLive ==
    ASSUME NEW p \in Product, MayBeLive("xl", p), Lost(p) \cap Missed.xl = {}
    PROVE  XLReads(p).yielded \/ \E t \in Blames.xl : XLReads(p)[t]
<1> DEFINE r == XLReads(p)
           Answers == \/ r.yielded
                      \/ r.identity_missing \/ r.variant_identity_missing \/ r.unreadable_stock
<1>1. ~OtherFormat(p) /\ p.kind # "other" /\ p.format \in {"record", "other"}
  BY ProductFields DEF MayBeLive, NotOfRecord, Parses
<1>2. CASE p.variants = {}
  <2>1. Answers
    BY <1>1, <1>2 DEF XLReads, OtherFormat, XLUnusable, XLExcluded
  <2> QED BY <2>1 DEF Blames
<1>3. ASSUME NEW v \in p.variants, v.name \notin NoRecord("xl"), v.stock # "out"
      PROVE  Answers
  <2>1. v \in Variant /\ v.name \in {"record", "plain", "blank", "default", "junk"}
    BY <1>3, ProductVariants, VariantFields DEF NoRecord
  <2>2. CASE v \in XLVinyl(p)
    <3>1. InStock(XLVinyl(p)) \/ ~Flagged(XLVinyl(p))
      BY <2>1, <2>2, <1>3, OnSale
    <3> QED BY <1>1, <2>2, <3>1 DEF XLReads, XLRows, OtherFormat, XLExcluded
  <2>3. CASE v \notin XLVinyl(p)
    <3>1. v \in Kept(p, AnyName) => v.name = "default"
      BY <2>1, <2>3 DEF XLVinyl, Kept, AnyName, NotOther
    <3>2. XLUnusable(p)
      BY <3>1, <1>3 DEF XLUnusable, UnusableDropped
    <3> QED BY <1>1, <3>2 DEF XLReads, OtherFormat, OfRecordKind, XLExcluded
  <2> QED BY <2>2, <2>3
<1>4. ASSUME Answers PROVE r.yielded \/ \E t \in Blames.xl : r[t]
  BY <1>4 DEF Blames
<1> QED BY <1>2, <1>3, <1>4 DEF MayBeLive

\* No product is to blame that lost nothing the guards count and is not misread.
LEMMA XLSound ==
    ASSUME NEW p \in Product, Lost(p) \cap Noticed.xl = {}, ~Misread("xl", p)
    PROVE  /\ \A t \in Blames.xl : ~XLReads(p)[t]
           /\ XLReads(p).yielded => XLReads(p).priced
<1> DEFINE r == XLReads(p)
<1>1. p.title # "blank" /\ p.credit = "there" /\ p.handle = "there" /\ p.price = "sound"
  <2>1. Lost(p) \cap {"credit", "title", "handle", "price"} = {}
    BY DEF Noticed
  <2> QED BY <2>1, ProductFields
<1>2. /\ p.variants # {} /\ Junk \notin p.variants
      /\ Entries(p) = p.variants /\ Kept(p, AnyName) = p.variants
      /\ \A v \in p.variants :
            /\ v.name \in {"record", "plain", "other", "default"}
            /\ v.stock \in {"in", "out"}
            /\ v.name = "default" => Cardinality(p.variants) = 1
  <2>1. Lost(p) \cap {"variants", "entries", "names", "placeholder", "stock"} = {}
    BY DEF Noticed
  <2> QED BY <2>1, WholeVariants
<1>3. Flagged(XLVinyl(p))
  <2>1. "stock" \notin Lost(p)
    BY DEF Noticed
  <2>2. XLVinyl(p) \subseteq Entries(p)
    BY <1>2 DEF XLVinyl, Kept, Entries
  <2> QED BY <2>1, <2>2, FlaggedEntries
<1>4. ~XLUnusable(p)
  <2>1. ASSUME NEW v \in p.variants, v.name = "default", v.stock # "out" PROVE FALSE
    <3>1. p.variants = {v} /\ v.stock = "in"
      BY <1>2, <2>1, OnlyVariant
    <3>2. v \in [name : {"record", "plain", "other", "blank", "default"},
                stock : {"in", "out", "unread"}]
      BY <1>2, ProductVariants DEF Variant
    <3>3. v = [name |-> "default", stock |-> "in"]
      BY <2>1, <3>1, <3>2
    <3> QED BY <3>1, <3>3 DEF Misread
  <2> QED BY <1>2, <2>1 DEF XLUnusable, UnusableDropped
<1>5. ~r.identity_missing /\ ~r.variant_identity_missing /\ ~r.unreadable_stock
  BY <1>1, <1>2, <1>3, <1>4 DEF XLReads, HasIdentity, Titled, HasHandle, Credited
<1>6. r.yielded => r.priced
  BY <1>1 DEF XLReads, HasPrice
<1>7. \A t \in Blames.xl : ~r[t]
  BY <1>5 DEF Blames
<1> QED BY <1>6, <1>7

\* A record without a loss is what the guards look for.
LEMMA XLShown ==
    ASSUME NEW p \in Product, Lost(p) = {}, HasRecord("xl", p)
    PROVE  \A t \in Shows.xl : XLReads(p)[t]
<1> DEFINE r == XLReads(p)
<1>1. p.title = "parses" /\ p.credit = "there" /\ p.kind = "record" /\ p.format = "record"
      /\ ~OtherFormat(p)
  <2>1. Lost(p) \cap {"kind", "title", "parse", "credit"} = {}
    OBVIOUS
  <2> QED BY <2>1, ProductFields DEF HasRecord, NotOfRecord, OtherFormat, Titled
<1>2. /\ p.variants # {} /\ Junk \notin p.variants
      /\ Entries(p) = p.variants /\ Kept(p, AnyName) = p.variants
      /\ \A v \in p.variants :
            /\ v.name \in {"record", "plain", "other", "default"}
            /\ v.name = "default" => Cardinality(p.variants) = 1
  <2>1. Lost(p) \cap {"variants", "entries", "names", "placeholder", "stock"} = {}
    OBVIOUS
  <2> QED BY <2>1, WholeVariants
<1>3. PICK v \in p.variants : v.name \notin {"other", "default"}
  BY DEF HasRecord, NoRecord
<1>4. \A x \in p.variants : x.name # "default"
  <2> SUFFICES ASSUME NEW x \in p.variants, x.name = "default" PROVE FALSE
    OBVIOUS
  <2>1. p.variants = {x}
    BY <1>2, OnlyVariant
  <2> QED BY <1>3, <2>1
<1>5. v \in XLVinyl(p) /\ ~XLUnusable(p)
  BY <1>2, <1>3, <1>4 DEF XLVinyl, XLUnusable, UnusableDropped, NotOther
<1>6. r.products_seen /\ r.artist_resolved /\ r.claims_vinyl
  BY <1>1, <1>5 DEF XLReads, XLExcluded, Titled, Credited
<1> QED BY <1>6 DEF Shows

-----------------------------------------------------------------------------
(* dongiovannirecords.py *)

\* The guards raise on the tallies of the tables, and on no other ones.
LEMMA DonGuards ==
    ASSUME NEW n
    PROVE  /\ (\E t \in Musts.don : ~n[t]) => DonRefuses(n)
           /\ ~n.yielded /\ (\E t \in Blames.don : n[t]) => DonRefuses(n)
           /\ n.yielded /\ ~n.priced => DonRefuses(n)
           /\ DonRefuses(n)
               => \/ \E t \in Shows.don : ~n[t]
                  \/ ~n.yielded /\ \E t \in Blames.don : n[t]
                  \/ n.yielded /\ ~n.priced
<1>1. (\E t \in Musts.don : ~n[t]) <=> ~n.products_seen \/ ~n.artist_ok \/ ~n.parsed_ok
                                       \/ ~n.sources_ok
  BY DEF Musts
<1>2. (\E t \in Blames.don : n[t]) <=> n.unclassifiable \/ n.identity_missing
                                       \/ n.variant_identity_missing \/ n.unreadable_stock
  BY DEF Blames
<1>3. (\E t \in Shows.don : ~n[t]) <=> ~n.products_seen \/ ~n.artist_ok \/ ~n.parsed_ok
                                       \/ ~n.sources_ok
  BY DEF Shows
<1> QED BY <1>1, <1>2, <1>3 DEF DonRefuses

\* A product that may be live, and lost nothing the guards miss, yields a row or is to blame.
LEMMA DonLive ==
    ASSUME NEW p \in Product, MayBeLive("don", p), Lost(p) \cap Missed.don = {}
    PROVE  DonReads(p).yielded \/ \E t \in Blames.don : DonReads(p)[t]
<1> DEFINE r == DonReads(p)
           Answers == \/ r.yielded
                      \/ r.unclassifiable \/ r.identity_missing \/ r.variant_identity_missing
                         \/ r.unreadable_stock
<1>1. ~OtherFormat(p)
  BY DEF MayBeLive, NotOfRecord, Parses
<1>2. CASE p.variants = {}
  <2>1. Answers
    BY <1>1, <1>2 DEF DonReads, DonExcluded
  <2> QED BY <2>1 DEF Blames
<1>3. ASSUME NEW v \in p.variants, v.name \notin NoRecord("don"), v.stock # "out"
      PROVE  Answers
  <2>1. v \in Variant /\ v.name \in {"record", "plain", "other", "blank", "default", "junk"}
    BY ProductVariants, VariantFields
  <2>2. CASE v \in DonPressings(p)
    <3>1. InStock(DonPressings(p)) \/ ~Flagged(DonPressings(p))
      BY <2>1, <2>2, <1>3, OnSale
    <3> QED BY <1>1, <3>1 DEF DonReads, DonRows, DonExcluded
  <2>3. CASE v \notin DonPressings(p)
    BY <1>1, <2>3, <1>3 DEF DonReads, OfRecordKind, UnusableDropped, DonExcluded
  <2> QED BY <2>2, <2>3
<1>4. ASSUME Answers PROVE r.yielded \/ \E t \in Blames.don : r[t]
  BY <1>4 DEF Blames
<1> QED BY <1>2, <1>3, <1>4 DEF MayBeLive

\* No product is to blame that lost nothing the guards count.
LEMMA DonSound ==
    ASSUME NEW p \in Product, Lost(p) \cap Noticed.don = {}
    PROVE  /\ \A t \in Blames.don : ~DonReads(p)[t]
           /\ DonReads(p).yielded => DonReads(p).priced
<1> DEFINE r == DonReads(p)
<1>1. p.title = "parses" /\ p.credit = "there" /\ p.handle = "there" /\ p.price = "sound"
  <2>1. Lost(p) \cap {"credit", "title", "parse", "handle", "price"} = {}
    BY DEF Noticed
  <2> QED BY <2>1, ProductFields
<1>2. /\ p.variants # {} /\ Junk \notin p.variants
      /\ Entries(p) = p.variants /\ Kept(p, AnyName) = p.variants
      /\ \A v \in p.variants :
            /\ v.name \in {"record", "plain", "other", "default"}
            /\ v.stock \in {"in", "out"}
            /\ v.name = "default" => Cardinality(p.variants) = 1
  <2>1. Lost(p) \cap {"variants", "entries", "names", "placeholder", "stock"} = {}
    BY DEF Noticed
  <2> QED BY <2>1, WholeVariants
<1>3. Flagged(DonPressings(p))
  <2>1. "stock" \notin Lost(p)
    BY DEF Noticed
  <2>2. DonPressings(p) \subseteq Entries(p)
    BY <1>2 DEF DonPressings, Kept, Entries
  <2> QED BY <2>1, <2>2, FlaggedEntries
<1>5. ~r.unclassifiable /\ ~r.identity_missing /\ ~r.variant_identity_missing
      /\ ~r.unreadable_stock
  BY <1>1, <1>2, <1>3 DEF DonReads, UnusableDropped, HasIdentity, Titled, Parses, HasHandle,
     Credited, DonPressings
<1>6. r.yielded => r.priced
  BY <1>1 DEF DonReads, HasPrice
<1>7. \A t \in Blames.don : ~r[t]
  BY <1>5 DEF Blames
<1> QED BY <1>6, <1>7

\* A record without a loss is what the guards look for.
LEMMA DonShown ==
    ASSUME NEW p \in Product, Lost(p) = {}, HasRecord("don", p)
    PROVE  \A t \in Shows.don : DonReads(p)[t]
<1> DEFINE r == DonReads(p)
<1>1. p.title = "parses" /\ p.credit = "there" /\ p.format = "record" /\ ~OtherFormat(p)
  <2>1. Lost(p) \cap {"kind", "title", "parse", "credit"} = {}
    OBVIOUS
  <2> QED BY <2>1, ProductFields DEF HasRecord, NotOfRecord, OtherFormat, Titled
<1>6. r.products_seen /\ r.artist_ok /\ r.parsed_ok /\ r.sources_ok
  BY <1>1 DEF DonReads, Credited, Parses
<1> QED BY <1>6 DEF Shows

-----------------------------------------------------------------------------
(* bellaunion.py *)

\* The guards raise on the tallies of the tables, and on no other ones.
LEMMA BellaGuards ==
    ASSUME NEW n
    PROVE  /\ (\E t \in Musts.bella : ~n[t]) => BellaRefuses(n)
           /\ ~n.yielded /\ (\E t \in Blames.bella : n[t]) => BellaRefuses(n)
           /\ n.yielded /\ ~n.priced => BellaRefuses(n)
           /\ BellaRefuses(n)
               => \/ \E t \in Shows.bella : ~n[t]
                  \/ ~n.yielded /\ \E t \in Blames.bella : n[t]
                  \/ n.yielded /\ ~n.priced
<1>1. (\E t \in Musts.bella : ~n[t]) <=> ~n.products_seen \/ ~n.parsed_ok
  BY DEF Musts
<1>2. (\E t \in Blames.bella : n[t]) <=> n.unclassifiable \/ n.identity_missing
                                         \/ n.variant_identity_missing \/ n.unreadable_stock
  BY DEF Blames
<1>3. (\E t \in Shows.bella : ~n[t]) <=> ~n.products_seen \/ ~n.parsed_ok
  BY DEF Shows
<1> QED BY <1>1, <1>2, <1>3 DEF BellaRefuses

\* A product that may be live, and lost nothing the guards miss, yields a row or is to blame.
LEMMA BellaLive ==
    ASSUME NEW p \in Product, MayBeLive("bella", p), Lost(p) \cap Missed.bella = {}
    PROVE  BellaReads(p).yielded \/ \E t \in Blames.bella : BellaReads(p)[t]
<1> DEFINE r == BellaReads(p)
           Answers == \/ r.yielded
                      \/ r.unclassifiable \/ r.identity_missing \/ r.variant_identity_missing
                         \/ r.unreadable_stock
<1>1. p.kind = "record" /\ BellaClaims(p)
  BY ProductFields DEF MayBeLive, NotOfRecord, Missed, BellaClaims
<1>2. CASE p.variants = {}
  <2>1. Answers
    BY <1>1, <1>2 DEF BellaReads
  <2> QED BY <2>1 DEF Blames
<1>3. ASSUME NEW v \in p.variants, v.name \notin NoRecord("bella"), v.stock # "out"
      PROVE  Answers
  <2>1. v \in Variant /\ v.name \in {"record", "plain", "blank", "default", "junk"}
    BY <1>3, ProductVariants, VariantFields DEF NoRecord
  <2>2. CASE v \in BellaVinyl(p)
    <3>1. InStock(BellaVinyl(p)) \/ ~Flagged(BellaVinyl(p))
      BY <2>1, <2>2, <1>3, OnSale
    <3> QED BY <1>1, <3>1 DEF BellaReads, BellaRows
  <2>3. CASE v \notin BellaVinyl(p)
    BY <1>1, <2>1, <2>3, <1>3 DEF BellaReads, OfRecordKind, BellaVinyl, UnusableDropped
  <2> QED BY <2>2, <2>3
<1>4. ASSUME Answers PROVE r.yielded \/ \E t \in Blames.bella : r[t]
  BY <1>4 DEF Blames
<1> QED BY <1>2, <1>3, <1>4 DEF MayBeLive

\* No product is to blame that lost nothing the guards count.
LEMMA BellaSound ==
    ASSUME NEW p \in Product, Lost(p) \cap Noticed.bella = {}
    PROVE  /\ \A t \in Blames.bella : ~BellaReads(p)[t]
           /\ BellaReads(p).yielded => BellaReads(p).priced
<1> DEFINE r == BellaReads(p)
<1>1. p.title = "parses" /\ p.handle = "there" /\ p.price = "sound"
  <2>1. Lost(p) \cap {"title", "parse", "handle", "price"} = {}
    BY DEF Noticed
  <2> QED BY <2>1, ProductFields
<1>2. /\ p.variants # {} /\ Junk \notin p.variants
      /\ Entries(p) = p.variants /\ Kept(p, AnyName) = p.variants
      /\ \A v \in p.variants :
            /\ v.name \in {"record", "plain", "other", "default"}
            /\ v.stock \in {"in", "out"}
            /\ v.name = "default" => Cardinality(p.variants) = 1
  <2>1. Lost(p) \cap {"variants", "entries", "names", "placeholder", "stock"} = {}
    BY DEF Noticed
  <2> QED BY <2>1, WholeVariants
<1>3. Flagged(BellaVinyl(p))
  <2>1. "stock" \notin Lost(p)
    BY DEF Noticed
  <2>2. BellaVinyl(p) \subseteq Entries(p)
    BY <1>2 DEF BellaVinyl, BellaPressings, Kept, Entries
  <2> QED BY <2>1, <2>2, FlaggedEntries
<1>5. ~r.unclassifiable /\ ~r.identity_missing /\ ~r.variant_identity_missing
      /\ ~r.unreadable_stock
  BY <1>1, <1>2, <1>3 DEF BellaReads, BellaPressings, UnusableDropped, HasIdentity, Titled,
     Parses, HasHandle
<1>6. r.yielded => r.priced
  BY <1>1 DEF BellaReads, HasPrice
<1>7. \A t \in Blames.bella : ~r[t]
  BY <1>5 DEF Blames
<1> QED BY <1>6, <1>7

\* A record without a loss is what the guards look for.
LEMMA BellaShown ==
    ASSUME NEW p \in Product, Lost(p) = {}, HasRecord("bella", p)
    PROVE  \A t \in Shows.bella : BellaReads(p)[t]
<1> DEFINE r == BellaReads(p)
<1>1. p.title = "parses" /\ p.credit = "there" /\ p.kind = "record"
  <2>1. Lost(p) \cap {"kind", "title", "parse", "credit"} = {}
    OBVIOUS
  <2> QED BY <2>1, ProductFields DEF HasRecord, NotOfRecord, OtherFormat, Titled
<1>6. r.products_seen /\ r.parsed_ok
  BY <1>1 DEF BellaReads, Parses
<1> QED BY <1>6 DEF Shows

-----------------------------------------------------------------------------
(* sacredbonesrecords.py *)

\* The guards raise on the tallies of the tables, and on no other ones.
LEMMA SacredGuards ==
    ASSUME NEW n
    PROVE  /\ (\E t \in Musts.sacred : ~n[t]) => SacredRefuses(n)
           /\ ~n.yielded /\ (\E t \in Blames.sacred : n[t]) => SacredRefuses(n)
           /\ n.yielded /\ ~n.priced => SacredRefuses(n)
           /\ SacredRefuses(n)
               => \/ \E t \in Shows.sacred : ~n[t]
                  \/ ~n.yielded /\ \E t \in Blames.sacred : n[t]
                  \/ n.yielded /\ ~n.priced
<1>1. (\E t \in Musts.sacred : ~n[t]) <=> ~n.products_seen
  BY DEF Musts
<1>2. (\E t \in Blames.sacred : n[t]) <=> n.artist_missing \/ n.unreadable_variants
                                          \/ n.identity_missing \/ n.unreadable_stock
  BY DEF Blames
<1>3. (\E t \in Shows.sacred : ~n[t]) <=> ~n.products_seen
  BY DEF Shows
<1> QED BY <1>1, <1>2, <1>3 DEF SacredRefuses

\* A product that may be live, and lost nothing the guards miss, yields a row or is to blame.
LEMMA SacredLive ==
    ASSUME NEW p \in Product, MayBeLive("sacred", p), Lost(p) \cap Missed.sacred = {}
    PROVE  SacredReads(p).yielded \/ \E t \in Blames.sacred : SacredReads(p)[t]
<1> DEFINE r == SacredReads(p)
           Answers == \/ r.yielded
                      \/ r.artist_missing \/ r.unreadable_variants \/ r.identity_missing
                         \/ r.unreadable_stock
<1>1. p.kind # "other"
  BY DEF MayBeLive, NotOfRecord, Parses
<1>2. CASE p.variants = {}
  <2>1. Answers
    BY <1>1, <1>2 DEF SacredReads, OfRecordKind, SacredUnreadable
  <2> QED BY <2>1 DEF Blames
<1>3. ASSUME NEW v \in p.variants, v.name \notin NoRecord("sacred"), v.stock # "out"
      PROVE  Answers
  <2>1. v \in Variant /\ v.name \in {"record", "plain", "blank", "default", "junk"}
    BY <1>3, ProductVariants, VariantFields DEF NoRecord
  <2>2. CASE v \in SacredPressings(p)
    <3>1. InStock(SacredPressings(p)) \/ ~Flagged(SacredPressings(p))
      BY <2>1, <2>2, <1>3, OnSale
    <3> QED BY <2>2, <3>1 DEF SacredReads, SacredRows
  <2>3. CASE v \notin SacredPressings(p)
    BY <1>1, <2>1, <2>3 DEF SacredReads, OfRecordKind, SacredUnreadable
  <2> QED BY <2>2, <2>3
<1>4. ASSUME Answers PROVE r.yielded \/ \E t \in Blames.sacred : r[t]
  BY <1>4 DEF Blames
<1> QED BY <1>2, <1>3, <1>4 DEF MayBeLive

\* No product is to blame that lost nothing the guards count.
LEMMA SacredSound ==
    ASSUME NEW p \in Product, Lost(p) \cap Noticed.sacred = {}
    PROVE  /\ \A t \in Blames.sacred : ~SacredReads(p)[t]
           /\ SacredReads(p).yielded => SacredReads(p).priced
<1> DEFINE r == SacredReads(p)
<1>1. p.title # "blank" /\ p.credit = "there" /\ p.handle = "there" /\ p.price = "sound"
  <2>1. Lost(p) \cap {"credit", "title", "handle", "price"} = {}
    BY DEF Noticed
  <2> QED BY <2>1, ProductFields
<1>2. /\ p.variants # {} /\ Junk \notin p.variants
      /\ Entries(p) = p.variants /\ Kept(p, AnyName) = p.variants
      /\ \A v \in p.variants :
            /\ v.name \in {"record", "plain", "other", "default"}
            /\ v.stock \in {"in", "out"}
            /\ v.name = "default" => Cardinality(p.variants) = 1
  <2>1. Lost(p) \cap {"variants", "entries", "names", "placeholder", "stock"} = {}
    BY DEF Noticed
  <2> QED BY <2>1, WholeVariants
<1>3. Flagged(SacredPressings(p))
  <2>1. "stock" \notin Lost(p)
    BY DEF Noticed
  <2>2. SacredPressings(p) \subseteq Entries(p)
    BY <1>2 DEF SacredPressings, Entries
  <2> QED BY <2>1, <2>2, FlaggedEntries
<1>4. ~SacredUnreadable(p)
  BY <1>2 DEF SacredUnreadable, SacredPressings, NotOther
<1>5. ~r.artist_missing /\ ~r.unreadable_variants /\ ~r.identity_missing /\ ~r.unreadable_stock
  BY <1>1, <1>2, <1>3, <1>4 DEF SacredReads, HasIdentity, Titled, HasHandle, Credited
<1>6. r.yielded => r.priced
  BY <1>1 DEF SacredReads, HasPrice
<1>7. \A t \in Blames.sacred : ~r[t]
  BY <1>5 DEF Blames
<1> QED BY <1>6, <1>7

\* A record without a loss is what the guards look for.
LEMMA SacredShown ==
    ASSUME NEW p \in Product, Lost(p) = {}, HasRecord("sacred", p)
    PROVE  \A t \in Shows.sacred : SacredReads(p)[t]
<1> DEFINE r == SacredReads(p)
<1>1. p.title = "parses" /\ p.credit = "there" /\ p.kind = "record"
  <2>1. Lost(p) \cap {"kind", "title", "parse", "credit"} = {}
    OBVIOUS
  <2> QED BY <2>1, ProductFields DEF HasRecord, NotOfRecord, OtherFormat, Titled
<1>6. r.products_seen
  BY <1>1 DEF SacredReads
<1> QED BY <1>6 DEF Shows

-----------------------------------------------------------------------------
(* earache.py *)

\* The guards raise on the tallies of the tables, and on no other ones.
LEMMA EaracheGuards ==
    ASSUME NEW n
    PROVE  /\ (\E t \in Musts.earache : ~n[t]) => EaracheRefuses(n)
           /\ ~n.yielded /\ (\E t \in Blames.earache : n[t]) => EaracheRefuses(n)
           /\ n.yielded /\ ~n.priced => EaracheRefuses(n)
           /\ EaracheRefuses(n)
               => \/ \E t \in Shows.earache : ~n[t]
                  \/ ~n.yielded /\ \E t \in Blames.earache : n[t]
                  \/ n.yielded /\ ~n.priced
<1>1. (\E t \in Musts.earache : ~n[t]) <=> ~n.products_seen \/ ~n.parsed_ok
  BY DEF Musts
<1>2. (\E t \in Blames.earache : n[t]) <=> n.identity_missing \/ n.unreadable_stock
  BY DEF Blames
<1>3. (\E t \in Shows.earache : ~n[t]) <=> ~n.products_seen \/ ~n.parsed_ok
  BY DEF Shows
<1> QED BY <1>1, <1>2, <1>3 DEF EaracheRefuses

\* A field lost on every product keeps a tally at zero that has to be there.
LEMMA EaracheDrift ==
    ASSUME NEW d \in NoticedAll.earache
    PROVE  \E t \in Musts.earache \ {"products_seen"} :
              \A p \in Product : d \in Lost(p) => ~EaracheReads(p)[t]
<1>1. CASE d = "title"
  <2>1. ASSUME NEW p \in Product, d \in Lost(p) PROVE ~EaracheReads(p).parsed_ok
    <3>1. p.title # "parses"
      BY <1>1, <2>1, LostFields
    <3> QED BY <3>1 DEF EaracheReads, OfRecordKind, Parses, Credited, Titled, Ladder, Tallied
  <2> QED BY <2>1 DEF Musts
<1>2. CASE d = "parse"
  <2>1. ASSUME NEW p \in Product, d \in Lost(p) PROVE ~EaracheReads(p).parsed_ok
    <3>1. p.title # "parses"
      BY <1>2, <2>1, LostFields
    <3> QED BY <3>1 DEF EaracheReads, OfRecordKind, Parses, Credited, Titled, Ladder, Tallied
  <2> QED BY <2>1 DEF Musts
<1> QED BY <1>1, <1>2 DEF NoticedAll

\* A product that may be live, and lost nothing the guards miss, yields a row or is to blame.
LEMMA EaracheLive ==
    ASSUME NEW p \in Product, MayBeLive("earache", p), Lost(p) \cap Missed.earache = {}
    PROVE  EaracheReads(p).yielded \/ \E t \in Blames.earache : EaracheReads(p)[t]
<1> DEFINE r == EaracheReads(p)
           Answers == \/ r.yielded
                      \/ r.identity_missing \/ r.unreadable_stock
<1>1. ~OtherFormat(p) /\ p.title = "parses"
  BY ProductFields DEF MayBeLive, NotOfRecord, Missed, Parses
<1>2. CASE p.variants = {}
  <2>1. Answers
    BY <1>1, <1>2 DEF EaracheReads, Parses, OfRecordKind, EaracheRecord, EarachePressings, Kept,
       Entries
  <2> QED BY <2>1 DEF Blames
<1>3. ASSUME NEW v \in p.variants, v.name \notin NoRecord("earache"), v.stock # "out"
      PROVE  Answers
  <2>1. v \in Variant /\ v.name \in {"record", "plain", "other", "default"}
    BY ProductVariants, VariantFields DEF Missed
  <2>2. v # Junk
    BY <2>1, VariantFields
  <2>3. v.name = "default" => Cardinality(Entries(p)) = 1
    BY ProductVariants, OnlyEntry DEF Missed
  <2>4. v \in EarachePressings(p)
    BY <2>1, <2>2, <2>3 DEF EarachePressings, Kept, Entries, AnyName
  <2>5. InStock(EarachePressings(p)) \/ ~Flagged(EarachePressings(p))
    BY <2>1, <2>4, <1>3, OnSale
  <2> QED BY <1>1, <2>5 DEF EaracheReads, EaracheRows, Parses, OfRecordKind, EaracheRecord
<1>4. ASSUME Answers PROVE r.yielded \/ \E t \in Blames.earache : r[t]
  BY <1>4 DEF Blames
<1> QED BY <1>2, <1>3, <1>4 DEF MayBeLive

\* No product is to blame that lost nothing the guards count.
LEMMA EaracheSound ==
    ASSUME NEW p \in Product, Lost(p) \cap Noticed.earache = {}
    PROVE  /\ \A t \in Blames.earache : ~EaracheReads(p)[t]
           /\ EaracheReads(p).yielded => EaracheReads(p).priced
<1> DEFINE r == EaracheReads(p)
<1>1. p.handle = "there" /\ p.price = "sound"
  <2>1. Lost(p) \cap {"handle", "price"} = {}
    BY DEF Noticed
  <2> QED BY <2>1, ProductFields
<1>2. /\ p.variants # {} /\ Junk \notin p.variants
      /\ Entries(p) = p.variants /\ Kept(p, AnyName) = p.variants
      /\ \A v \in p.variants :
            /\ v.name \in {"record", "plain", "other", "default"}
            /\ v.stock \in {"in", "out"}
            /\ v.name = "default" => Cardinality(p.variants) = 1
  <2>1. Lost(p) \cap {"variants", "entries", "names", "placeholder", "stock"} = {}
    BY DEF Noticed
  <2> QED BY <2>1, WholeVariants
<1>3. Flagged(EarachePressings(p))
  <2>1. "stock" \notin Lost(p)
    BY DEF Noticed
  <2>2. EarachePressings(p) \subseteq Entries(p)
    BY <1>2 DEF EarachePressings, Kept, Entries
  <2> QED BY <2>1, <2>2, FlaggedEntries
<1>4. EarachePressings(p) # {}
  BY <1>2 DEF EarachePressings
<1>5. ~r.identity_missing /\ ~r.unreadable_stock
  BY <1>1, <1>2, <1>3, <1>4 DEF EaracheReads, EaracheRecord, HasIdentity, Titled, Parses,
     HasHandle
<1>6. r.yielded => r.priced
  BY <1>1 DEF EaracheReads, HasPrice
<1>7. \A t \in Blames.earache : ~r[t]
  BY <1>5 DEF Blames
<1> QED BY <1>6, <1>7

\* A record without a loss is what the guards look for.
LEMMA EaracheShown ==
    ASSUME NEW p \in Product, Lost(p) = {}, HasRecord("earache", p)
    PROVE  \A t \in Shows.earache : EaracheReads(p)[t]
<1> DEFINE r == EaracheReads(p)
<1>1. p.title = "parses" /\ p.credit = "there" /\ p.format = "record" /\ ~OtherFormat(p)
  <2>1. Lost(p) \cap {"kind", "title", "parse", "credit"} = {}
    OBVIOUS
  <2> QED BY <2>1, ProductFields DEF HasRecord, NotOfRecord, OtherFormat, Titled
<1>6. r.products_seen /\ r.parsed_ok
  BY <1>1 DEF EaracheReads, Parses
<1> QED BY <1>6 DEF Shows

-----------------------------------------------------------------------------
(* theflenser.py *)

\* The guards raise on the tallies of the tables, and on no other ones.
LEMMA FlenserGuards ==
    ASSUME NEW n
    PROVE  /\ (\E t \in Musts.flenser : ~n[t]) => FlenserRefuses(n)
           /\ ~n.yielded /\ (\E t \in Blames.flenser : n[t]) => FlenserRefuses(n)
           /\ n.yielded /\ ~n.priced => FlenserRefuses(n)
           /\ FlenserRefuses(n)
               => \/ \E t \in Shows.flenser : ~n[t]
                  \/ ~n.yielded /\ \E t \in Blames.flenser : n[t]
                  \/ n.yielded /\ ~n.priced
<1>1. (\E t \in Musts.flenser : ~n[t]) <=> ~n.products_seen \/ ~n.vinyl_typed \/ ~n.parsed
                                           \/ ~n.format_ok
  BY DEF Musts
<1>2. (\E t \in Blames.flenser : n[t]) <=> n.identity_missing \/ n.variantless_records
                                           \/ n.unnamed_pressings \/ n.unreadable_stock
  BY DEF Blames
<1>3. (\E t \in Shows.flenser : ~n[t]) <=> ~n.products_seen \/ ~n.vinyl_typed \/ ~n.parsed
                                           \/ ~n.format_ok \/ ~n.record_variants_seen
  BY DEF Shows
<1> QED BY <1>1, <1>2, <1>3 DEF FlenserRefuses

\* A field lost on every product keeps a tally at zero that has to be there.
LEMMA FlenserDrift ==
    ASSUME NEW d \in NoticedAll.flenser
    PROVE  \E t \in Musts.flenser \ {"products_seen"} :
              \A p \in Product : d \in Lost(p) => ~FlenserReads(p)[t]
<1>1. CASE d = "kind"
  <2>1. ASSUME NEW p \in Product, d \in Lost(p) PROVE ~FlenserReads(p).vinyl_typed
    <3>1. p.kind = "none"
      BY <1>1, <2>1, LostFields
    <3> QED BY <3>1 DEF FlenserReads, OfRecordKind, Ladder, Tallied
  <2> QED BY <2>1 DEF Musts
<1>2. CASE d = "parse"
  <2>1. ASSUME NEW p \in Product, d \in Lost(p) PROVE ~FlenserReads(p).parsed
    <3>1. p.title # "parses"
      BY <1>2, <2>1, LostFields
    <3> QED BY <3>1 DEF FlenserReads, Parses, Ladder, Tallied
  <2> QED BY <2>1 DEF Musts
<1> QED BY <1>1, <1>2 DEF NoticedAll

\* A product that may be live, and lost nothing the guards miss, yields a row or is to blame.
LEMMA FlenserLive ==
    ASSUME NEW p \in Product, MayBeLive("flenser", p), Lost(p) \cap Missed.flenser = {}
    PROVE  FlenserReads(p).yielded \/ \E t \in Blames.flenser : FlenserReads(p)[t]
<1> DEFINE r == FlenserReads(p)
           Answers == \/ r.yielded
                      \/ r.identity_missing \/ r.variantless_records \/ r.unnamed_pressings
                         \/ r.unreadable_stock
<1>1. ~OtherFormat(p) /\ p.kind = "record" /\ p.title \in {"parses", "blank"}
  BY ProductFields DEF MayBeLive, NotOfRecord, Missed, Parses
<1>2. CASE p.variants = {}
  <2>1. Answers
    BY <1>1, <1>2 DEF FlenserReads, Titled, Parses, OfRecordKind, FlenserRecord
  <2> QED BY <2>1 DEF Blames
<1>3. ASSUME NEW v \in p.variants, v.name \notin NoRecord("flenser"), v.stock # "out"
      PROVE  Answers
  <2>1. v \in Variant /\ v.name \in {"record", "plain", "blank", "default", "junk"}
    BY <1>3, ProductVariants, VariantFields DEF NoRecord
  <2>2. CASE v \in FlenserPressings(p)
    <3>1. InStock(FlenserPressings(p)) \/ ~Flagged(FlenserPressings(p))
      BY <2>1, <2>2, <1>3, OnSale
    <3> QED BY <1>1, <3>1 DEF FlenserReads, FlenserRows, Titled, Parses, OfRecordKind,
       FlenserRecord
  <2>3. CASE v \notin FlenserPressings(p)
    BY <1>1, <2>1, <2>3, <1>3 DEF FlenserReads, Titled, Parses, OfRecordKind, FlenserRecord,
       FlenserUnread
  <2> QED BY <2>2, <2>3
<1>4. ASSUME Answers PROVE r.yielded \/ \E t \in Blames.flenser : r[t]
  BY <1>4 DEF Blames
<1> QED BY <1>2, <1>3, <1>4 DEF MayBeLive

\* No product is to blame that lost nothing the guards count.
LEMMA FlenserSound ==
    ASSUME NEW p \in Product, Lost(p) \cap Noticed.flenser = {}
    PROVE  /\ \A t \in Blames.flenser : ~FlenserReads(p)[t]
           /\ FlenserReads(p).yielded => FlenserReads(p).priced
<1> DEFINE r == FlenserReads(p)
<1>1. p.title # "blank" /\ p.handle = "there" /\ p.price = "sound"
  <2>1. Lost(p) \cap {"title", "handle", "price"} = {}
    BY DEF Noticed
  <2> QED BY <2>1, ProductFields
<1>2. /\ p.variants # {} /\ Junk \notin p.variants
      /\ Entries(p) = p.variants /\ Kept(p, AnyName) = p.variants
      /\ \A v \in p.variants :
            /\ v.name \in {"record", "plain", "other", "default"}
            /\ v.stock \in {"in", "out"}
            /\ v.name = "default" => Cardinality(p.variants) = 1
  <2>1. Lost(p) \cap {"variants", "entries", "names", "placeholder", "stock"} = {}
    BY DEF Noticed
  <2> QED BY <2>1, WholeVariants
<1>3. Flagged(FlenserPressings(p))
  <2>1. "stock" \notin Lost(p)
    BY DEF Noticed
  <2>2. FlenserPressings(p) \subseteq Entries(p)
    BY <1>2 DEF FlenserPressings, Entries
  <2> QED BY <2>1, <2>2, FlaggedEntries
<1>4. FlenserUnread(p) = {}
  BY <1>2 DEF FlenserUnread, FlenserPressings, NotOther
<1>5. ~r.identity_missing /\ ~r.variantless_records /\ ~r.unnamed_pressings
      /\ ~r.unreadable_stock
  BY <1>1, <1>2, <1>3, <1>4 DEF FlenserReads, HasIdentity, Titled, HasHandle
<1>6. r.yielded => r.priced
  BY <1>1 DEF FlenserReads, HasPrice
<1>7. \A t \in Blames.flenser : ~r[t]
  BY <1>5 DEF Blames
<1> QED BY <1>6, <1>7

\* A record without a loss is what the guards look for.
LEMMA FlenserShown ==
    ASSUME NEW p \in Product, Lost(p) = {}, HasRecord("flenser", p)
    PROVE  \A t \in Shows.flenser : FlenserReads(p)[t]
<1> DEFINE r == FlenserReads(p)
<1>1. p.title = "parses" /\ p.credit = "there" /\ p.kind = "record" /\ p.format = "record"
      /\ ~OtherFormat(p)
  <2>1. Lost(p) \cap {"kind", "title", "parse", "credit"} = {}
    OBVIOUS
  <2> QED BY <2>1, ProductFields DEF HasRecord, NotOfRecord, OtherFormat, Titled
<1>2. /\ p.variants # {} /\ Junk \notin p.variants
      /\ Entries(p) = p.variants /\ Kept(p, AnyName) = p.variants
      /\ \A v \in p.variants :
            /\ v.name \in {"record", "plain", "other", "default"}
            /\ v.name = "default" => Cardinality(p.variants) = 1
  <2>1. Lost(p) \cap {"variants", "entries", "names", "placeholder", "stock"} = {}
    OBVIOUS
  <2> QED BY <2>1, WholeVariants
<1>3. PICK v \in p.variants : v.name \notin NoRecord("flenser")
  BY DEF HasRecord
<1>4. v \in FlenserPressings(p)
  BY <1>1, <1>2, <1>3 DEF FlenserPressings, NotOther, NoRecord
<1>6. r.products_seen /\ r.vinyl_typed /\ r.parsed /\ r.format_ok /\ r.record_variants_seen
  BY <1>1, <1>4 DEF FlenserReads, FlenserRecord, OfRecordKind, Parses
<1> QED BY <1>6 DEF Shows

-----------------------------------------------------------------------------
(* lenoise.py *)

\* The guards raise on the tallies of the tables, and on no other ones.
LEMMA LeNoiseGuards ==
    ASSUME NEW n
    PROVE  /\ (\E t \in Musts.lenoise : ~n[t]) => LeNoiseRefuses(n)
           /\ ~n.yielded /\ (\E t \in Blames.lenoise : n[t]) => LeNoiseRefuses(n)
           /\ n.yielded /\ ~n.priced => LeNoiseRefuses(n)
           /\ LeNoiseRefuses(n)
               => \/ \E t \in Shows.lenoise : ~n[t]
                  \/ ~n.yielded /\ \E t \in Blames.lenoise : n[t]
                  \/ n.yielded /\ ~n.priced
<1>1. (\E t \in Musts.lenoise : ~n[t]) <=> ~n.products_seen \/ ~n.vinyl_typed \/ ~n.records
  BY DEF Musts
<1>2. (\E t \in Blames.lenoise : n[t]) <=> n.unreadable_products \/ n.unreadable_kind
                                           \/ n.unreadable_variants \/ n.identity_missing
                                           \/ n.artist_missing \/ n.unreadable_stock
  BY DEF Blames
<1>3. (\E t \in Shows.lenoise : ~n[t]) <=> ~n.products_seen \/ ~n.vinyl_typed \/ ~n.records
  BY DEF Shows
<1> QED BY <1>1, <1>2, <1>3 DEF LeNoiseRefuses

\* A product that may be live, and lost nothing the guards miss, yields a row or is to blame.
LEMMA LeNoiseLive ==
    ASSUME NEW p \in Product, MayBeLive("lenoise", p), Lost(p) \cap Missed.lenoise = {}
    PROVE  LeNoiseReads(p).yielded \/ \E t \in Blames.lenoise : LeNoiseReads(p)[t]
<1> DEFINE r == LeNoiseReads(p)
           Answers == \/ r.yielded
                      \/ r.unreadable_products \/ r.unreadable_kind \/ r.unreadable_variants
                         \/ r.identity_missing \/ r.artist_missing \/ r.unreadable_stock
<1>1. ~OtherFormat(p) /\ p.kind \in {"record", "none"}
  BY ProductFields DEF MayBeLive, NotOfRecord, Parses
<1>2. CASE p.variants = {}
  <2>1. Answers
    BY <1>1, <1>2 DEF LeNoiseReads, OfRecordKind, LeNoiseRecord
  <2> QED BY <2>1 DEF Blames
<1>3. ASSUME NEW v \in p.variants, v.name \notin NoRecord("lenoise"), v.stock # "out"
      PROVE  Answers
  <2>1. v \in Variant /\ v.name \in {"record", "plain", "other", "blank", "default", "junk"}
    BY ProductVariants, VariantFields
  <2>2. CASE v \in Entries(p)
    <3>1. InStock(Entries(p)) \/ ~Flagged(Entries(p))
      BY <2>1, <2>2, <1>3, OnSale
    <3> QED BY <1>1, <3>1 DEF LeNoiseReads, LeNoiseRows, OfRecordKind, LeNoiseRecord
  <2>3. CASE v \notin Entries(p)
    BY <1>1, <2>3 DEF LeNoiseReads, OfRecordKind, LeNoiseRecord, Entries
  <2> QED BY <2>2, <2>3
<1>4. ASSUME Answers PROVE r.yielded \/ \E t \in Blames.lenoise : r[t]
  BY <1>4 DEF Blames
<1> QED BY <1>2, <1>3, <1>4 DEF MayBeLive

\* No product is to blame that lost nothing the guards count.
LEMMA LeNoiseSound ==
    ASSUME NEW p \in Product, Lost(p) \cap Noticed.lenoise = {}
    PROVE  /\ \A t \in Blames.lenoise : ~LeNoiseReads(p)[t]
           /\ LeNoiseReads(p).yielded => LeNoiseReads(p).priced
<1> DEFINE r == LeNoiseReads(p)
<1>1. p.kind # "none" /\ p.title = "parses" /\ p.handle = "there" /\ p.price = "sound"
  <2>1. Lost(p) \cap {"kind", "title", "parse", "handle", "price"} = {}
    BY DEF Noticed
  <2> QED BY <2>1, ProductFields
<1>2. p.variants # {} /\ Junk \notin p.variants
  <2>1. Lost(p) \cap {"variants", "entries"} = {}
    BY DEF Noticed
  <2> QED BY <2>1, ProductVariants
<1>3. Flagged(Entries(p))
  <2>1. "stock" \notin Lost(p)
    BY DEF Noticed
  <2> QED BY <2>1, FlaggedEntries
<1>5. ~r.unreadable_products /\ ~r.unreadable_kind /\ ~r.unreadable_variants
      /\ ~r.identity_missing /\ ~r.artist_missing /\ ~r.unreadable_stock
  BY <1>1, <1>2, <1>3 DEF LeNoiseReads, HasIdentity, Titled, Parses, HasHandle
<1>6. r.yielded => r.priced
  BY <1>1 DEF LeNoiseReads, HasPrice
<1>7. \A t \in Blames.lenoise : ~r[t]
  BY <1>5 DEF Blames
<1> QED BY <1>6, <1>7

\* A record without a loss is what the guards look for.
LEMMA LeNoiseShown ==
    ASSUME NEW p \in Product, Lost(p) = {}, HasRecord("lenoise", p)
    PROVE  \A t \in Shows.lenoise : LeNoiseReads(p)[t]
<1> DEFINE r == LeNoiseReads(p)
<1>1. p.title = "parses" /\ p.credit = "there" /\ p.kind = "record" /\ p.format = "record"
      /\ ~OtherFormat(p)
  <2>1. Lost(p) \cap {"kind", "title", "parse", "credit"} = {}
    OBVIOUS
  <2> QED BY <2>1, ProductFields DEF HasRecord, NotOfRecord, OtherFormat, Titled
<1>6. r.products_seen /\ r.vinyl_typed /\ r.records
  BY <1>1 DEF LeNoiseReads, LeNoiseRecord, OfRecordKind
<1> QED BY <1>6 DEF Shows

-----------------------------------------------------------------------------
(* monorailmusic.py *)

\* The guards raise on the tallies of the tables, and on no other ones.
LEMMA MonorailGuards ==
    ASSUME NEW n
    PROVE  /\ (\E t \in Musts.monorail : ~n[t]) => MonorailRefuses(n)
           /\ ~n.yielded /\ (\E t \in Blames.monorail : n[t]) => MonorailRefuses(n)
           /\ n.yielded /\ ~n.priced => MonorailRefuses(n)
           /\ MonorailRefuses(n)
               => \/ \E t \in Shows.monorail : ~n[t]
                  \/ ~n.yielded /\ \E t \in Blames.monorail : n[t]
                  \/ n.yielded /\ ~n.priced
<1>1. (\E t \in Musts.monorail : ~n[t]) <=> ~n.products_seen \/ ~n.music_seen \/ ~n.vinyl_products
  BY DEF Musts
<1>2. (\E t \in Blames.monorail : n[t]) <=> n.unreadable_variants \/ n.artist_missing
                                            \/ n.identity_missing \/ n.unreadable_stock
  BY DEF Blames
<1>3. (\E t \in Shows.monorail : ~n[t]) <=> ~n.products_seen \/ ~n.music_seen \/ ~n.vinyl_products
  BY DEF Shows
<1> QED BY <1>1, <1>2, <1>3 DEF MonorailRefuses

\* A field lost on every product keeps a tally at zero that has to be there.
LEMMA MonorailDrift ==
    ASSUME NEW d \in NoticedAll.monorail
    PROVE  \E t \in Musts.monorail \ {"products_seen"} :
              \A p \in Product : d \in Lost(p) => ~MonorailReads(p)[t]
<1>1. CASE d = "kind"
  <2>1. ASSUME NEW p \in Product, d \in Lost(p) PROVE ~MonorailReads(p).music_seen
    <3>1. p.kind = "none"
      BY <1>1, <2>1, LostFields
    <3> QED BY <3>1 DEF MonorailReads, OfRecordKind, Parses, Credited, Titled, Ladder, Tallied
  <2> QED BY <2>1 DEF Musts
<1> QED BY <1>1 DEF NoticedAll

\* A product that may be live, and lost nothing the guards miss, yields a row or is to blame.
LEMMA MonorailLive ==
    ASSUME NEW p \in Product, MayBeLive("monorail", p), Lost(p) \cap Missed.monorail = {}
    PROVE  MonorailReads(p).yielded \/ \E t \in Blames.monorail : MonorailReads(p)[t]
<1> DEFINE r == MonorailReads(p)
           Answers == \/ r.yielded
                      \/ r.unreadable_variants \/ r.artist_missing \/ r.identity_missing
                         \/ r.unreadable_stock
<1>1. p.kind = "record"
  BY ProductFields DEF MayBeLive, NotOfRecord, Missed, Parses
<1>2. CASE p.variants = {}
  <2>1. Answers
    BY <1>1, <1>2 DEF MonorailReads, OfRecordKind
  <2> QED BY <2>1 DEF Blames
<1>3. ASSUME NEW v \in p.variants, v.name \notin NoRecord("monorail"), v.stock # "out"
      PROVE  Answers
  <2>1. v \in Variant /\ v.name \in {"record", "blank", "junk"}
    BY <1>3, ProductVariants, VariantFields DEF NoRecord
  <2>2. CASE v \in MonorailPressings(p)
    <3>1. InStock(MonorailPressings(p)) \/ ~Flagged(MonorailPressings(p))
      BY <2>1, <2>2, <1>3, OnSale
    <3> QED BY <1>1, <2>2, <3>1 DEF MonorailReads, MonorailRows, OfRecordKind
  <2>3. CASE v \notin MonorailPressings(p)
    BY <1>1, <2>1, <2>3 DEF MonorailReads, OfRecordKind, MonorailPressings, VinylWord, Unnamed
  <2> QED BY <2>2, <2>3
<1>4. ASSUME Answers PROVE r.yielded \/ \E t \in Blames.monorail : r[t]
  BY <1>4 DEF Blames
<1> QED BY <1>2, <1>3, <1>4 DEF MayBeLive

\* No product is to blame that lost nothing the guards count.
LEMMA MonorailSound ==
    ASSUME NEW p \in Product, Lost(p) \cap Noticed.monorail = {}
    PROVE  /\ \A t \in Blames.monorail : ~MonorailReads(p)[t]
           /\ MonorailReads(p).yielded => MonorailReads(p).priced
<1> DEFINE r == MonorailReads(p)
<1>1. p.title # "blank" /\ MonorailCredited(p) /\ p.handle = "there" /\ p.price = "sound"
  <2>1. Lost(p) \cap {"artist", "title", "handle", "price"} = {}
    BY DEF Noticed
  <2> QED BY <2>1, ProductFields DEF MonorailCredited, Parses, Credited
<1>2. p.variants # {} /\ Junk \notin p.variants /\ \A v \in p.variants : v.name # "blank"
  <2>1. Lost(p) \cap {"variants", "entries", "names"} = {}
    BY DEF Noticed
  <2> QED BY <2>1, ProductVariants
<1>3. Flagged(MonorailPressings(p))
  <2>1. "stock" \notin Lost(p)
    BY DEF Noticed
  <2>2. MonorailPressings(p) \subseteq Entries(p)
    BY <1>2 DEF MonorailPressings, VinylWord, Entries, Junk
  <2> QED BY <2>1, <2>2, FlaggedEntries
<1>4. ~Unnamed(p)
  BY <1>2, ProductVariants, VariantFields DEF Unnamed
<1>5. ~r.unreadable_variants /\ ~r.artist_missing /\ ~r.identity_missing /\ ~r.unreadable_stock
  BY <1>1, <1>2, <1>3, <1>4 DEF MonorailReads, HasIdentity, Titled, HasHandle
<1>6. r.yielded => r.priced
  BY <1>1 DEF MonorailReads, HasPrice
<1>7. \A t \in Blames.monorail : ~r[t]
  BY <1>5 DEF Blames
<1> QED BY <1>6, <1>7

\* A record without a loss is what the guards look for.
LEMMA MonorailShown ==
    ASSUME NEW p \in Product, Lost(p) = {}, HasRecord("monorail", p)
    PROVE  \A t \in Shows.monorail : MonorailReads(p)[t]
<1> DEFINE r == MonorailReads(p)
<1>1. p.title = "parses" /\ p.credit = "there" /\ p.kind = "record"
  <2>1. Lost(p) \cap {"kind", "title", "parse", "credit"} = {}
    OBVIOUS
  <2> QED BY <2>1, ProductFields DEF HasRecord, NotOfRecord, OtherFormat, Titled
<1>2. /\ p.variants # {} /\ Junk \notin p.variants
      /\ Entries(p) = p.variants /\ Kept(p, AnyName) = p.variants
      /\ \A v \in p.variants :
            /\ v.name \in {"record", "plain", "other", "default"}
            /\ v.name = "default" => Cardinality(p.variants) = 1
  <2>1. Lost(p) \cap {"variants", "entries", "names", "placeholder", "stock"} = {}
    OBVIOUS
  <2> QED BY <2>1, WholeVariants
<1>3. PICK v \in p.variants : v.name \notin NoRecord("monorail")
  BY DEF HasRecord
<1>4. v \in MonorailPressings(p)
  BY <1>1, <1>2, <1>3 DEF MonorailPressings, VinylWord, NoRecord
<1>6. r.products_seen /\ r.music_seen /\ r.vinyl_products
  BY <1>1, <1>4 DEF MonorailReads, OfRecordKind
<1> QED BY <1>6 DEF Shows

-----------------------------------------------------------------------------
(* translationloss.py *)

\* The guards raise on the tallies of the tables, and on no other ones.
LEMMA TransGuards ==
    ASSUME NEW n
    PROVE  /\ (\E t \in Musts.trans : ~n[t]) => TransRefuses(n)
           /\ ~n.yielded /\ (\E t \in Blames.trans : n[t]) => TransRefuses(n)
           /\ n.yielded /\ ~n.priced => TransRefuses(n)
           /\ TransRefuses(n)
               => \/ \E t \in Shows.trans : ~n[t]
                  \/ ~n.yielded /\ \E t \in Blames.trans : n[t]
                  \/ n.yielded /\ ~n.priced
<1>1. (\E t \in Musts.trans : ~n[t]) <=> ~n.products_seen \/ ~n.type_ok \/ ~n.vinyl_typed
                                         \/ ~n.artist_ok \/ ~n.pressings_seen
  BY DEF Musts
<1>2. (\E t \in Blames.trans : n[t]) <=> n.artist_missing \/ n.pressings_missing
                                         \/ n.identity_missing \/ n.unreadable_stock
  BY DEF Blames
<1>3. (\E t \in Shows.trans : ~n[t]) <=> ~n.products_seen \/ ~n.type_ok \/ ~n.vinyl_typed
                                         \/ ~n.artist_ok \/ ~n.pressings_seen
  BY DEF Shows
<1> QED BY <1>1, <1>2, <1>3 DEF TransRefuses

\* A field lost on every product keeps a tally at zero that has to be there.
LEMMA TransDrift ==
    ASSUME NEW d \in NoticedAll.trans
    PROVE  \E t \in Musts.trans \ {"products_seen"} :
              \A p \in Product : d \in Lost(p) => ~TransReads(p)[t]
<1>1. CASE d = "kind"
  <2>1. ASSUME NEW p \in Product, d \in Lost(p) PROVE ~TransReads(p).type_ok
    <3>1. p.kind = "none"
      BY <1>1, <2>1, LostFields
    <3> QED BY <3>1 DEF TransReads, OfRecordKind, Titled, Ladder, Tallied
  <2> QED BY <2>1 DEF Musts
<1> QED BY <1>1 DEF NoticedAll

\* A product that may be live, and lost nothing the guards miss, yields a row or is to blame.
LEMMA TransLive ==
    ASSUME NEW p \in Product, MayBeLive("trans", p), Lost(p) \cap Missed.trans = {}
    PROVE  TransReads(p).yielded \/ \E t \in Blames.trans : TransReads(p)[t]
<1> DEFINE r == TransReads(p)
           Answers == \/ r.yielded
                      \/ r.artist_missing \/ r.pressings_missing \/ r.identity_missing
                         \/ r.unreadable_stock
<1>1. ~OtherFormat(p) /\ p.kind = "record"
  BY ProductFields DEF MayBeLive, NotOfRecord, Missed, Parses
<1>2. CASE p.variants = {}
  <2>1. Answers
    BY <1>1, <1>2 DEF TransReads, OfRecordKind, TransRecord
  <2> QED BY <2>1 DEF Blames
<1>3. ASSUME NEW v \in p.variants, v.name \notin NoRecord("trans"), v.stock # "out"
      PROVE  Answers
  <2>1. v \in Variant /\ v.name \in {"record", "plain", "other", "blank", "default", "junk"}
    BY ProductVariants, VariantFields
  <2>2. CASE v \in TransPressings(p)
    <3>1. InStock(TransPressings(p)) \/ ~Flagged(TransPressings(p))
      BY <2>1, <2>2, <1>3, OnSale
    <3> QED BY <1>1, <3>1 DEF TransReads, TransRows, OfRecordKind, TransRecord
  <2>3. CASE v \notin TransPressings(p)
    BY <1>1, <2>3 DEF TransReads, OfRecordKind, TransRecord
  <2> QED BY <2>2, <2>3
<1>4. ASSUME Answers PROVE r.yielded \/ \E t \in Blames.trans : r[t]
  BY <1>4 DEF Blames
<1> QED BY <1>2, <1>3, <1>4 DEF MayBeLive

\* No product is to blame that lost nothing the guards count.
LEMMA TransSound ==
    ASSUME NEW p \in Product, Lost(p) \cap Noticed.trans = {}
    PROVE  /\ \A t \in Blames.trans : ~TransReads(p)[t]
           /\ TransReads(p).yielded => TransReads(p).priced
<1> DEFINE r == TransReads(p)
<1>1. p.title # "blank" /\ p.credit = "there" /\ p.handle = "there" /\ p.price = "sound"
  <2>1. Lost(p) \cap {"credit", "title", "handle", "price"} = {}
    BY DEF Noticed
  <2> QED BY <2>1, ProductFields
<1>2. /\ p.variants # {} /\ Junk \notin p.variants
      /\ Entries(p) = p.variants /\ Kept(p, AnyName) = p.variants
      /\ \A v \in p.variants :
            /\ v.name \in {"record", "plain", "other", "default"}
            /\ v.stock \in {"in", "out"}
            /\ v.name = "default" => Cardinality(p.variants) = 1
  <2>1. Lost(p) \cap {"variants", "entries", "names", "placeholder", "stock"} = {}
    BY DEF Noticed
  <2> QED BY <2>1, WholeVariants
<1>3. Flagged(TransPressings(p))
  <2>1. "stock" \notin Lost(p)
    BY DEF Noticed
  <2>2. TransPressings(p) \subseteq Entries(p)
    BY <1>2 DEF TransPressings, Kept, Entries
  <2> QED BY <2>1, <2>2, FlaggedEntries
<1>4. p.variants = TransPressings(p)
  BY <1>2 DEF TransPressings
<1>5. ~r.artist_missing /\ ~r.pressings_missing /\ ~r.identity_missing /\ ~r.unreadable_stock
  BY <1>1, <1>2, <1>3, <1>4 DEF TransReads, TransRecord, HasIdentity, Titled, HasHandle,
     Credited
<1>6. r.yielded => r.priced
  BY <1>1 DEF TransReads, HasPrice
<1>7. \A t \in Blames.trans : ~r[t]
  BY <1>5 DEF Blames
<1> QED BY <1>6, <1>7

\* A record without a loss is what the guards look for.
LEMMA TransShown ==
    ASSUME NEW p \in Product, Lost(p) = {}, HasRecord("trans", p)
    PROVE  \A t \in Shows.trans : TransReads(p)[t]
<1> DEFINE r == TransReads(p)
<1>1. p.title = "parses" /\ p.credit = "there" /\ p.kind = "record" /\ p.format = "record"
      /\ ~OtherFormat(p)
  <2>1. Lost(p) \cap {"kind", "title", "parse", "credit"} = {}
    OBVIOUS
  <2> QED BY <2>1, ProductFields DEF HasRecord, NotOfRecord, OtherFormat, Titled
<1>2. /\ p.variants # {} /\ Junk \notin p.variants
      /\ Entries(p) = p.variants /\ Kept(p, AnyName) = p.variants
      /\ \A v \in p.variants :
            /\ v.name \in {"record", "plain", "other", "default"}
            /\ v.name = "default" => Cardinality(p.variants) = 1
  <2>1. Lost(p) \cap {"variants", "entries", "names", "placeholder", "stock"} = {}
    OBVIOUS
  <2> QED BY <2>1, WholeVariants
<1>3. PICK v \in p.variants : v.name \notin NoRecord("trans")
  BY DEF HasRecord
<1>4. v \in TransPressings(p)
  BY <1>1, <1>2, <1>3 DEF TransPressings, NoRecord
<1>6. r.products_seen /\ r.type_ok /\ r.vinyl_typed /\ r.artist_ok /\ r.pressings_seen
  BY <1>1, <1>4 DEF TransReads, TransRecord, OfRecordKind, Credited
<1> QED BY <1>6 DEF Shows

-----------------------------------------------------------------------------
(* matadorrecords.py *)

\* The guards raise on the tallies of the tables, and on no other ones.
LEMMA MatadorGuards ==
    ASSUME NEW n
    PROVE  /\ (\E t \in Musts.matador : ~n[t]) => MatadorRefuses(n)
           /\ ~n.yielded /\ (\E t \in Blames.matador : n[t]) => MatadorRefuses(n)
           /\ n.yielded /\ ~n.priced => MatadorRefuses(n)
           /\ MatadorRefuses(n)
               => \/ \E t \in Shows.matador : ~n[t]
                  \/ ~n.yielded /\ \E t \in Blames.matador : n[t]
                  \/ n.yielded /\ ~n.priced
<1>1. (\E t \in Musts.matador : ~n[t]) <=> ~n.products_seen \/ ~n.typed \/ ~n.artist_ok
                                           \/ ~n.vinyl_seen
  BY DEF Musts
<1>2. (\E t \in Blames.matador : n[t]) <=> n.identity_missing \/ n.unreadable_stock
  BY DEF Blames
<1>3. (\E t \in Shows.matador : ~n[t]) <=> ~n.products_seen \/ ~n.typed \/ ~n.artist_ok
                                           \/ ~n.vinyl_seen
  BY DEF Shows
<1> QED BY <1>1, <1>2, <1>3 DEF MatadorRefuses

\* A field lost on every product keeps a tally at zero that has to be there.
LEMMA MatadorDrift ==
    ASSUME NEW d \in NoticedAll.matador
    PROVE  \E t \in Musts.matador \ {"products_seen"} :
              \A p \in Product : d \in Lost(p) => ~MatadorReads(p)[t]
<1>1. CASE d = "kind"
  <2>1. ASSUME NEW p \in Product, d \in Lost(p) PROVE ~MatadorReads(p).typed
    <3>1. p.kind = "none"
      BY <1>1, <2>1, LostFields
    <3> QED BY <3>1 DEF MatadorReads, OfRecordKind, Titled, Ladder, Tallied
  <2> QED BY <2>1 DEF Musts
<1>2. CASE d = "credit"
  <2>1. ASSUME NEW p \in Product, d \in Lost(p) PROVE ~MatadorReads(p).artist_ok
    <3>1. p.credit # "there"
      BY <1>2, <2>1, LostFields
    <3> QED BY <3>1 DEF MatadorReads, Parses, Credited, Titled, Ladder, Tallied
  <2> QED BY <2>1 DEF Musts
<1>3. CASE d = "variants"
  <2>1. ASSUME NEW p \in Product, d \in Lost(p) PROVE ~MatadorReads(p).vinyl_seen
    <3>1. p.variants = {}
      BY <1>3, <2>1, LostFields
    <3> QED BY <3>1 DEF MatadorReads, Titled, Ladder, Tallied, MatadorVinyl
  <2> QED BY <2>1 DEF Musts
<1> QED BY <1>1, <1>2, <1>3 DEF NoticedAll

\* A product that may be live, and lost nothing the guards miss, yields a row or is to blame.
LEMMA MatadorLive ==
    ASSUME NEW p \in Product, MayBeLive("matador", p), Lost(p) \cap Missed.matador = {}
    PROVE  MatadorReads(p).yielded \/ \E t \in Blames.matador : MatadorReads(p)[t]
<1> DEFINE r == MatadorReads(p)
           Answers == \/ r.yielded
                      \/ r.identity_missing \/ r.unreadable_stock
<1>1. p.kind = "record" /\ p.credit = "there"
  BY ProductFields DEF MayBeLive, NotOfRecord, Missed, Parses
<1>2. p.variants # {}
  BY ProductVariants DEF Missed
<1>3. PICK v \in p.variants : v.name \notin NoRecord("matador") /\ v.stock # "out"
  BY <1>2 DEF MayBeLive
<1>4. Answers
  <2>1. v \in Variant /\ v.name \in {"record"}
    BY <1>3, ProductVariants, VariantFields DEF NoRecord, Missed
  <2>2. v \in MatadorVinyl(p)
    BY <2>1 DEF MatadorVinyl, VinylWord
  <2>3. InStock(MatadorVinyl(p)) \/ ~Flagged(MatadorVinyl(p))
    BY <2>1, <2>2, <1>3, OnSale
  <2> QED BY <1>1, <2>2, <2>3 DEF MatadorReads, MatadorRows, Credited, OfRecordKind, Ladder,
     LadderRows
<1> QED BY <1>4 DEF Blames

\* No product is to blame that lost nothing the guards count.
LEMMA MatadorSound ==
    ASSUME NEW p \in Product, Lost(p) \cap Noticed.matador = {}
    PROVE  /\ \A t \in Blames.matador : ~MatadorReads(p)[t]
           /\ MatadorReads(p).yielded => MatadorReads(p).priced
<1> DEFINE r == MatadorReads(p)
<1>1. p.title # "blank" /\ p.handle = "there" /\ p.price = "sound"
  <2>1. Lost(p) \cap {"title", "handle", "price"} = {}
    BY DEF Noticed
  <2> QED BY <2>1, ProductFields
<1>2. p.variants \subseteq Variant
  BY ProductVariants
<1>3. Flagged(MatadorVinyl(p))
  <2>1. "stock" \notin Lost(p)
    BY DEF Noticed
  <2>2. MatadorVinyl(p) \subseteq Entries(p)
    BY <1>2 DEF MatadorVinyl, VinylWord, Entries, Junk
  <2> QED BY <2>1, <2>2, FlaggedEntries
<1>5. ~r.identity_missing /\ ~r.unreadable_stock
  BY <1>1, <1>2, <1>3 DEF MatadorReads, Ladder, HasIdentity, Titled, HasHandle
<1>6. r.yielded => r.priced
  BY <1>1 DEF MatadorReads, Ladder, HasPrice
<1>7. \A t \in Blames.matador : ~r[t]
  BY <1>5 DEF Blames
<1> QED BY <1>6, <1>7

\* A record without a loss is what the guards look for.
LEMMA MatadorShown ==
    ASSUME NEW p \in Product, Lost(p) = {}, HasRecord("matador", p)
    PROVE  \A t \in Shows.matador : MatadorReads(p)[t]
<1> DEFINE r == MatadorReads(p)
<1>1. p.title = "parses" /\ p.credit = "there" /\ p.kind = "record"
  <2>1. Lost(p) \cap {"kind", "title", "parse", "credit"} = {}
    OBVIOUS
  <2> QED BY <2>1, ProductFields DEF HasRecord, NotOfRecord, OtherFormat, Titled
<1>2. /\ p.variants # {} /\ Junk \notin p.variants
      /\ Entries(p) = p.variants /\ Kept(p, AnyName) = p.variants
      /\ \A v \in p.variants :
            /\ v.name \in {"record", "plain", "other", "default"}
            /\ v.name = "default" => Cardinality(p.variants) = 1
  <2>1. Lost(p) \cap {"variants", "entries", "names", "placeholder", "stock"} = {}
    OBVIOUS
  <2> QED BY <2>1, WholeVariants
<1>3. PICK v \in p.variants : v.name \notin NoRecord("matador")
  BY DEF HasRecord
<1>4. v \in MatadorVinyl(p)
  BY <1>1, <1>2, <1>3 DEF MatadorVinyl, VinylWord, NoRecord
<1>6. r.products_seen /\ r.typed /\ r.artist_ok /\ r.vinyl_seen
  BY <1>1, <1>4 DEF MatadorReads, Ladder, OfRecordKind, Credited
<1> QED BY <1>6 DEF Shows

-----------------------------------------------------------------------------
(* counterintuitiverecords.py *)

\* The guards raise on the tallies of the tables, and on no other ones.
LEMMA CounterGuards ==
    ASSUME NEW n
    PROVE  /\ (\E t \in Musts.counter : ~n[t]) => CounterRefuses(n)
           /\ ~n.yielded /\ (\E t \in Blames.counter : n[t]) => CounterRefuses(n)
           /\ n.yielded /\ ~n.priced => CounterRefuses(n)
           /\ CounterRefuses(n)
               => \/ \E t \in Shows.counter : ~n[t]
                  \/ ~n.yielded /\ \E t \in Blames.counter : n[t]
                  \/ n.yielded /\ ~n.priced
<1>1. (\E t \in Musts.counter : ~n[t]) <=> ~n.products_seen \/ ~n.typed \/ ~n.artist_ok
                                           \/ ~n.vinyl_seen
  BY DEF Musts
<1>2. (\E t \in Blames.counter : n[t]) <=> n.identity_missing \/ n.unreadable_stock
  BY DEF Blames
<1>3. (\E t \in Shows.counter : ~n[t]) <=> ~n.products_seen \/ ~n.typed \/ ~n.artist_ok
                                           \/ ~n.vinyl_seen
  BY DEF Shows
<1> QED BY <1>1, <1>2, <1>3 DEF CounterRefuses

\* A field lost on every product keeps a tally at zero that has to be there.
LEMMA CounterDrift ==
    ASSUME NEW d \in NoticedAll.counter
    PROVE  \E t \in Musts.counter \ {"products_seen"} :
              \A p \in Product : d \in Lost(p) => ~CounterReads(p)[t]
<1>1. CASE d = "kind"
  <2>1. ASSUME NEW p \in Product, d \in Lost(p) PROVE ~CounterReads(p).typed
    <3>1. p.kind = "none"
      BY <1>1, <2>1, LostFields
    <3> QED BY <3>1 DEF CounterReads, OfRecordKind, Parses, Credited, Titled, Ladder, Tallied
  <2> QED BY <2>1 DEF Musts
<1>2. CASE d = "variants"
  <2>1. ASSUME NEW p \in Product, d \in Lost(p) PROVE ~CounterReads(p).vinyl_seen
    <3>1. p.variants = {}
      BY <1>2, <2>1, LostFields
    <3> QED BY <3>1 DEF CounterReads, Parses, Credited, Titled, Ladder, Tallied, CounterVinyl,
       Kept, Entries
  <2> QED BY <2>1 DEF Musts
<1>3. CASE d = "artist"
  <2>1. ASSUME NEW p \in Product, d \in Lost(p) PROVE ~CounterReads(p).artist_ok
    <3>1. p.title # "parses" /\ p.credit # "there"
      BY <1>3, <2>1, LostFields
    <3> QED BY <3>1 DEF CounterReads, CounterCredited, Parses, Credited, Ladder
  <2> QED BY <2>1 DEF Musts
<1> QED BY <1>1, <1>2, <1>3 DEF NoticedAll

\* A product that may be live, and lost nothing the guards miss, yields a row or is to blame.
LEMMA CounterLive ==
    ASSUME NEW p \in Product, MayBeLive("counter", p), Lost(p) \cap Missed.counter = {}
    PROVE  CounterReads(p).yielded \/ \E t \in Blames.counter : CounterReads(p)[t]
<1> DEFINE r == CounterReads(p)
           Answers == \/ r.yielded
                      \/ r.identity_missing \/ r.unreadable_stock
<1>1. p.kind = "record" /\ CounterCredited(p)
  BY ProductFields DEF MayBeLive, NotOfRecord, Missed, Parses, Credited, CounterCredited
<1>2. p.variants # {}
  BY ProductVariants DEF Missed
<1>3. PICK v \in p.variants : v.name \notin NoRecord("counter") /\ v.stock # "out"
  BY <1>2 DEF MayBeLive
<1>4. Answers
  <2>1. v \in Variant /\ v.name \in {"record", "plain", "default"}
    BY <1>3, ProductVariants, VariantFields DEF NoRecord, Missed
  <2>2. v # Junk
    BY <2>1, VariantFields
  <2>3. v.name = "default" => Cardinality(Entries(p)) = 1
    BY ProductVariants, OnlyEntry DEF Missed
  <2>4. v \in CounterVinyl(p)
    BY <2>1, <2>2, <2>3 DEF CounterVinyl, Kept, Entries, NotOther
  <2>5. InStock(CounterVinyl(p)) \/ ~Flagged(CounterVinyl(p))
    BY <2>1, <2>4, <1>3, OnSale
  <2> QED BY <1>1, <2>4, <2>5 DEF CounterReads, CounterRows, OfRecordKind, Ladder,
     LadderRows
<1> QED BY <1>4 DEF Blames

\* No product is to blame that lost nothing the guards count.
LEMMA CounterSound ==
    ASSUME NEW p \in Product, Lost(p) \cap Noticed.counter = {}
    PROVE  /\ \A t \in Blames.counter : ~CounterReads(p)[t]
           /\ CounterReads(p).yielded => CounterReads(p).priced
<1> DEFINE r == CounterReads(p)
<1>1. p.title # "blank" /\ p.handle = "there" /\ p.price = "sound"
  <2>1. Lost(p) \cap {"title", "handle", "price"} = {}
    BY DEF Noticed
  <2> QED BY <2>1, ProductFields
<1>2. p.variants \subseteq Variant
  BY ProductVariants
<1>3. Flagged(CounterVinyl(p))
  <2>1. "stock" \notin Lost(p)
    BY DEF Noticed
  <2>2. CounterVinyl(p) \subseteq Entries(p)
    BY <1>2 DEF CounterVinyl, Kept, Entries
  <2> QED BY <2>1, <2>2, FlaggedEntries
<1>5. ~r.identity_missing /\ ~r.unreadable_stock
  BY <1>1, <1>2, <1>3 DEF CounterReads, Ladder, HasIdentity, Titled, HasHandle
<1>6. r.yielded => r.priced
  BY <1>1 DEF CounterReads, Ladder, HasPrice
<1>7. \A t \in Blames.counter : ~r[t]
  BY <1>5 DEF Blames
<1> QED BY <1>6, <1>7

\* A record without a loss is what the guards look for.
LEMMA CounterShown ==
    ASSUME NEW p \in Product, Lost(p) = {}, HasRecord("counter", p)
    PROVE  \A t \in Shows.counter : CounterReads(p)[t]
<1> DEFINE r == CounterReads(p)
<1>1. p.title = "parses" /\ p.credit = "there" /\ p.kind = "record"
  <2>1. Lost(p) \cap {"kind", "title", "parse", "credit"} = {}
    OBVIOUS
  <2> QED BY <2>1, ProductFields DEF HasRecord, NotOfRecord, OtherFormat, Titled
<1>2. /\ p.variants # {} /\ Junk \notin p.variants
      /\ Entries(p) = p.variants /\ Kept(p, AnyName) = p.variants
      /\ \A v \in p.variants :
            /\ v.name \in {"record", "plain", "other", "default"}
            /\ v.name = "default" => Cardinality(p.variants) = 1
  <2>1. Lost(p) \cap {"variants", "entries", "names", "placeholder", "stock"} = {}
    OBVIOUS
  <2> QED BY <2>1, WholeVariants
<1>3. PICK v \in p.variants : v.name \notin NoRecord("counter")
  BY DEF HasRecord
<1>4. v \in CounterVinyl(p)
  BY <1>1, <1>2, <1>3 DEF CounterVinyl, Kept, NotOther, NoRecord
<1>6. r.products_seen /\ r.typed /\ r.artist_ok /\ r.vinyl_seen
  BY <1>1, <1>4 DEF CounterReads, CounterCredited, Ladder, OfRecordKind, Credited
<1> QED BY <1>6 DEF Shows

-----------------------------------------------------------------------------
(* iodinerecords.py *)

\* The guards raise on the tallies of the tables, and on no other ones.
LEMMA IodineGuards ==
    ASSUME NEW n
    PROVE  /\ (\E t \in Musts.iodine : ~n[t]) => IodineRefuses(n)
           /\ ~n.yielded /\ (\E t \in Blames.iodine : n[t]) => IodineRefuses(n)
           /\ n.yielded /\ ~n.priced => IodineRefuses(n)
           /\ IodineRefuses(n)
               => \/ \E t \in Shows.iodine : ~n[t]
                  \/ ~n.yielded /\ \E t \in Blames.iodine : n[t]
                  \/ n.yielded /\ ~n.priced
<1>1. (\E t \in Musts.iodine : ~n[t]) <=> ~n.products_seen \/ ~n.typed \/ ~n.artist_ok
                                          \/ ~n.vinyl_seen
  BY DEF Musts
<1>2. (\E t \in Blames.iodine : n[t]) <=> n.identity_missing \/ n.unreadable_stock
  BY DEF Blames
<1>3. (\E t \in Shows.iodine : ~n[t]) <=> ~n.products_seen \/ ~n.typed \/ ~n.artist_ok
                                          \/ ~n.vinyl_seen
  BY DEF Shows
<1> QED BY <1>1, <1>2, <1>3 DEF IodineRefuses

\* A field lost on every product keeps a tally at zero that has to be there.
LEMMA IodineDrift ==
    ASSUME NEW d \in NoticedAll.iodine
    PROVE  \E t \in Musts.iodine \ {"products_seen"} :
              \A p \in Product : d \in Lost(p) => ~IodineReads(p)[t]
<1>1. CASE d = "kind"
  <2>1. ASSUME NEW p \in Product, d \in Lost(p) PROVE ~IodineReads(p).typed
    <3>1. p.kind = "none"
      BY <1>1, <2>1, LostFields
    <3> QED BY <3>1 DEF IodineReads, OfRecordKind, Credited, Titled, Ladder, Tallied
  <2> QED BY <2>1 DEF Musts
<1>2. CASE d = "title"
  <2>1. ASSUME NEW p \in Product, d \in Lost(p) PROVE ~IodineReads(p).artist_ok
    <3>1. p.title # "parses"
      BY <1>2, <2>1, LostFields
    <3> QED BY <3>1 DEF IodineReads, Parses, Credited, Titled, Ladder, Tallied
  <2> QED BY <2>1 DEF Musts
<1>3. CASE d = "parse"
  <2>1. ASSUME NEW p \in Product, d \in Lost(p) PROVE ~IodineReads(p).artist_ok
    <3>1. p.title # "parses"
      BY <1>3, <2>1, LostFields
    <3> QED BY <3>1 DEF IodineReads, Parses, Credited, Titled, Ladder, Tallied
  <2> QED BY <2>1 DEF Musts
<1>4. CASE d = "variants"
  <2>1. ASSUME NEW p \in Product, d \in Lost(p) PROVE ~IodineReads(p).vinyl_seen
    <3>1. p.variants = {}
      BY <1>4, <2>1, LostFields
    <3> QED BY <3>1 DEF IodineReads, Credited, Titled, Ladder, Tallied, IodineVinyl, Kept, Entries
  <2> QED BY <2>1 DEF Musts
<1> QED BY <1>1, <1>2, <1>3, <1>4 DEF NoticedAll

\* A product that may be live, and lost nothing the guards miss, yields a row or is to blame.
LEMMA IodineLive ==
    ASSUME NEW p \in Product, MayBeLive("iodine", p), Lost(p) \cap Missed.iodine = {}
    PROVE  IodineReads(p).yielded \/ \E t \in Blames.iodine : IodineReads(p)[t]
<1> DEFINE r == IodineReads(p)
           Answers == \/ r.yielded
                      \/ r.identity_missing \/ r.unreadable_stock
<1>1. p.kind = "record" /\ p.title = "parses" /\ p.format # "other"
  BY ProductFields DEF MayBeLive, NotOfRecord, Missed, OtherFormat, Titled, Parses
<1>2. p.variants # {}
  BY ProductVariants DEF Missed
<1>3. PICK v \in p.variants : v.name \notin NoRecord("iodine") /\ v.stock # "out"
  BY <1>2 DEF MayBeLive
<1>4. Answers
  <2>1. v \in Variant /\ v.name \in {"record", "plain", "default"}
    BY <1>3, ProductVariants, VariantFields DEF NoRecord, Missed
  <2>2. v # Junk
    BY <2>1, VariantFields
  <2>3. v.name = "default" => Cardinality(Entries(p)) = 1
    BY ProductVariants, OnlyEntry DEF Missed
  <2>4. v \in IodineVinyl(p)
    BY <1>1, <2>1, <2>2, <2>3 DEF IodineVinyl, Kept, Entries, NotOther
  <2>5. InStock(IodineVinyl(p)) \/ ~Flagged(IodineVinyl(p))
    BY <2>1, <2>4, <1>3, OnSale
  <2> QED BY <1>1, <2>4, <2>5 DEF IodineReads, IodineRows, Parses, OfRecordKind, Ladder,
     LadderRows
<1> QED BY <1>4 DEF Blames

\* No product is to blame that lost nothing the guards count.
LEMMA IodineSound ==
    ASSUME NEW p \in Product, Lost(p) \cap Noticed.iodine = {}
    PROVE  /\ \A t \in Blames.iodine : ~IodineReads(p)[t]
           /\ IodineReads(p).yielded => IodineReads(p).priced
<1> DEFINE r == IodineReads(p)
<1>1. p.handle = "there" /\ p.price = "sound"
  <2>1. Lost(p) \cap {"handle", "price"} = {}
    BY DEF Noticed
  <2> QED BY <2>1, ProductFields
<1>2. p.variants \subseteq Variant
  BY ProductVariants
<1>3. Flagged(IodineVinyl(p))
  <2>1. "stock" \notin Lost(p)
    BY DEF Noticed
  <2>2. IodineVinyl(p) \subseteq Entries(p)
    BY <1>2 DEF IodineVinyl, Kept, Entries
  <2> QED BY <2>1, <2>2, FlaggedEntries
<1>5. ~r.identity_missing /\ ~r.unreadable_stock
  BY <1>1, <1>2, <1>3 DEF IodineReads, Ladder, HasIdentity, Titled, Parses, HasHandle
<1>6. r.yielded => r.priced
  BY <1>1 DEF IodineReads, Ladder, HasPrice
<1>7. \A t \in Blames.iodine : ~r[t]
  BY <1>5 DEF Blames
<1> QED BY <1>6, <1>7

\* A record without a loss is what the guards look for.
LEMMA IodineShown ==
    ASSUME NEW p \in Product, Lost(p) = {}, HasRecord("iodine", p)
    PROVE  \A t \in Shows.iodine : IodineReads(p)[t]
<1> DEFINE r == IodineReads(p)
<1>1. p.title = "parses" /\ p.credit = "there" /\ p.kind = "record" /\ p.format = "record"
      /\ ~OtherFormat(p)
  <2>1. Lost(p) \cap {"kind", "title", "parse", "credit"} = {}
    OBVIOUS
  <2> QED BY <2>1, ProductFields DEF HasRecord, NotOfRecord, OtherFormat, Titled
<1>2. /\ p.variants # {} /\ Junk \notin p.variants
      /\ Entries(p) = p.variants /\ Kept(p, AnyName) = p.variants
      /\ \A v \in p.variants :
            /\ v.name \in {"record", "plain", "other", "default"}
            /\ v.name = "default" => Cardinality(p.variants) = 1
  <2>1. Lost(p) \cap {"variants", "entries", "names", "placeholder", "stock"} = {}
    OBVIOUS
  <2> QED BY <2>1, WholeVariants
<1>3. PICK v \in p.variants : v.name \notin NoRecord("iodine")
  BY DEF HasRecord
<1>4. v \in IodineVinyl(p)
  BY <1>1, <1>2, <1>3 DEF IodineVinyl, Kept, NotOther, NoRecord
<1>6. r.products_seen /\ r.typed /\ r.artist_ok /\ r.vinyl_seen
  BY <1>1, <1>4 DEF IodineReads, Ladder, OfRecordKind, Parses
<1> QED BY <1>6 DEF Shows

-----------------------------------------------------------------------------
(* revolver.py *)

\* The guards raise on the tallies of the tables, and on no other ones.
LEMMA RevolverGuards ==
    ASSUME NEW n
    PROVE  /\ (\E t \in Musts.revolver : ~n[t]) => RevolverRefuses(n)
           /\ ~n.yielded /\ (\E t \in Blames.revolver : n[t]) => RevolverRefuses(n)
           /\ n.yielded /\ ~n.priced => RevolverRefuses(n)
           /\ RevolverRefuses(n)
               => \/ \E t \in Shows.revolver : ~n[t]
                  \/ ~n.yielded /\ \E t \in Blames.revolver : n[t]
                  \/ n.yielded /\ ~n.priced
<1>1. (\E t \in Musts.revolver : ~n[t]) <=> ~n.products_seen \/ ~n.vinyl_typed
                                            \/ ~n.artist_ok \/ ~n.records
  BY DEF Musts
<1>2. (\E t \in Blames.revolver : n[t]) <=> n.unreadable_products \/ n.unreadable_variants
                                            \/ n.identity_missing \/ n.unreadable_stock
  BY DEF Blames
<1>3. (\E t \in Shows.revolver : ~n[t]) <=> ~n.products_seen \/ ~n.vinyl_typed
                                            \/ ~n.artist_ok \/ ~n.records
  BY DEF Shows
<1> QED BY <1>1, <1>2, <1>3 DEF RevolverRefuses

\* A field lost on every product keeps a tally at zero that has to be there.
LEMMA RevolverDrift ==
    ASSUME NEW d \in NoticedAll.revolver
    PROVE  \E t \in Musts.revolver \ {"products_seen"} :
              \A p \in Product : d \in Lost(p) => ~RevolverReads(p)[t]
<1>1. CASE d = "parse"
  <2>1. ASSUME NEW p \in Product, d \in Lost(p) PROVE ~RevolverReads(p).artist_ok
    <3>1. p.title # "parses"
      BY <1>1, <2>1, LostFields
    <3> QED BY <3>1 DEF RevolverReads, Parses, Ladder, Tallied
  <2> QED BY <2>1 DEF Musts
<1> QED BY <1>1 DEF NoticedAll

\* A product that may be live, and lost nothing the guards miss, yields a row or is to blame.
LEMMA RevolverLive ==
    ASSUME NEW p \in Product, MayBeLive("revolver", p), Lost(p) \cap Missed.revolver = {}
    PROVE  RevolverReads(p).yielded \/ \E t \in Blames.revolver : RevolverReads(p)[t]
<1> DEFINE r == RevolverReads(p)
           Answers == \/ r.yielded
                      \/ r.unreadable_products \/ r.unreadable_variants \/ r.identity_missing
                         \/ r.unreadable_stock
<1>1. ~OtherFormat(p) /\ p.kind \in {"record", "none"} /\ p.title \in {"parses", "blank"}
  BY ProductFields DEF MayBeLive, NotOfRecord, Missed, Parses
<1>2. CASE p.variants = {}
  <2>1. Answers
    BY <1>1, <1>2 DEF RevolverReads, Titled, Parses, OfRecordKind, RevolverUnread, RevolverOnShelf
  <2> QED BY <2>1 DEF Blames
<1>3. ASSUME NEW v \in p.variants, v.name \notin NoRecord("revolver"), v.stock # "out"
      PROVE  Answers
  <2>1. v \in Variant /\ v.name \in {"record", "plain", "blank", "default", "junk"}
    BY <1>3, ProductVariants, VariantFields DEF NoRecord
  <2>2. CASE v \in RevolverVinyl(p)
    <3>1. InStock(RevolverVinyl(p)) \/ ~Flagged(RevolverVinyl(p))
      BY <2>1, <2>2, <1>3, OnSale
    <3> QED BY <1>1, <2>2, <3>1 DEF RevolverReads, RevolverRows, Titled, Parses, OfRecordKind,
       RevolverUnread, RevolverOnShelf
  <2>3. CASE v \notin RevolverVinyl(p)
    <3>1. v.name \in {"blank", "junk"}
      <4>1. v # Junk /\ v.name = "default" => Cardinality(Entries(p)) = 1
        BY ProductVariants, OnlyEntry DEF Missed
      <4> QED BY <2>1, <2>3, <4>1, VariantFields DEF RevolverVinyl, Kept, Entries, NotOther
    <3> QED BY <1>1, <3>1 DEF RevolverReads, Titled, Parses, OfRecordKind, RevolverUnread,
       RevolverOnShelf, Unnamed
  <2> QED BY <2>2, <2>3
<1>4. ASSUME Answers PROVE r.yielded \/ \E t \in Blames.revolver : r[t]
  BY <1>4 DEF Blames
<1> QED BY <1>2, <1>3, <1>4 DEF MayBeLive

\* No product is to blame that lost nothing the guards count.
LEMMA RevolverSound ==
    ASSUME NEW p \in Product, Lost(p) \cap Noticed.revolver = {}
    PROVE  /\ \A t \in Blames.revolver : ~RevolverReads(p)[t]
           /\ RevolverReads(p).yielded => RevolverReads(p).priced
<1> DEFINE r == RevolverReads(p)
<1>1. p.kind # "none" /\ p.title # "blank" /\ p.handle = "there" /\ p.price = "sound"
  <2>1. Lost(p) \cap {"kind", "title", "handle", "price"} = {}
    BY DEF Noticed
  <2> QED BY <2>1, ProductFields
<1>2. p.variants # {} /\ Junk \notin p.variants /\ \A v \in p.variants : v.name # "blank"
  <2>1. Lost(p) \cap {"variants", "entries", "names"} = {}
    BY DEF Noticed
  <2> QED BY <2>1, ProductVariants
<1>3. Flagged(RevolverVinyl(p))
  <2>1. "stock" \notin Lost(p)
    BY DEF Noticed
  <2>2. RevolverVinyl(p) \subseteq Entries(p)
    BY <1>2 DEF RevolverVinyl, Kept, Entries
  <2> QED BY <2>1, <2>2, FlaggedEntries
<1>4. ~Unnamed(p)
  BY <1>2, ProductVariants, VariantFields DEF Unnamed
<1>5. ~r.unreadable_products /\ ~r.unreadable_variants /\ ~r.identity_missing
      /\ ~r.unreadable_stock
  BY <1>1, <1>2, <1>3, <1>4 DEF RevolverReads, RevolverUnread, RevolverOnShelf, Titled,
     HasHandle
<1>6. r.yielded => r.priced
  BY <1>1 DEF RevolverReads, HasPrice
<1>7. \A t \in Blames.revolver : ~r[t]
  BY <1>5 DEF Blames
<1> QED BY <1>6, <1>7

\* A record without a loss is what the guards look for.
LEMMA RevolverShown ==
    ASSUME NEW p \in Product, Lost(p) = {}, HasRecord("revolver", p)
    PROVE  \A t \in Shows.revolver : RevolverReads(p)[t]
<1> DEFINE r == RevolverReads(p)
<1>1. p.title = "parses" /\ p.credit = "there" /\ p.kind = "record" /\ p.format = "record"
      /\ ~OtherFormat(p)
  <2>1. Lost(p) \cap {"kind", "title", "parse", "credit"} = {}
    OBVIOUS
  <2> QED BY <2>1, ProductFields DEF HasRecord, NotOfRecord, OtherFormat, Titled
<1>2. /\ p.variants # {} /\ Junk \notin p.variants
      /\ Entries(p) = p.variants /\ Kept(p, AnyName) = p.variants
      /\ \A v \in p.variants :
            /\ v.name \in {"record", "plain", "other", "default"}
            /\ v.name = "default" => Cardinality(p.variants) = 1
  <2>1. Lost(p) \cap {"variants", "entries", "names", "placeholder", "stock"} = {}
    OBVIOUS
  <2> QED BY <2>1, WholeVariants
<1>3. PICK v \in p.variants : v.name \notin NoRecord("revolver")
  BY DEF HasRecord
<1>4. v \in RevolverVinyl(p)
  BY <1>1, <1>2, <1>3 DEF RevolverVinyl, Kept, NotOther, NoRecord
<1>6. r.products_seen /\ r.vinyl_typed /\ r.artist_ok /\ r.records
  BY <1>1, <1>4 DEF RevolverReads, RevolverOnShelf, OfRecordKind, Parses, Titled
<1> QED BY <1>6 DEF Shows

-----------------------------------------------------------------------------
(* musiconvinyl.py *)

\* The guards raise on the tallies of the tables, and on no other ones.
LEMMA MusicOnVinylGuards ==
    ASSUME NEW n
    PROVE  /\ (\E t \in Musts.mov : ~n[t]) => MusicOnVinylRefuses(n)
           /\ ~n.yielded /\ (\E t \in Blames.mov : n[t]) => MusicOnVinylRefuses(n)
           /\ n.yielded /\ ~n.priced => MusicOnVinylRefuses(n)
           /\ MusicOnVinylRefuses(n)
               => \/ \E t \in Shows.mov : ~n[t]
                  \/ ~n.yielded /\ \E t \in Blames.mov : n[t]
                  \/ n.yielded /\ ~n.priced
<1>1. (\E t \in Musts.mov : ~n[t]) <=> ~n.products_seen \/ ~n.vinyl_seen \/ ~n.artist_ok
  BY DEF Musts
<1>2. (\E t \in Blames.mov : n[t]) <=> n.identity_missing \/ n.unreadable_stock
  BY DEF Blames
<1>3. (\E t \in Shows.mov : ~n[t]) <=> ~n.products_seen \/ ~n.vinyl_seen \/ ~n.artist_ok
  BY DEF Shows
<1> QED BY <1>1, <1>2, <1>3 DEF MusicOnVinylRefuses

\* A field lost on every product keeps a tally at zero that has to be there.
LEMMA MusicOnVinylDrift ==
    ASSUME NEW d \in NoticedAll.mov
    PROVE  \E t \in Musts.mov \ {"products_seen"} :
              \A p \in Product : d \in Lost(p) => ~MusicOnVinylReads(p)[t]
<1>1. CASE d = "kind"
  <2>1. ASSUME NEW p \in Product, d \in Lost(p) PROVE ~MusicOnVinylReads(p).vinyl_seen
    <3>1. p.kind = "none"
      BY <1>1, <2>1, LostFields
    <3> QED BY <3>1 DEF MusicOnVinylReads, OfRecordKind, Titled, Ladder, Tallied
  <2> QED BY <2>1 DEF Musts
<1>2. CASE d = "credit"
  <2>1. ASSUME NEW p \in Product, d \in Lost(p) PROVE ~MusicOnVinylReads(p).artist_ok
    <3>1. p.credit # "there"
      BY <1>2, <2>1, LostFields
    <3> QED BY <3>1 DEF MusicOnVinylReads, Parses, Credited, Titled, Ladder, Tallied
  <2> QED BY <2>1 DEF Musts
<1> QED BY <1>1, <1>2 DEF NoticedAll

\* A product that may be live, and lost nothing the guards miss, yields a row or is to blame.
LEMMA MusicOnVinylLive ==
    ASSUME NEW p \in Product, MayBeLive("mov", p), Lost(p) \cap Missed.mov = {}
    PROVE  MusicOnVinylReads(p).yielded \/ \E t \in Blames.mov : MusicOnVinylReads(p)[t]
<1> DEFINE r == MusicOnVinylReads(p)
           Answers == \/ r.yielded
                      \/ r.identity_missing \/ r.unreadable_stock
<1>1. p.kind = "record" /\ p.credit = "there"
  BY ProductFields DEF MayBeLive, NotOfRecord, Missed, Parses
<1>2. CASE p.variants = {}
  <2>1. Answers
    BY <1>1, <1>2 DEF MusicOnVinylReads, Credited, OfRecordKind, Tallied, Entries
  <2> QED BY <2>1 DEF Blames
<1>3. ASSUME NEW v \in p.variants, v.name \notin NoRecord("mov"), v.stock # "out"
      PROVE  Answers
  <2>1. v \in Variant /\ v.name \in {"record", "plain", "other", "blank", "default"}
    BY ProductVariants, VariantFields DEF Missed
  <2>4. v \in Entries(p)
    BY <2>1, VariantFields DEF Entries
  <2>5. InStock(Entries(p)) \/ ~Flagged(Entries(p))
    BY <2>1, <2>4, <1>3, OnSale
  <2> QED BY <1>1, <2>5 DEF MusicOnVinylReads, MusicOnVinylRows, Credited, OfRecordKind, Tallied
<1>4. ASSUME Answers PROVE r.yielded \/ \E t \in Blames.mov : r[t]
  BY <1>4 DEF Blames
<1> QED BY <1>2, <1>3, <1>4 DEF MayBeLive

\* No product is to blame that lost nothing the guards count.
LEMMA MusicOnVinylSound ==
    ASSUME NEW p \in Product, Lost(p) \cap Noticed.mov = {}
    PROVE  /\ \A t \in Blames.mov : ~MusicOnVinylReads(p)[t]
           /\ MusicOnVinylReads(p).yielded => MusicOnVinylReads(p).priced
<1> DEFINE r == MusicOnVinylReads(p)
<1>1. p.title # "blank" /\ p.handle = "there" /\ p.price = "sound"
  <2>1. Lost(p) \cap {"title", "handle", "price"} = {}
    BY DEF Noticed
  <2> QED BY <2>1, ProductFields
<1>2. p.variants # {} /\ Junk \notin p.variants
  <2>1. Lost(p) \cap {"variants", "entries"} = {}
    BY DEF Noticed
  <2> QED BY <2>1, ProductVariants
<1>3. Flagged(Entries(p))
  <2>1. "stock" \notin Lost(p)
    BY DEF Noticed
  <2> QED BY <2>1, FlaggedEntries
<1>4. Entries(p) # {}
  BY <1>2 DEF Entries
<1>5. ~r.identity_missing /\ ~r.unreadable_stock
  BY <1>1, <1>2, <1>3, <1>4 DEF MusicOnVinylReads, Tallied, HasIdentity, Titled, HasHandle
<1>6. r.yielded => r.priced
  BY <1>1 DEF MusicOnVinylReads, Tallied, HasPrice
<1>7. \A t \in Blames.mov : ~r[t]
  BY <1>5 DEF Blames
<1> QED BY <1>6, <1>7

\* A record without a loss is what the guards look for.
LEMMA MusicOnVinylShown ==
    ASSUME NEW p \in Product, Lost(p) = {}, HasRecord("mov", p)
    PROVE  \A t \in Shows.mov : MusicOnVinylReads(p)[t]
<1> DEFINE r == MusicOnVinylReads(p)
<1>1. p.title = "parses" /\ p.credit = "there" /\ p.kind = "record"
  <2>1. Lost(p) \cap {"kind", "title", "parse", "credit"} = {}
    OBVIOUS
  <2> QED BY <2>1, ProductFields DEF HasRecord, NotOfRecord, OtherFormat, Titled
<1>6. r.products_seen /\ r.vinyl_seen /\ r.artist_ok
  BY <1>1 DEF MusicOnVinylReads, Tallied, OfRecordKind, Credited
<1> QED BY <1>6 DEF Shows

-----------------------------------------------------------------------------
(* spkr.py *)

\* The guards raise on the tallies of the tables, and on no other ones.
LEMMA SpkrGuards ==
    ASSUME NEW n
    PROVE  /\ (\E t \in Musts.spkr : ~n[t]) => SpkrRefuses(n)
           /\ ~n.yielded /\ (\E t \in Blames.spkr : n[t]) => SpkrRefuses(n)
           /\ n.yielded /\ ~n.priced => SpkrRefuses(n)
           /\ SpkrRefuses(n)
               => \/ \E t \in Shows.spkr : ~n[t]
                  \/ ~n.yielded /\ \E t \in Blames.spkr : n[t]
                  \/ n.yielded /\ ~n.priced
<1>1. (\E t \in Musts.spkr : ~n[t]) <=> ~n.products_seen \/ ~n.vinyl_seen \/ ~n.artist_ok
  BY DEF Musts
<1>2. (\E t \in Blames.spkr : n[t]) <=> n.identity_missing \/ n.unreadable_stock
  BY DEF Blames
<1>3. (\E t \in Shows.spkr : ~n[t]) <=> ~n.products_seen \/ ~n.vinyl_seen \/ ~n.artist_ok
  BY DEF Shows
<1> QED BY <1>1, <1>2, <1>3 DEF SpkrRefuses, MusicOnVinylRefuses

\* A field lost on every product keeps a tally at zero that has to be there.
LEMMA SpkrDrift ==
    ASSUME NEW d \in NoticedAll.spkr
    PROVE  \E t \in Musts.spkr \ {"products_seen"} :
              \A p \in Product : d \in Lost(p) => ~SpkrReads(p)[t]
<1>1. CASE d = "kind"
  <2>1. ASSUME NEW p \in Product, d \in Lost(p) PROVE ~SpkrReads(p).vinyl_seen
    <3>1. p.kind = "none"
      BY <1>1, <2>1, LostFields
    <3> QED BY <3>1 DEF SpkrReads, OfRecordKind, Credited, Titled, Ladder, Tallied
  <2> QED BY <2>1 DEF Musts
<1>2. CASE d = "title"
  <2>1. ASSUME NEW p \in Product, d \in Lost(p) PROVE ~SpkrReads(p).artist_ok
    <3>1. p.title # "parses"
      BY <1>2, <2>1, LostFields
    <3> QED BY <3>1 DEF SpkrReads, Parses, Credited, Titled, Ladder, Tallied
  <2> QED BY <2>1 DEF Musts
<1>3. CASE d = "parse"
  <2>1. ASSUME NEW p \in Product, d \in Lost(p) PROVE ~SpkrReads(p).artist_ok
    <3>1. p.title # "parses"
      BY <1>3, <2>1, LostFields
    <3> QED BY <3>1 DEF SpkrReads, Parses, Credited, Titled, Ladder, Tallied
  <2> QED BY <2>1 DEF Musts
<1> QED BY <1>1, <1>2, <1>3 DEF NoticedAll

\* A product that may be live, and lost nothing the guards miss, yields a row or is to blame.
LEMMA SpkrLive ==
    ASSUME NEW p \in Product, MayBeLive("spkr", p), Lost(p) \cap Missed.spkr = {}
    PROVE  SpkrReads(p).yielded \/ \E t \in Blames.spkr : SpkrReads(p)[t]
<1> DEFINE r == SpkrReads(p)
           Answers == \/ r.yielded
                      \/ r.identity_missing \/ r.unreadable_stock
<1>1. p.kind = "record" /\ p.title = "parses"
  BY ProductFields DEF MayBeLive, NotOfRecord, Missed, Parses
<1>2. CASE p.variants = {}
  <2>1. Answers
    BY <1>1, <1>2 DEF SpkrReads, Parses, OfRecordKind, Tallied, SpkrPressings, Kept, Entries
  <2> QED BY <2>1 DEF Blames
<1>3. ASSUME NEW v \in p.variants, v.name \notin NoRecord("spkr"), v.stock # "out"
      PROVE  Answers
  <2>1. v \in Variant /\ v.name \in {"record", "plain", "default"}
    BY <1>3, ProductVariants, VariantFields DEF NoRecord, Missed
  <2>2. v # Junk
    BY <2>1, VariantFields
  <2>3. v.name = "default" => Cardinality(Entries(p)) = 1
    BY ProductVariants, OnlyEntry DEF Missed
  <2>4. v \in SpkrPressings(p)
    BY <2>1, <2>2, <2>3 DEF SpkrPressings, Kept, Entries, NotOther
  <2>5. InStock(SpkrPressings(p)) \/ ~Flagged(SpkrPressings(p))
    BY <2>1, <2>4, <1>3, OnSale
  <2> QED BY <1>1, <2>5 DEF SpkrReads, SpkrRows, Parses, OfRecordKind, Tallied
<1>4. ASSUME Answers PROVE r.yielded \/ \E t \in Blames.spkr : r[t]
  BY <1>4 DEF Blames
<1> QED BY <1>2, <1>3, <1>4 DEF MayBeLive

\* No product is to blame that lost nothing the guards count and is not misread.
LEMMA SpkrSound ==
    ASSUME NEW p \in Product, Lost(p) \cap Noticed.spkr = {}, ~Misread("spkr", p)
    PROVE  /\ \A t \in Blames.spkr : ~SpkrReads(p)[t]
           /\ SpkrReads(p).yielded => SpkrReads(p).priced
<1> DEFINE r == SpkrReads(p)
<1>1. p.handle = "there" /\ p.price = "sound"
  <2>1. Lost(p) \cap {"handle", "price"} = {}
    BY DEF Noticed
  <2> QED BY <2>1, ProductFields
<1>2. /\ p.variants # {} /\ Junk \notin p.variants
      /\ Entries(p) = p.variants /\ Kept(p, AnyName) = p.variants
      /\ \A v \in p.variants :
            /\ v.name \in {"record", "plain", "other", "default"}
            /\ v.stock \in {"in", "out"}
            /\ v.name = "default" => Cardinality(p.variants) = 1
  <2>1. Lost(p) \cap {"variants", "entries", "names", "placeholder", "stock"} = {}
    BY DEF Noticed
  <2> QED BY <2>1, WholeVariants
<1>3. Flagged(SpkrPressings(p))
  <2>1. "stock" \notin Lost(p)
    BY DEF Noticed
  <2>2. SpkrPressings(p) \subseteq Entries(p)
    BY <1>2 DEF SpkrPressings, Kept, Entries
  <2> QED BY <2>1, <2>2, FlaggedEntries
<1>4. OfRecordKind(p) => SpkrPressings(p) # {}
  BY <1>2 DEF Misread, OfRecordKind, SpkrPressings, Kept, NotOther
<1>5. ~r.identity_missing /\ ~r.unreadable_stock
  BY <1>1, <1>2, <1>3, <1>4 DEF SpkrReads, Tallied, HasIdentity, Titled, Parses, HasHandle
<1>6. r.yielded => r.priced
  BY <1>1 DEF SpkrReads, Tallied, HasPrice
<1>7. \A t \in Blames.spkr : ~r[t]
  BY <1>5 DEF Blames
<1> QED BY <1>6, <1>7

\* A record without a loss is what the guards look for.
LEMMA SpkrShown ==
    ASSUME NEW p \in Product, Lost(p) = {}, HasRecord("spkr", p)
    PROVE  \A t \in Shows.spkr : SpkrReads(p)[t]
<1> DEFINE r == SpkrReads(p)
<1>1. p.title = "parses" /\ p.credit = "there" /\ p.kind = "record"
  <2>1. Lost(p) \cap {"kind", "title", "parse", "credit"} = {}
    OBVIOUS
  <2> QED BY <2>1, ProductFields DEF HasRecord, NotOfRecord, OtherFormat, Titled
<1>6. r.products_seen /\ r.vinyl_seen /\ r.artist_ok
  BY <1>1 DEF SpkrReads, Tallied, OfRecordKind, Parses
<1> QED BY <1>6 DEF Shows

-----------------------------------------------------------------------------
(* rhino.py *)

\* The guards raise on the tallies of the tables, and on no other ones.
LEMMA RhinoGuards ==
    ASSUME NEW n
    PROVE  /\ (\E t \in Musts.rhino : ~n[t]) => RhinoRefuses(n)
           /\ ~n.yielded /\ (\E t \in Blames.rhino : n[t]) => RhinoRefuses(n)
           /\ n.yielded /\ ~n.priced => RhinoRefuses(n)
           /\ RhinoRefuses(n)
               => \/ \E t \in Shows.rhino : ~n[t]
                  \/ ~n.yielded /\ \E t \in Blames.rhino : n[t]
                  \/ n.yielded /\ ~n.priced
<1>1. (\E t \in Musts.rhino : ~n[t]) <=> ~n.products_seen \/ ~n.vinyl_seen \/ ~n.artist_ok
  BY DEF Musts
<1>2. (\E t \in Blames.rhino : n[t]) <=> n.unreadable_stock
  BY DEF Blames
<1>3. (\E t \in Shows.rhino : ~n[t]) <=> ~n.products_seen \/ ~n.vinyl_seen \/ ~n.artist_ok
  BY DEF Shows
<1> QED BY <1>1, <1>2, <1>3 DEF RhinoRefuses

\* A field lost on every product keeps a tally at zero that has to be there.
LEMMA RhinoDrift ==
    ASSUME NEW d \in NoticedAll.rhino
    PROVE  \E t \in Musts.rhino \ {"products_seen"} :
              \A p \in Product : d \in Lost(p) => ~RhinoReads(p)[t]
<1>1. CASE d = "kind"
  <2>1. ASSUME NEW p \in Product, d \in Lost(p) PROVE ~RhinoReads(p).vinyl_seen
    <3>1. p.kind = "none"
      BY <1>1, <2>1, LostFields
    <3> QED BY <3>1 DEF RhinoReads, OfRecordKind, Titled, Ladder, Tallied
  <2> QED BY <2>1 DEF Musts
<1>2. CASE d = "credit"
  <2>1. ASSUME NEW p \in Product, d \in Lost(p) PROVE ~RhinoReads(p).artist_ok
    <3>1. p.credit # "there"
      BY <1>2, <2>1, LostFields
    <3> QED BY <3>1 DEF RhinoReads, Parses, Credited, Titled, Ladder, Tallied
  <2> QED BY <2>1 DEF Musts
<1> QED BY <1>1, <1>2 DEF NoticedAll

\* A product that may be live, and lost nothing the guards miss, yields a row or is to blame.
LEMMA RhinoLive ==
    ASSUME NEW p \in Product, MayBeLive("rhino", p), Lost(p) \cap Missed.rhino = {}
    PROVE  RhinoReads(p).yielded \/ \E t \in Blames.rhino : RhinoReads(p)[t]
<1> DEFINE r == RhinoReads(p)
           Answers == \/ r.yielded
                      \/ r.unreadable_stock
<1>1. p.kind = "record" /\ p.credit = "there"
  BY ProductFields DEF MayBeLive, NotOfRecord, Missed, Parses
<1>2. CASE p.variants = {}
  <2>1. Answers
    BY <1>1, <1>2 DEF RhinoReads, Credited, OfRecordKind, Tallied, Entries
  <2> QED BY <2>1 DEF Blames
<1>3. ASSUME NEW v \in p.variants, v.name \notin NoRecord("rhino"), v.stock # "out"
      PROVE  Answers
  <2>1. v \in Variant /\ v.name \in {"record", "plain", "other", "blank", "default"}
    BY ProductVariants, VariantFields DEF Missed
  <2>4. v \in Entries(p)
    BY <2>1, VariantFields DEF Entries
  <2>5. InStock(Entries(p)) \/ ~Flagged(Entries(p))
    BY <2>1, <2>4, <1>3, OnSale
  <2> QED BY <1>1, <2>5 DEF RhinoReads, RhinoRows, Credited, OfRecordKind, Tallied
<1>4. ASSUME Answers PROVE r.yielded \/ \E t \in Blames.rhino : r[t]
  BY <1>4 DEF Blames
<1> QED BY <1>2, <1>3, <1>4 DEF MayBeLive

\* No product is to blame that lost nothing the guards count.
LEMMA RhinoSound ==
    ASSUME NEW p \in Product, Lost(p) \cap Noticed.rhino = {}
    PROVE  /\ \A t \in Blames.rhino : ~RhinoReads(p)[t]
           /\ RhinoReads(p).yielded => RhinoReads(p).priced
<1> DEFINE r == RhinoReads(p)
<1>1. p.price = "sound"
  <2>1. Lost(p) \cap {"price"} = {}
    BY DEF Noticed
  <2> QED BY <2>1, ProductFields
<1>2. p.variants # {} /\ Junk \notin p.variants
  <2>1. Lost(p) \cap {"variants", "entries"} = {}
    BY DEF Noticed
  <2> QED BY <2>1, ProductVariants
<1>3. Flagged(Entries(p))
  <2>1. "stock" \notin Lost(p)
    BY DEF Noticed
  <2> QED BY <2>1, FlaggedEntries
<1>4. Entries(p) # {}
  BY <1>2 DEF Entries
<1>5. ~r.unreadable_stock
  BY <1>1, <1>2, <1>3, <1>4 DEF RhinoReads, Tallied
<1>6. r.yielded => r.priced
  BY <1>1 DEF RhinoReads, Tallied, HasPrice
<1>7. \A t \in Blames.rhino : ~r[t]
  BY <1>5 DEF Blames
<1> QED BY <1>6, <1>7

\* A record without a loss is what the guards look for.
LEMMA RhinoShown ==
    ASSUME NEW p \in Product, Lost(p) = {}, HasRecord("rhino", p)
    PROVE  \A t \in Shows.rhino : RhinoReads(p)[t]
<1> DEFINE r == RhinoReads(p)
<1>1. p.title = "parses" /\ p.credit = "there" /\ p.kind = "record"
  <2>1. Lost(p) \cap {"kind", "title", "parse", "credit"} = {}
    OBVIOUS
  <2> QED BY <2>1, ProductFields DEF HasRecord, NotOfRecord, OtherFormat, Titled
<1>6. r.products_seen /\ r.vinyl_seen /\ r.artist_ok
  BY <1>1 DEF RhinoReads, Tallied, OfRecordKind, Credited
<1> QED BY <1>6 DEF Shows

-----------------------------------------------------------------------------
(* The walk. *)

\* So for every crawler: what its guards ask of the tallies ...
LEMMA Guards ==
    ASSUME NEW s \in Shop, NEW n
    PROVE  /\ (\E t \in Musts[s] : ~n[t]) => Refuses(s, n)
           /\ ~n.yielded /\ (\E t \in Blames[s] : n[t]) => Refuses(s, n)
           /\ s # "joyful" /\ n.yielded /\ ~n.priced => Refuses(s, n)
           /\ Refuses(s, n)
               => \/ \E t \in Shows[s] : ~n[t]
                  \/ ~n.yielded /\ \E t \in Blames[s] : n[t]
                  \/ s # "joyful" /\ n.yielded /\ ~n.priced
<1>1. CASE s = "joyful" BY <1>1, JoyfulGuards DEF Refuses
<1>2. CASE s = "xl" BY <1>2, XLGuards DEF Refuses
<1>3. CASE s = "don" BY <1>3, DonGuards DEF Refuses
<1>4. CASE s = "bella" BY <1>4, BellaGuards DEF Refuses
<1>5. CASE s = "sacred" BY <1>5, SacredGuards DEF Refuses
<1>6. CASE s = "earache" BY <1>6, EaracheGuards DEF Refuses
<1>7. CASE s = "flenser" BY <1>7, FlenserGuards DEF Refuses
<1>8. CASE s = "lenoise" BY <1>8, LeNoiseGuards DEF Refuses
<1>9. CASE s = "monorail" BY <1>9, MonorailGuards DEF Refuses
<1>10. CASE s = "trans" BY <1>10, TransGuards DEF Refuses
<1>11. CASE s = "matador" BY <1>11, MatadorGuards DEF Refuses
<1>12. CASE s = "counter" BY <1>12, CounterGuards DEF Refuses
<1>13. CASE s = "iodine" BY <1>13, IodineGuards DEF Refuses
<1>14. CASE s = "revolver" BY <1>14, RevolverGuards DEF Refuses
<1>15. CASE s = "mov" BY <1>15, MusicOnVinylGuards DEF Refuses
<1>16. CASE s = "spkr" BY <1>16, SpkrGuards DEF Refuses
<1>17. CASE s = "rhino" BY <1>17, RhinoGuards DEF Refuses
<1> QED BY <1>1, <1>2, <1>3, <1>4, <1>5, <1>6, <1>7, <1>8, <1>9, <1>10, <1>11, <1>12, <1>13,
   <1>14, <1>15, <1>16, <1>17 DEF Shop

\* ... what a product that may be live adds to them ...
LEMMA Lively ==
    ASSUME NEW s \in Shop, NEW p \in Product, MayBeLive(s, p), Lost(p) \cap Missed[s] = {}
    PROVE  Reads(s, p).yielded \/ \E t \in Blames[s] : Reads(s, p)[t]
<1>1. CASE s = "joyful" BY <1>1, JoyfulLive DEF Reads
<1>2. CASE s = "xl" BY <1>2, XLLive DEF Reads
<1>3. CASE s = "don" BY <1>3, DonLive DEF Reads
<1>4. CASE s = "bella" BY <1>4, BellaLive DEF Reads
<1>5. CASE s = "sacred" BY <1>5, SacredLive DEF Reads
<1>6. CASE s = "earache" BY <1>6, EaracheLive DEF Reads
<1>7. CASE s = "flenser" BY <1>7, FlenserLive DEF Reads
<1>8. CASE s = "lenoise" BY <1>8, LeNoiseLive DEF Reads
<1>9. CASE s = "monorail" BY <1>9, MonorailLive DEF Reads
<1>10. CASE s = "trans" BY <1>10, TransLive DEF Reads
<1>11. CASE s = "matador" BY <1>11, MatadorLive DEF Reads
<1>12. CASE s = "counter" BY <1>12, CounterLive DEF Reads
<1>13. CASE s = "iodine" BY <1>13, IodineLive DEF Reads
<1>14. CASE s = "revolver" BY <1>14, RevolverLive DEF Reads
<1>15. CASE s = "mov" BY <1>15, MusicOnVinylLive DEF Reads
<1>16. CASE s = "spkr" BY <1>16, SpkrLive DEF Reads
<1>17. CASE s = "rhino" BY <1>17, RhinoLive DEF Reads
<1> QED BY <1>1, <1>2, <1>3, <1>4, <1>5, <1>6, <1>7, <1>8, <1>9, <1>10, <1>11, <1>12, <1>13,
   <1>14, <1>15, <1>16, <1>17 DEF Shop

\* ... what is missing when a field is lost everywhere ...
LEMMA Drifted ==
    ASSUME NEW s \in Shop, NEW d \in NoticedAll[s]
    PROVE  \E t \in Musts[s] \ {"products_seen"} :
              \A p \in Product : d \in Lost(p) => ~Reads(s, p)[t]
<1>1. CASE s = "joyful" BY <1>1 DEF NoticedAll
<1>2. CASE s = "xl" BY <1>2 DEF NoticedAll
<1>3. CASE s = "don" BY <1>3 DEF NoticedAll
<1>4. CASE s = "bella" BY <1>4 DEF NoticedAll
<1>5. CASE s = "sacred" BY <1>5 DEF NoticedAll
<1>6. CASE s = "earache" BY <1>6, EaracheDrift DEF Reads
<1>7. CASE s = "flenser" BY <1>7, FlenserDrift DEF Reads
<1>8. CASE s = "lenoise" BY <1>8 DEF NoticedAll
<1>9. CASE s = "monorail" BY <1>9, MonorailDrift DEF Reads
<1>10. CASE s = "trans" BY <1>10, TransDrift DEF Reads
<1>11. CASE s = "matador" BY <1>11, MatadorDrift DEF Reads
<1>12. CASE s = "counter" BY <1>12, CounterDrift DEF Reads
<1>13. CASE s = "iodine" BY <1>13, IodineDrift DEF Reads
<1>14. CASE s = "revolver" BY <1>14, RevolverDrift DEF Reads
<1>15. CASE s = "mov" BY <1>15, MusicOnVinylDrift DEF Reads
<1>16. CASE s = "spkr" BY <1>16, SpkrDrift DEF Reads
<1>17. CASE s = "rhino" BY <1>17, RhinoDrift DEF Reads
<1> QED BY <1>1, <1>2, <1>3, <1>4, <1>5, <1>6, <1>7, <1>8, <1>9, <1>10, <1>11, <1>12, <1>13,
   <1>14, <1>15, <1>16, <1>17 DEF Shop

\* ... what a product does not add that lost nothing they count ...
LEMMA Soundly ==
    ASSUME NEW s \in Shop, NEW p \in Product, Lost(p) \cap Noticed[s] = {}, ~Misread(s, p)
    PROVE  /\ \A t \in Blames[s] : ~Reads(s, p)[t]
           /\ s # "joyful" /\ Reads(s, p).yielded => Reads(s, p).priced
<1>1. CASE s = "joyful" BY <1>1, JoyfulSound DEF Reads
<1>2. CASE s = "xl" BY <1>2, XLSound DEF Reads
<1>3. CASE s = "don" BY <1>3, DonSound DEF Reads
<1>4. CASE s = "bella" BY <1>4, BellaSound DEF Reads
<1>5. CASE s = "sacred" BY <1>5, SacredSound DEF Reads
<1>6. CASE s = "earache" BY <1>6, EaracheSound DEF Reads
<1>7. CASE s = "flenser" BY <1>7, FlenserSound DEF Reads
<1>8. CASE s = "lenoise" BY <1>8, LeNoiseSound DEF Reads
<1>9. CASE s = "monorail" BY <1>9, MonorailSound DEF Reads
<1>10. CASE s = "trans" BY <1>10, TransSound DEF Reads
<1>11. CASE s = "matador" BY <1>11, MatadorSound DEF Reads
<1>12. CASE s = "counter" BY <1>12, CounterSound DEF Reads
<1>13. CASE s = "iodine" BY <1>13, IodineSound DEF Reads
<1>14. CASE s = "revolver" BY <1>14, RevolverSound DEF Reads
<1>15. CASE s = "mov" BY <1>15, MusicOnVinylSound DEF Reads
<1>16. CASE s = "spkr" BY <1>16, SpkrSound DEF Reads
<1>17. CASE s = "rhino" BY <1>17, RhinoSound DEF Reads
<1> QED BY <1>1, <1>2, <1>3, <1>4, <1>5, <1>6, <1>7, <1>8, <1>9, <1>10, <1>11, <1>12, <1>13,
   <1>14, <1>15, <1>16, <1>17 DEF Shop

\* ... and what a record without a loss does.
LEMMA Recorded ==
    ASSUME NEW s \in Shop, NEW p \in Product, Lost(p) = {}, HasRecord(s, p)
    PROVE  \A t \in Shows[s] : Reads(s, p)[t]
<1>1. CASE s = "joyful" BY <1>1, JoyfulShown DEF Reads
<1>2. CASE s = "xl" BY <1>2, XLShown DEF Reads
<1>3. CASE s = "don" BY <1>3, DonShown DEF Reads
<1>4. CASE s = "bella" BY <1>4, BellaShown DEF Reads
<1>5. CASE s = "sacred" BY <1>5, SacredShown DEF Reads
<1>6. CASE s = "earache" BY <1>6, EaracheShown DEF Reads
<1>7. CASE s = "flenser" BY <1>7, FlenserShown DEF Reads
<1>8. CASE s = "lenoise" BY <1>8, LeNoiseShown DEF Reads
<1>9. CASE s = "monorail" BY <1>9, MonorailShown DEF Reads
<1>10. CASE s = "trans" BY <1>10, TransShown DEF Reads
<1>11. CASE s = "matador" BY <1>11, MatadorShown DEF Reads
<1>12. CASE s = "counter" BY <1>12, CounterShown DEF Reads
<1>13. CASE s = "iodine" BY <1>13, IodineShown DEF Reads
<1>14. CASE s = "revolver" BY <1>14, RevolverShown DEF Reads
<1>15. CASE s = "mov" BY <1>15, MusicOnVinylShown DEF Reads
<1>16. CASE s = "spkr" BY <1>16, SpkrShown DEF Reads
<1>17. CASE s = "rhino" BY <1>17, RhinoShown DEF Reads
<1> QED BY <1>1, <1>2, <1>3, <1>4, <1>5, <1>6, <1>7, <1>8, <1>9, <1>10, <1>11, <1>12, <1>13,
   <1>14, <1>15, <1>16, <1>17 DEF Shop

\* The tallies a crawler keeps.
Fields(s) == DOMAIN NoTally(s)

\* A reading is on the crawler's tallies, the ones its guards ask for among them.
LEMMA ReadingFields ==
    ASSUME NEW s \in Shop, NEW p, NEW q
    PROVE  /\ DOMAIN Reads(s, p) = DOMAIN Reads(s, q)
           /\ Blames[s] \cup Shows[s] \cup Musts[s] \cup {"yielded"} \subseteq DOMAIN Reads(s, p)
           /\ "priced" \in DOMAIN Reads(s, p) <=> s # "joyful"
<1>1. CASE s = "joyful" BY <1>1 DEF Reads, JoyfulReads, Blames, Shows, Musts
<1>2. CASE s = "xl" BY <1>2 DEF Reads, XLReads, Blames, Shows, Musts
<1>3. CASE s = "don" BY <1>3 DEF Reads, DonReads, Blames, Shows, Musts
<1>4. CASE s = "bella" BY <1>4 DEF Reads, BellaReads, Blames, Shows, Musts
<1>5. CASE s = "sacred" BY <1>5 DEF Reads, SacredReads, Blames, Shows, Musts
<1>6. CASE s = "earache" BY <1>6 DEF Reads, EaracheReads, Blames, Shows, Musts
<1>7. CASE s = "flenser" BY <1>7 DEF Reads, FlenserReads, Blames, Shows, Musts
<1>8. CASE s = "lenoise" BY <1>8 DEF Reads, LeNoiseReads, Blames, Shows, Musts
<1>9. CASE s = "monorail" BY <1>9 DEF Reads, MonorailReads, Blames, Shows, Musts
<1>10. CASE s = "trans" BY <1>10 DEF Reads, TransReads, Blames, Shows, Musts
<1>11. CASE s = "matador" BY <1>11 DEF Reads, MatadorReads, Ladder, Blames, Shows, Musts
<1>12. CASE s = "counter" BY <1>12 DEF Reads, CounterReads, Ladder, Blames, Shows, Musts
<1>13. CASE s = "iodine" BY <1>13 DEF Reads, IodineReads, Ladder, Blames, Shows, Musts
<1>14. CASE s = "revolver" BY <1>14 DEF Reads, RevolverReads, Blames, Shows, Musts
<1>15. CASE s = "mov" BY <1>15 DEF Reads, MusicOnVinylReads, Tallied, Blames, Shows, Musts
<1>16. CASE s = "spkr" BY <1>16 DEF Reads, SpkrReads, Tallied, Blames, Shows, Musts
<1>17. CASE s = "rhino" BY <1>17 DEF Reads, RhinoReads, Tallied, Blames, Shows, Musts
<1> QED BY <1>1, <1>2, <1>3, <1>4, <1>5, <1>6, <1>7, <1>8, <1>9, <1>10, <1>11, <1>12, <1>13,
   <1>14, <1>15, <1>16, <1>17 DEF Shop

\* A crawler starts with every tally at zero.
LEMMA FirstTally ==
    ASSUME NEW s \in Shop
    PROVE  /\ NoTally(s) = [t \in Fields(s) |-> FALSE]
           /\ \A p : DOMAIN Reads(s, p) = Fields(s)
           /\ Blames[s] \cup Shows[s] \cup Musts[s] \cup {"yielded"} \subseteq Fields(s)
           /\ "priced" \in Fields(s) <=> s # "joyful"
<1> DEFINE q == CHOOSE p \in Product : TRUE
<1>1. NoTally(s) = [t \in DOMAIN Reads(s, q) |-> FALSE]
  BY DEF NoTally
<1>2. Fields(s) = DOMAIN Reads(s, q)
  BY <1>1 DEF Fields
<1> HIDE DEF q
<1> QED BY <1>1, <1>2, ReadingFields

\* The marks of a product.
LEMMA MarksOf ==
    ASSUME NEW s \in Shop, NEW p
    PROVE  /\ "live" \in Marks(s, p) <=> MayBeLive(s, p) /\ Lost(p) \cap Missed[s] = {}
           /\ "record" \in Marks(s, p) <=> Lost(p) = {} /\ HasRecord(s, p)
           /\ "unsound" \in Marks(s, p) <=> Lost(p) \cap Noticed[s] # {}
           /\ "misread" \in Marks(s, p) <=> Misread(s, p)
           /\ \A d \in NoticedAll[s] : d \in Marks(s, p) <=> d \notin Lost(p)
<1>1. NoticedAll[s] \subseteq {"kind", "title", "parse", "credit", "artist", "variants"}
  BY DEF NoticedAll, Shop
<1> QED BY <1>1 DEF Marks

\* The tallies, and the marks, that an entry which is no mapping is counted in.
JunkTallies == {"products_seen", "unreadable_products"}
JunkMarks == {"live", "unsound"}

\* The products P, and entries that are no mapping, are what the walk has read.
Sums(P, junk) ==
    /\ junk => shop \in {"lenoise", "revolver"}
    /\ \A t \in Fields(shop) :
          tally[t] <=> (\E p \in P : Reads(shop, p)[t]) \/ (junk /\ t \in JunkTallies)
    /\ \A m : m \in seen <=> (\E p \in P : m \in Marks(shop, p)) \/ (junk /\ m \in JunkMarks)

\* The tallies and the marks are those of some products the store may list, and the end
\* of the walk is what the guards make of them.
WalkInv ==
    /\ shop \in Shops /\ shop \in Shop
    /\ page \in 1..MaxPage /\ left \in Nat
    /\ DOMAIN tally = Fields(shop)
    /\ \E P \in SUBSET Product, junk \in BOOLEAN : Sums(P, junk)
    /\ walk = "complete" => ~Refuses(shop, tally) /\ (left = 0 \/ page = MaxPage)
    /\ walk = "refused" => Refuses(shop, tally)

\* What a step of the walk leaves as it is.
SameSums == UNCHANGED <<shop, tally, seen>>

\* No product is read at first.
LEMMA WalkInitInv == WalkInit => WalkInv
<1> SUFFICES ASSUME WalkInit PROVE WalkInv
  OBVIOUS
<1>1. shop \in Shops /\ shop \in Shop
  BY CatalogWalkAssumption DEF WalkInit
<1>2. tally = [t \in Fields(shop) |-> FALSE]
  BY <1>1, FirstTally DEF WalkInit
<1>3. Sums({}, FALSE)
  BY <1>2 DEF Sums, WalkInit
<1>4. \E P \in SUBSET Product, junk \in BOOLEAN : Sums(P, junk)
  BY <1>3
<1> QED BY <1>1, <1>2, <1>4, CatalogWalkAssumption DEF WalkInit, WalkInv

\* A step that reads no product.
LEMMA QuietStep ==
    ASSUME WalkInv, SameSums, page' \in 1..MaxPage, left' \in Nat,
           walk' = "complete" => ~Refuses(shop, tally) /\ (left' = 0 \/ page' = MaxPage),
           walk' = "refused" => Refuses(shop, tally)
    PROVE  WalkInv'
<1>1. shop' = shop /\ tally' = tally /\ seen' = seen
  BY DEF SameSums
<1>2. PICK P \in SUBSET Product, junk \in BOOLEAN : Sums(P, junk)
  BY DEF WalkInv
<1>3. Sums(P, junk)'
  BY <1>1, <1>2 DEF Sums
<1>4. (\E Q \in SUBSET Product, j \in BOOLEAN : Sums(Q, j))'
  BY <1>1, <1>3
<1> QED BY <1>1, <1>4 DEF WalkInv

\* A reading joins the tallies.
LEMMA ReadStep == WalkInv /\ ReadProduct => WalkInv'
<1> SUFFICES ASSUME WalkInv, ReadProduct PROVE WalkInv'
  OBVIOUS
<1>1. shop' = shop /\ left' = left /\ page' = page /\ walk' = "read"
  BY DEF ReadProduct
<1>2. PICK P \in SUBSET Product, junk \in BOOLEAN : Sums(P, junk)
  BY DEF WalkInv
<1>3. PICK r \in Readings[shop] :
         tally' = Either(tally, r.tally) /\ seen' = seen \cup r.marks
  BY DEF ReadProduct
<1>4. PICK p \in Product : r = [tally |-> Reads(shop, p), marks |-> Marks(shop, p)]
  BY DEF Readings, WalkInv
<1>5. /\ DOMAIN tally' = Fields(shop)
      /\ \A t \in Fields(shop) : tally'[t] <=> tally[t] \/ Reads(shop, p)[t]
      /\ \A m : m \in seen' <=> m \in seen \/ m \in Marks(shop, p)
  BY <1>3, <1>4 DEF Either, WalkInv
<1>6. Sums(P \cup {p}, junk)'
  BY <1>1, <1>2, <1>5 DEF Sums
<1>7. (\E Q \in SUBSET Product, j \in BOOLEAN : Sums(Q, j))'
  BY <1>1, <1>6
<1> QED BY <1>1, <1>5, <1>7 DEF WalkInv

\* An entry that is no mapping joins them, or ends the walk.
LEMMA JunkStep == WalkInv /\ ReadJunk => WalkInv'
<1> SUFFICES ASSUME WalkInv, ReadJunk PROVE WalkInv'
  OBVIOUS
<1>1. shop' = shop /\ left' = left /\ page' = page
  BY DEF ReadJunk
<1>2. CASE shop \notin {"lenoise", "revolver"}
  BY <1>2, QuietStep DEF ReadJunk, SameSums, WalkInv
<1>3. CASE shop \in {"lenoise", "revolver"}
  <2>1. PICK P \in SUBSET Product, junk \in BOOLEAN : Sums(P, junk)
    BY DEF WalkInv
  <2>2. /\ tally' = [tally EXCEPT !.products_seen = TRUE, !.unreadable_products = TRUE]
        /\ seen' = seen \cup JunkMarks
        /\ walk' = "read"
    BY <1>3 DEF ReadJunk, JunkMarks
  <2>3. /\ DOMAIN tally' = Fields(shop)
        /\ \A t \in Fields(shop) : tally'[t] <=> tally[t] \/ t \in JunkTallies
        /\ \A m : m \in seen' <=> m \in seen \/ m \in JunkMarks
    BY <2>2 DEF WalkInv, JunkTallies
  <2>4. Sums(P, TRUE)'
    BY <1>1, <1>3, <2>1, <2>3 DEF Sums
  <2>5. (\E Q \in SUBSET Product, j \in BOOLEAN : Sums(Q, j))'
    BY <1>1, <2>4
  <2> QED BY <1>1, <2>2, <2>5 DEF WalkInv
<1> QED BY <1>2, <1>3

\* Every step of the walk keeps the invariant.
LEMMA WalkNextInv == WalkInv /\ [WalkNext]_walkVars => WalkInv'
<1> SUFFICES ASSUME WalkInv, [WalkNext]_walkVars PROVE WalkInv'
  OBVIOUS
<1>0. PageLimit \in Nat \ {0} /\ MaxPage \in Nat \ {0}
  BY CatalogWalkAssumption
<1>1. CASE PageArrives
  <2>1. SameSums /\ page' = page
    BY <1>1 DEF PageArrives, SameSums
  <2>2. CASE left = 0
    BY <1>1, <2>1, <2>2, QuietStep DEF PageArrives, Finish, WalkInv
  <2>3. CASE left # 0
    <3>1. left' \in Nat /\ walk' = "read"
      BY <1>0, <1>1, <2>3 DEF PageArrives, WalkInv
    <3> QED BY <2>1, <3>1, QuietStep DEF WalkInv
  <2> QED BY <2>2, <2>3
<1>2. CASE PageUnreadable \/ RequestThrottled
  BY <1>2, QuietStep DEF PageUnreadable, RequestThrottled, SameSums, WalkInv
<1>3. CASE RequestFails
  <2>1. walk' \in {"failed", "fetch"}
    BY <1>3 DEF RequestFails
  <2> QED BY <1>3, QuietStep DEF RequestFails, SameSums, WalkInv
<1>4. CASE EndPage
  <2>1. SameSums /\ left' = left
    BY <1>4 DEF EndPage, SameSums
  <2>2. CASE page >= MaxPage
    <3>1. page' = page /\ page = MaxPage
      BY <1>0, <1>4, <2>2 DEF EndPage, WalkInv
    <3> QED BY <1>4, <2>1, <3>1, QuietStep DEF EndPage, Finish, WalkInv
  <2>3. CASE ~(page >= MaxPage)
    <3>1. page' \in 1..MaxPage /\ walk' = "fetch"
      BY <1>0, <1>4, <2>3 DEF EndPage, WalkInv
    <3> QED BY <2>1, <3>1, QuietStep DEF WalkInv
  <2> QED BY <2>2, <2>3
<1>5. CASE UNCHANGED walkVars
  BY <1>5, QuietStep DEF walkVars, SameSums, WalkInv
<1> QED BY <1>1, <1>2, <1>3, <1>4, <1>5, ReadStep, JunkStep DEF WalkNext

\* A walk that completes without rows has read no product that may be live and kept what the
\* guards miss, for it would yield or be to blame, and of each field they ask for at all some
\* product that kept it, for else a tally that has to be there is zero.
LEMMA PassedIsPriced == WalkInv => ReplacedOnlyByTheCatalog
<1> SUFFICES ASSUME WalkInv, walk = "complete"
             PROVE  /\ left = 0 \/ page = MaxPage
                    /\ ~tally.yielded => "live" \notin seen /\ NoticedAll[shop] \subseteq seen
                    /\ "priced" \in DOMAIN tally => (tally.yielded => tally.priced)
  BY DEF ReplacedOnlyByTheCatalog
<1>1. /\ shop \in Shop /\ DOMAIN tally = Fields(shop)
      /\ ~Refuses(shop, tally) /\ (left = 0 \/ page = MaxPage)
  BY DEF WalkInv
<1>2. /\ \A t \in Musts[shop] : tally[t]
      /\ ~tally.yielded => \A t \in Blames[shop] : ~tally[t]
      /\ shop # "joyful" => (tally.yielded => tally.priced)
  BY <1>1, Guards
<1>3. /\ Blames[shop] \cup Musts[shop] \cup {"yielded"} \subseteq Fields(shop)
      /\ "priced" \in Fields(shop) => shop # "joyful"
  BY <1>1, FirstTally
<1>4. PICK P \in SUBSET Product, junk \in BOOLEAN : Sums(P, junk)
  BY DEF WalkInv
<1>5. ~tally.yielded => ~junk
  <2> SUFFICES ASSUME ~tally.yielded, junk PROVE FALSE
    OBVIOUS
  <2>1. shop \in {"lenoise", "revolver"}
    BY <1>4 DEF Sums
  <2>2. "unreadable_products" \in Blames[shop]
    BY <2>1 DEF Blames
  <2>3. tally["unreadable_products"]
    BY <1>3, <1>4, <2>2 DEF Sums, JunkTallies
  <2> QED BY <1>2, <2>2, <2>3
<1>6. ASSUME ~tally.yielded, "live" \in seen PROVE FALSE
  <2>1. PICK p \in P : "live" \in Marks(shop, p)
    BY <1>4, <1>5, <1>6 DEF Sums
  <2>2. p \in Product /\ MayBeLive(shop, p) /\ Lost(p) \cap Missed[shop] = {}
    BY <1>1, <2>1, MarksOf
  <2>3. Reads(shop, p).yielded \/ \E t \in Blames[shop] : Reads(shop, p)[t]
    BY <1>1, <2>2, Lively
  <2>4. CASE Reads(shop, p).yielded
    BY <1>3, <1>4, <1>6, <2>4 DEF Sums
  <2>5. ASSUME NEW t \in Blames[shop], Reads(shop, p)[t] PROVE FALSE
    <3>1. tally[t]
      BY <1>3, <1>4, <2>5 DEF Sums
    <3> QED BY <1>2, <1>6, <3>1
  <2> QED BY <2>3, <2>4, <2>5
<1>7. ASSUME ~tally.yielded, NEW d \in NoticedAll[shop] PROVE d \in seen
  <2>1. PICK t \in Musts[shop] \ {"products_seen"} :
           \A p \in Product : d \in Lost(p) => ~Reads(shop, p)[t]
    BY <1>1, Drifted
  <2>2. PICK p \in P : Reads(shop, p)[t]
    BY <1>2, <1>3, <1>4, <1>5, <1>7 DEF Sums
  <2>3. p \in Product /\ d \notin Lost(p)
    BY <2>1, <2>2
  <2>4. d \in Marks(shop, p)
    BY <1>1, <2>3, MarksOf
  <2> QED BY <1>4, <2>4 DEF Sums
<1> QED BY <1>1, <1>2, <1>3, <1>6, <1>7

\* A walk that is refused after a sound record has read a product that lost what the guards
\* count, or is misread: no other is to blame, and the record is what the guards look for.
LEMMA RefusedIsUnsound == WalkInv => SoldOutIsBelieved
<1> SUFFICES ASSUME WalkInv, Refuses(shop, tally), "record" \in seen,
                    "unsound" \notin seen, "misread" \notin seen
             PROVE  FALSE
  BY DEF SoldOutIsBelieved, WalkInv
<1>1. shop \in Shop /\ DOMAIN tally = Fields(shop)
  BY DEF WalkInv
<1>2. /\ Blames[shop] \cup Shows[shop] \cup {"yielded"} \subseteq Fields(shop)
      /\ "priced" \in Fields(shop) <=> shop # "joyful"
  BY <1>1, FirstTally
<1>3. PICK P \in SUBSET Product, junk \in BOOLEAN : Sums(P, junk)
  BY DEF WalkInv
<1>4. ~junk
  BY <1>3 DEF Sums, JunkMarks
<1>5. PICK q \in P : "record" \in Marks(shop, q)
  BY <1>3, <1>4 DEF Sums
<1>6. ASSUME NEW p \in P
      PROVE  /\ \A t \in Blames[shop] : ~Reads(shop, p)[t]
             /\ shop # "joyful" /\ Reads(shop, p).yielded => Reads(shop, p).priced
  <2>1. "unsound" \notin Marks(shop, p) /\ "misread" \notin Marks(shop, p)
    BY <1>3 DEF Sums
  <2>2. Lost(p) \cap Noticed[shop] = {} /\ ~Misread(shop, p)
    BY <1>1, <2>1, MarksOf
  <2> QED BY <1>1, <2>2, Soundly
<1>7. ASSUME NEW t \in Shows[shop] PROVE tally[t]
  <2>1. q \in Product /\ Lost(q) = {} /\ HasRecord(shop, q)
    BY <1>1, <1>5, MarksOf
  <2>2. Reads(shop, q)[t]
    BY <1>1, <2>1, Recorded
  <2> QED BY <1>2, <1>3, <2>2 DEF Sums
<1>8. ASSUME NEW t \in Blames[shop] PROVE ~tally[t]
  <2>1. \A p \in P : ~Reads(shop, p)[t]
    BY <1>6
  <2> QED BY <1>2, <1>3, <1>4, <2>1 DEF Sums
<1>9. shop # "joyful" /\ tally.yielded => tally.priced
  <2> SUFFICES ASSUME shop # "joyful", tally.yielded PROVE tally.priced
    OBVIOUS
  <2>1. PICK p \in P : Reads(shop, p).yielded
    BY <1>2, <1>3, <1>4 DEF Sums
  <2>2. Reads(shop, p).priced
    BY <1>6, <2>1
  <2> QED BY <1>2, <1>3, <2>2 DEF Sums
<1> QED BY <1>1, <1>7, <1>8, <1>9, Guards

\* A walk that replaces a snapshot has read the whole catalog, or all that the endpoint serves.
\* With rows to write, some have a price; without, no product was read that may be a record
\* with a copy to sell and lost nothing of what the crawler's guards miss on a single product,
\* and of each field that they ask of the whole catalog some product was read that kept it.
THEOREM NoListingIsTakenOnTrust == WalkSpec => []ReplacedOnlyByTheCatalog
  BY WalkInitInv, WalkNextInv, PassedIsPriced, PTL DEF WalkSpec

\* A store that has sold out is believed: once a record without a loss was read the guards raise
\* only where some product lost a field whose loss they count, or where it is one of the two
\* kinds of sound product that they misread.
THEOREM TheSoldOutAreBelieved == WalkSpec => []SoldOutIsBelieved
  BY WalkInitInv, WalkNextInv, RefusedIsUnsound, PTL DEF WalkSpec

===============================================================================
