----------------------------- MODULE StockSync -----------------------------
(***************************************************************************)
(* The stock sync: one run at a time among the Machines, store by store.   *)
(* Two stores in a row that answer 429 abort the run, and what it did not  *)
(* sync is left to one pending resume job of the Machine's scheduler.      *)
(*                                                                         *)
(* A start takes the local start lock around its checks, the session       *)
(* advisory lock and the creation of the task, so it is one step here; the *)
(* doubling delay of the resume job is time and is left out.               *)
(***************************************************************************)
EXTENDS Naturals, Sequences, FiniteSets, SequencesExt

CONSTANTS
    StockMachine,       \* the app processes
    Store,              \* the catalog crawlers
    MaxStarts,          \* bound on the runs the cron job and the administrators start
    MaxStoreChanges,    \* bound on toggles and conversions of stores
    MaxStockFaults,     \* bound on failing calls and on crashes
    NoHolder

ASSUME StockSyncAssumption ==
    /\ {MaxStarts, MaxStoreChanges, MaxStockFaults} \subseteq Nat
    /\ NoHolder \notin StockMachine /\ IsFiniteSet(Store)

VARIABLES
    stores,         \* crawlers, and whether a snapshot of the store is in stock_items
    syncLock,       \* who holds STOCK_SYNC_LOCK_KEY
    sync,           \* per Machine: its run
    resume,         \* per Machine: the stores of the pending resume job
    coolingStores,  \* per Machine: the stores its breaker skips
    owed,           \* history, per Machine: what a 429 or an abort left unsynced
    starts, storeChanges, stockFaults

stockVars == <<stores, syncLock, sync, resume, coolingStores, owed,
               starts, storeChanges, stockFaults>>
stockBounds == <<starts, storeChanges, stockFaults>>

IdleSync == [at |-> "idle", scope |-> "none", todo |-> <<>>, limited |-> <<>>, inARow |-> 0]
SyncRunning(m) == sync[m].at # "idle"

EnabledStores == {s \in Store : stores[s].enabled /\ stores[s].catalog}

SetRun(m, at, scope, todo, limited, inARow) ==
    sync' = [sync EXCEPT ![m] = [at |-> at, scope |-> scope, todo |-> todo,
                                 limited |-> limited, inARow |-> inARow]]

\* The run goes on, with the scope it was started for.
MoveOn(m, at, todo, limited, inARow) ==
    SetRun(m, at, sync[m].scope, todo, limited, inARow)

\* The task ends, and closes the session that holds the lock.
Ended(m) ==
    /\ sync' = [sync EXCEPT ![m] = IdleSync]
    /\ syncLock' = IF syncLock = m THEN NoHolder ELSE syncLock

-----------------------------------------------------------------------------
(* Starting. *)

Started(m, scope, ids) ==
    /\ ~SyncRunning(m) /\ syncLock = NoHolder
    /\ syncLock' = m
    /\ SetRun(m, "started", scope, ids, <<>>, 0)

\* The cron job, or an administrator's button: a refusal changes nothing.
StartStockSync(m, scope, ids) ==
    /\ starts < MaxStarts /\ starts' = starts + 1
    /\ Started(m, scope, ids)
    /\ UNCHANGED <<stores, resume, coolingStores, owed, storeChanges, stockFaults>>

\* resume_stock_sync: refused here or by the other Machine, it is scheduled again.
ResumeStockSync(m) ==
    /\ resume[m] # <<>>
    /\ \/ /\ Started(m, "resume", resume[m])
          /\ resume' = [resume EXCEPT ![m] = <<>>]
       \/ /\ SyncRunning(m) \/ syncLock # NoHolder
          /\ UNCHANGED <<resume, sync, syncLock>>
    /\ UNCHANGED <<stores, coolingStores, owed, stockBounds>>

\* Where the run was given s; no store is named twice.
Position(m, s) == CHOOSE i \in DOMAIN sync[m].todo : sync[m].todo[i] = s

\* The enabled stores as the run found them: a resume keeps its order, the query has none.
Orders(m) ==
    IF sync[m].scope = "full" THEN SetToSeqs(EnabledStores)
    ELSE {order \in SetToSeqs(EnabledStores \cap ToSet(sync[m].todo)) :
              \A i, j \in DOMAIN order :
                  i < j => Position(m, order[i]) < Position(m, order[j])}

\* A run for named stores owes nothing to those it finds disabled, a full one to any.
FoundDisabled(m) ==
    IF sync[m].scope = "full" THEN Store \ EnabledStores
    ELSE ToSet(sync[m].todo) \ EnabledStores

LoadStores(m) ==
    /\ sync[m].at = "started"
    /\ owed' = [owed EXCEPT ![m] = @ \ FoundDisabled(m)]
    /\ \E order \in Orders(m) :
        IF order = <<>> THEN Ended(m)
        ELSE MoveOn(m, "next", order, <<>>, 0) /\ UNCHANGED syncLock
    /\ UNCHANGED <<stores, resume, coolingStores, stockBounds>>

-----------------------------------------------------------------------------
(* Store by store. *)

Current(m) == Head(sync[m].todo)
Advance(m, at, inARow) ==
    MoveOn(m, at, Tail(sync[m].todo), sync[m].limited, inARow)

\* Cooling down, or disabled since the run began.
SkipStore(m) ==
    /\ sync[m].at = "next" /\ sync[m].todo # <<>>
    /\ Current(m) \in coolingStores[m] \/ Current(m) \notin EnabledStores
    /\ Advance(m, "next", sync[m].inARow)
    /\ owed' = [owed EXCEPT ![m] = @ \ {Current(m)}]
    /\ UNCHANGED <<stores, syncLock, resume, coolingStores, stockBounds>>

CrawlStore(m) ==
    /\ sync[m].at = "next" /\ sync[m].todo # <<>>
    /\ Current(m) \in EnabledStores \ coolingStores[m]
    /\ MoveOn(m, "crawling", sync[m].todo, sync[m].limited, sync[m].inARow)
    /\ UNCHANGED <<stores, syncLock, resume, coolingStores, owed, stockBounds>>

\* Mutant of Unsynced: what comes after the store that aborted the run.
UnsyncedRest(m) == Tail(sync[m].todo)

\* rate_limited + crawlers[index + 1:]
Unsynced(m) == sync[m].limited \o sync[m].todo

\* HTTP 429: not for the breaker.  The second in a row aborts the run.
RateLimited(m) ==
    /\ sync[m].at = "crawling"
    /\ IF sync[m].inARow >= 1
       THEN /\ resume' = [resume EXCEPT ![m] = Unsynced(m)]
            /\ owed' = [owed EXCEPT ![m] = @ \cup ToSet(sync[m].limited \o sync[m].todo)]
            /\ Ended(m)
       ELSE /\ MoveOn(m, "next", Tail(sync[m].todo), Append(sync[m].limited, Current(m)), 1)
            /\ owed' = [owed EXCEPT ![m] = @ \cup {Current(m)}]
            /\ UNCHANGED <<syncLock, resume>>
    /\ UNCHANGED <<stores, coolingStores, stockBounds>>

\* Any other exception counts on the breaker, which may start a cooldown.
StoreFails(m) ==
    /\ sync[m].at = "crawling"
    /\ coolingStores' \in {coolingStores, [coolingStores EXCEPT ![m] = @ \cup {Current(m)}]}
    /\ Advance(m, "next", 0)
    /\ owed' = [owed EXCEPT ![m] = @ \ {Current(m)}]
    /\ UNCHANGED <<stores, syncLock, resume, stockBounds>>

StoreCrawled(m) ==
    /\ sync[m].at = "crawling"
    /\ MoveOn(m, "writing", sync[m].todo, sync[m].limited, 0)
    /\ UNCHANGED <<stores, syncLock, resume, coolingStores, owed, stockBounds>>

\* Mutant of StillCatalog: the kind as it was when the run began.
StillCatalogThen(s) == TRUE

\* crawler_is_catalog, under a lock on the crawlers row the conversion waits for.
StillCatalog(s) == stores[s].catalog

\* replace_stock_items and what is committed with it, or nothing.
WriteSnapshot(m) ==
    /\ sync[m].at = "writing"
    /\ stores' = IF StillCatalog(Current(m))
                 THEN [stores EXCEPT ![Current(m)].listed = TRUE] ELSE stores
    /\ Advance(m, "next", 0)
    /\ owed' = [owed EXCEPT ![m] = @ \ {Current(m)}]
    /\ UNCHANGED <<syncLock, resume, coolingStores, stockBounds>>

\* Only a run of every store has visited what a pending resume would.
CoversResume(scope) == scope = "full"

CompleteSync(m) ==
    /\ sync[m].at = "next" /\ sync[m].todo = <<>>
    /\ resume' = IF CoversResume(sync[m].scope) THEN [resume EXCEPT ![m] = <<>>] ELSE resume
    /\ owed' = [owed EXCEPT ![m] = @ \ (ToSet(sync[m].limited) \ ToSet(resume'[m]))]
    /\ Ended(m)
    /\ UNCHANGED <<stores, coolingStores, stockBounds>>

-----------------------------------------------------------------------------
(* What happens around a run. *)

StockFault == stockFaults < MaxStockFaults /\ stockFaults' = stockFaults + 1
              /\ UNCHANGED <<starts, storeChanges>>

\* A call of the run raises: the error ends it, and its stores wait for the next one.
SyncFails(m) ==
    /\ SyncRunning(m) /\ StockFault
    /\ Ended(m)
    /\ owed' = [owed EXCEPT ![m] = @ \cap ToSet(resume[m])]
    /\ UNCHANGED <<stores, resume, coolingStores>>

\* The resume job's start raises: the job is gone.
ResumeFails(m) ==
    /\ resume[m] # <<>> /\ ~SyncRunning(m) /\ StockFault
    /\ resume' = [resume EXCEPT ![m] = <<>>] /\ owed' = [owed EXCEPT ![m] = {}]
    /\ UNCHANGED <<stores, syncLock, sync, coolingStores>>

\* The process stops or dies, with everything in its memory.
ProcessEnds(m) ==
    /\ StockFault
    /\ Ended(m)
    /\ resume' = [resume EXCEPT ![m] = <<>>] /\ owed' = [owed EXCEPT ![m] = {}]
    /\ coolingStores' = [coolingStores EXCEPT ![m] = {}]
    /\ UNCHANGED stores

CoolingEnds(m, s) ==
    /\ s \in coolingStores[m]
    /\ coolingStores' = [coolingStores EXCEPT ![m] = @ \ {s}]
    /\ UNCHANGED <<stores, syncLock, sync, resume, owed, stockBounds>>

StoreChange ==
    /\ storeChanges < MaxStoreChanges /\ storeChanges' = storeChanges + 1
    /\ UNCHANGED <<syncLock, sync, resume, coolingStores, owed, starts, stockFaults>>

ToggleStore(s) ==
    /\ StoreChange
    /\ stores' = [stores EXCEPT ![s].enabled = ~@]

\* register_crawler on a newer deploy: the snapshot goes with the kind.
ConvertStore(s) ==
    /\ StoreChange
    /\ stores' = [stores EXCEPT ![s].catalog = ~@, ![s].listed = @ /\ ~stores[s].catalog]

StockInit ==
    /\ stores = [s \in Store |-> [enabled |-> TRUE, catalog |-> TRUE, listed |-> FALSE]]
    /\ syncLock = NoHolder /\ sync = [m \in StockMachine |-> IdleSync]
    /\ resume = [m \in StockMachine |-> <<>>] /\ coolingStores = [m \in StockMachine |-> {}]
    /\ owed = [m \in StockMachine |-> {}]
    /\ starts = 0 /\ storeChanges = 0 /\ stockFaults = 0

StockNext ==
    \/ \E m \in StockMachine :
        \/ StartStockSync(m, "full", <<>>)
        \/ \E s \in Store : StartStockSync(m, "one", <<s>>) \/ CoolingEnds(m, s)
        \/ ResumeStockSync(m) \/ LoadStores(m) \/ SkipStore(m) \/ CrawlStore(m)
        \/ RateLimited(m) \/ StoreFails(m) \/ StoreCrawled(m) \/ WriteSnapshot(m)
        \/ CompleteSync(m) \/ SyncFails(m) \/ ResumeFails(m) \/ ProcessEnds(m)
    \/ \E s \in Store : ToggleStore(s) \/ ConvertStore(s)

StockSpec == StockInit /\ [][StockNext]_stockVars

-----------------------------------------------------------------------------

\* What a 429 kept from syncing, in this run or in one that aborted, is always somewhere:
\* in the pending resume, or still with the run.  No later run of one store, refused
\* resume or replaced job loses a store; it takes a failure, a crash, a cooldown, a
\* disabling, or a run that came by it and went on (the comments on rate_limited, on
\* cancel_stock_resume, and of schedule_stock_resume, which says one job is enough).
ResumeCoversUnsynced ==
    \A m \in StockMachine :
        owed[m] \subseteq ToSet(resume[m]) \cup ToSet(sync[m].todo) \cup ToSet(sync[m].limited)

\* No snapshot of a store is in stock_items once the store is no catalog, whenever the
\* conversion fell into its crawl: nothing would ever clear it (crawler_is_catalog).
NoSnapshotOutlivesKind == \A s \in Store : stores[s].listed => stores[s].catalog
=============================================================================
