# A formal model of discogs-browser

This directory holds TLA+ specifications of the parts of discogs-browser whose
correctness depends on the order in which several processes act, the TLC
configurations that check them on small instances, and proofs, checked by TLAPS,
that the main safety properties hold for every value of the parameters.

Paths below are relative to `src/`.

## The system

discogs-browser keeps a user's Discogs collection and wantlist, prices every
record on marketplaces and stores, and runs as two Machines behind one hostname
with one Postgres database between them. Each Machine is one asyncio process;
its blocking database work runs on threads. What the Machines share is the
database and nothing else, so every exclusion that has to hold between them is a
row, a token or a database lock.

| component | code | state | operations | interacts with | what makes it correct |
|---|---|---|---|---|---|
| crawl queue | `backend/db.py` 2399-3153 | `crawl_queue`: one row per target, its status, claim, `pending_crawler_ids`, `available_at`, priority | enqueue, save, re-check, restore, backfill, sweep, claim, reclaim, revert, done, defer | written by syncs, users, administrators; drained by every Machine's workers | nothing a row owes is lost; no row is crawled twice at once; every row is resolved |
| crawl workers | `backend/crawl_manager.py` 213-808 | the batch a worker has claimed, its units, its deferrals | claim, resolve targets, search, write results, resolve rows, stop, restart | the queue, the breaker, the listings | a shutdown strands nothing; a worker that lost its claim writes nothing |
| crawler registry | `db.py` 2258-2520, `routers/settings.py` | `crawlers`: kind, enabled | register, convert, enable (two transactions), disable | revives, widens and sweeps queue rows; deletes listings | what a conversion deletes stays deleted |
| circuit breaker, pacing | `crawl_manager.py` 291-433 | failure counters, cooldown deadlines, locks per site and domain | record a result, cool down, pace | decides deferrals | a late failure does not resurrect a count a success reset |
| library sync | `crawl_manager.py` 840-1605, `db.py` 5446-5726 | `library_sync_runs`: status, token, heartbeat | claim, checkpoint, hand off to Plex, finish, release | writes the library, deletes orphans, restores queue rows | one run writes at a time; a run that lost its claim destroys nothing |
| Plex matching | `crawl_manager.py` 2616-2714 | plays of library items | match in chunks under the sync's claim | the sync run | stops when the claim is lost |
| judgment | `crawl_manager.py` 2069-2614, `db.py` 4480-4860, 5008-5220, `routers/stock.py` | `stock_judgment_runs`, `stock_item_judgments`, `stock_item_identities` | claim, inherit, select, judge, stop, finish, clear, import | stock items, the stock sync, a paid API | no record is paid for twice, no cleared verdict comes back, a verdict stays about its record |
| stock sync | `crawl_manager.py` 1633-2067, `db.py` 3925-4001 | `stock_items` per store, the pending resume | fetch, replace the snapshot, abort, resume | scheduler, queue, price drops | a converted store keeps no snapshot; what a 429 aborted is resumed |
| scheduler | `scheduler.py` | cron jobs, one resume job | configure, fire, schedule a resume | starts syncs | one pending resume is enough |
| configuration | `config.py` 150-340 | `app_config`, a cache per process | load, save, invalidate, migrate | every worker | a process reads what it saved; a legacy file is folded in once |
| event stream | `crawl_manager.py` 186-208, `routers/crawl.py` | the last events, subscriber queues | broadcast, subscribe, replay | browsers | no gap and no repetition between the replay and the subscription |
| sessions, invites | `routers/session.py`, `db.py` 1880-1955, 5747-5837 | handshakes, pending sign-ups, invites, sessions | sign in, redeem, expire, revoke | every request | a sign-up that is used up made its user |
| price drops | `routers/notifications.py`, `db.py` 1610-1870, 4874-4995 | prices, drops, a watermark per user | record, list, mark seen | stock and release crawls | no drop is missed, and none is marked read unseen |
| logging | `logging_config.py`, `routers/logs.py` | a bounded queue, `app_logs` | log, flush, clear, stop | everything | a shutdown loses no record |
| HTTP clients | `discogs.py`, `catalog_http.py`, `shopify_catalog.py`, `ebay_api.py`, `rate_limit.py` | retry counters, windows | request, back off | every sync and crawler | attempts are bounded, a partial listing is no catalog |
| queue reporting | `db.py` 3172-3660, `routers/queue.py` | none | classify rows, estimate | the queue | agrees with what the claim takes |
| Shopify crawlers | 17 files of `crawlers/` | tallies of one walk | read products, judge the walk | stock sync | a payload that lost what the guards count does not empty a snapshot, a sold-out store is believed |
| other crawlers | `crawlers/` (the rest of 81 files) | none | scrape one site | workers, stock sync | out of scope: parsing of external pages |
| frontend | `frontend/src` | React state | poll, stream, render | the API | sync status never shows a run that ended |

`PROJECT.json` lists the same components with their status, and under "hazards"
every place where the code could go wrong in a way a test would hardly reach,
with the properties that cover it.

## Plan

Modules, most important first. A module marked * is written.

1. `CrawlQueue`*, `MCCrawlQueue`*, `CrawlQueueProofs`*: the queue, the registry as
   the queue sees it, and the workers.
2. `RunLease`* (what a leased run promises), `LibrarySyncRun`* (claim, checkpoints,
   Plex phase, destructive clean-up) implementing it, `MCLibrarySyncRun`* and
   `LibrarySyncProofs`*. `MCLive`*: 2 and 4 under fairness.
3. `QueueReconcile`*, `MCQueueReconcile`*, `QueueReconcileProofs`*: the save, sweep and
   backfill transactions statement by statement, with the advisory lock: no save
   without its row, no click in a wait-for cycle.
4. `JudgmentRun`*, `MCJudgmentRun`*, `JudgmentProofs`*: the judgment run, the other
   implementation of `RunLease`, with the clear, the import and the listings that
   change under it.
5. `QueueLanes`*, `StrandedClaim`*: the claim order, and the age at which a claim is
   taken away. Proofs of 5 and 7: `WorkerProofs`*.
6. `StockSync`*: snapshot replacement, aborts and the resume job. Proofs of 6 and 9:
   `StoreProofs`*.
7. `SiteBreaker`*, `SitePacing`*: counters, failure domains, the gap between searches.
8. `PriceDrops`*, `ConfigCache`*, `EventStream`*, `SignIn`*, `LogQueue`*: small and
   independent of one another. Proofs: `ServiceProofs`*.
9. `CatalogProduct`*, `UntypedShops`*, `TypedShops`*, `CatalogWalk`*: the Shopify
   crawlers and the walk that feeds them.
10. `MCComponents`*: 5 to 9 in one run; `DataLemmas`*, what the proofs of 5 to 9 share.
11. Left to model: the expiry and revocation of sessions, the import of verdicts row by
    row, the retry loops of the Discogs and eBay clients, the classification of queue
    rows against the claim's gate, more crawlers of the same family.
12. Every safety property that a passing run checks is proved. Left to prove: what the
    modules of 11 will claim.

The abstract specification that two components share is a leased run (`RunLease`):
the library sync and the judgment run are both proved to implement it.

## CrawlQueue: the queue and its workers

**State.** `queue` maps every target (release or stock item) to its row: `status`,
`claimed_by`, `pending` (`pending_crawler_ids`), and two flags for time, `due`
(`available_at` has passed) and `stranded` (`claimed_at` is older than
`_queue_stranded_after_seconds`). `priced` is the listings table reduced to "has a
price"; `enabled` and `marketplace` are the two columns of `crawlers` the queue
reads; `enabling` holds the crawlers between the two transactions of the enable
path; `crawlable` is the set of stock items that `_stock_item_crawlable` accepts.
Per Machine there is the pool's state and its cooling crawlers; per worker the
program counter and the local variables of `_process_claimed_rows`: the rows whose
target is not resolved yet (`claimed`, `snapshot`), the rows with work left
(`todo`, `units`, `deferred`) and the search under way (`current`, `unit`,
`result`). Two history variables serve the properties: `debt`, the crawlers a
target was promised and has not had, and `superseded`, the pairs of a worker and a
row that another worker claimed in the meantime.

**Actions.** One action is one transaction, or one stretch of a coroutine between
two awaits.

| action | code |
|---|---|
| `Enqueue`, `SaveStockItem` | `enqueue_crawl_queue`, `..._for_stock_item`, `..._for_saved_stock_item`, `..._for_recheck`, `..._for_library_stock_items` |
| `EnableCrawler`, `Backfill`, `BackfillSkipped`, `DisableCrawler` | `update_crawler` |
| `ConvertToCatalog`, `ConvertToRelease` | `register_crawler` |
| `StockChanges`, `SweepDeadRows` | what moves `_stock_item_crawlable`; `delete_dead_stock_crawl_queue_rows` |
| `Claim` | `_drain_one_batch`: reclaim and claim in one transaction |
| `RevertClaim`, `BeginBatch` | the cancellation boundary of `_drain_one_batch` |
| `ResolveTarget` | first pass of `_process_claimed_rows`, `get_eligible_crawlers` |
| `SkipUnloaded`, `DeferUnit`, `StartSearch`, `SearchFails`, `SearchReturns` | the unit loop and `_paced_search` |
| `WriteResult`, `ResultReclaimed` | `_write_result` under `crawl_queue_claim_held` and `crawler_is_release` |
| `ResolveRow` | `resolve_row`: `mark_crawl_queue_done` or `defer_crawl_queue_row` |
| `StopPool`, `PoolStopped`, `StartPool` | `stop_worker_pool`, `start_worker_pool` |
| `Crash`, `WorkerFails` | a dead process; an exception caught by `_worker_loop` |
| `ClaimAges`, `PassRunsLong`, `RowComesDue`, `CooldownEnds` | time |

**Abstractions.** NULL `pending_crawler_ids` is the full set of crawlers (both are
only ever intersected with the eligible ones). `FOR UPDATE SKIP LOCKED` is a free
choice of the rows skipped. The order of the claim is left open, so what holds
here holds for every order. The failure counter of the breaker is reduced to "a
failure may start a cooldown". A search finds a price, finds nothing, or finds
nothing behind a bot interstitial. The release that cannot be found in the
catalog (`target is None`) is left out, foreign keys keep it from happening. A
claim that commits after the cancellation is the claim before `StopPool`. A row
deleted by a sweep and inserted again keeps its name in the model while the
database gives it a new id: the model allows a little more than the code does. A
row in progress when a crawler is enabled is not backfilled, in the code as in the
model (accepted in the comment above `backfill_crawl_queue_for_crawler`). Stock
rows that a release crawl writes (`upsert_stock_item_from_release`) are not
modelled.

**Properties.**

- `NothingOwedIsLost`: a crawler promised to a target stays in its row until it
  has run or is found ineligible at dispatch. This is what the gate on both
  terminal writes and the narrowing of `pending_crawler_ids` are for.
- `OneWorkerPerRow`: until a live pass outlasts the stranded threshold, no row is
  in two workers' hands.
- `SupersededWritesNothing`: when it does, the slower worker changes neither the
  row nor its listings.
- `OnlyFaultsStrandRows`: without a crash or an escaped exception every row in
  progress is in the hands of the worker that claimed it, through shutdowns,
  cancelled claims and reclaims.
- `NoListingOutlivesConversion`: a search in flight does not restore what a kind
  conversion deleted.
- `RequestsLeaveClaimedRows`: no request touches a claimed row.
- `QueueDrains`: when requests and faults end, every row that may be claimed is
  resolved.
- `Inv`: the inductive invariant of the proofs, checked as an invariant as well.

**Runs.** All runs are bounded by the number of requests, stops, overruns and
faults; a bound of one or two is enough for each because the interesting histories
are one overrun against one pass, one crash against one claim, one conversion
against one search, while the interleaving between them is complete. Deadlock
checking is off: when the bounds are used up and the queue is empty the model
stops, where the program would idle.

| run | instance | shows |
|---|---|---|
| `queue_two_machines` | 2 Machines, 1 worker each, 2 crawlers, 1 release, 1 overrun, 1 fault; symmetric in Machines and crawlers | `NothingOwedIsLost`, `OneWorkerPerRow`, `SupersededWritesNothing` |
| `queue_one_machine` | 1 Machine, 2 workers, 1 crawler, 1 release, 1 item, batches of 2, 3 requests, a stop, an overrun | `OnlyFaultsStrandRows`, `NoListingOutlivesConversion`, `RequestsLeaveClaimedRows`, `Inv` |
| `queue_drains` | 2 Machines, 2 crawlers (one cannot load), 1 release, 1 item, 1 stop, 1 fault, fairness | `QueueDrains` |

**Fairness.** A worker that can act does (the event loop runs every ready
coroutine, and searches have timeouts); a stopping pool stops and a Machine that
went down is restarted by the platform; claims age, deferred rows come due and
cooldowns end because time passes. Nothing is assumed of requests and faults. The
bound on faults stands for "faults end": a queue whose worker fails on every pass
does not drain.

**Proofs** (`CrawlQueueProofs`). For every set of Machines, workers, crawlers,
releases and items, and every bound: `QueueInvariant`, `TypeCorrect`,
`OwedIsKept`, `RowsAreExclusive`, `ShutdownStrandsNothing`, `ConversionIsFinal`,
`SupersededIsHarmless`, `ClaimedRowsAreLeftAlone`. The assumption is
`QueueAssumption`: releases and items are different names, and NULL is neither a
worker, a target nor a crawler. `NothingOwedIsLost` is not inductive: it needs to
know where the debt of a claimed row is (`OwedInHand`: in the snapshot, the units
ahead or the deferred ones of its holder), that a held row is in progress
(`HeldInProgress`), that a row nobody claimed names no holder
(`OpenRowsUnclaimed`) and what the program counter says of the batch
(`BatchShape`). `OneWorkerPerRow` follows from `HandsHold`: until a pass runs long,
every worker holds the claim of every row of its batch.

## LibrarySyncRun: the leased run of a library sync

`RunLease` says what a leased run promises: runs are granted one after the other,
only the run that holds the lease writes under it, and a run that lost it, by
ending or by falling silent, never gets it back. `LibrarySyncRun` is the sync of
one user on every Machine, and implements it.

**State.** `run` is the user's row of `library_sync_runs`: `status`, `token` (tokens
are numbered in the order they were granted, so the newest is `granted`) and
`stale`, which stands for a heartbeat older than `SYNC_RUN_STALE_MINUTES`.
`library` is the user's `library_items`: per release `NULL` (no row) or its set of
flags. `discogs` is what the user's lists say on Discogs. Per Machine: `starting`
(a start that holds `_start_lock`, before or after its claim), `claim` (the token
that start holds), `task` (`_sync_tasks`) and `match` (`_plex_match_tasks`). Per
run: `home` (its Machine), `pc`, `walk` (the items of the page not yet written),
`seen` (`current_wantlist_ids`), `buffer` (items written and not yet committed),
`intended` (`outcome`), `tries`, `phase` and `told`, the last thing the user was
told. `writer` is a history variable: the run of the last commit that was fenced
on a token.

| action | code |
|---|---|
| `RequestSync`, `ClaimRun`, `ClaimRefused`, `RegisterTask` | `start_sync`: the lock, `claim_library_sync_run` in a thread, the registered task |
| `StartMatch`, `MatchOver` | `start_plex_match` and the end of its task |
| `FetchCollection`, `UpsertItem`, `FetchWantlist` | the two walks of `_sync_collection_blocking` |
| `Checkpoint`, `ClaimLost` | `checkpoint`, `still_ours` |
| `CleanUp` | `clear_wishlist_flags_not_in`, `delete_orphaned_releases`, in one transaction with the claim check |
| `HandOver`, `HandOverRefused`, `EndSync` | `start_library_sync_plex_phase`, or the end without Plex |
| `CloseRun`, `Backstop` | `finish_run` and the `finally` |
| `Restore` | `_restore_library_stock_rows` |
| `MatchChunk`, `MatchEnds`, `ReleasePlexPhase` | `_run_plex_match` and the end of `_sync_collection` |
| `ClaimUnanswered`, `StepFails`, `CommitUnanswered`, `CloseUnanswered`, `ReleaseUnanswered`, `Crash` | failures: a call that fails, a commit that lands without saying so, a dead process |
| `RunExpires`, `RunStalls` | time |
| `ListsChange` | the user edits the lists on Discogs |

**Abstractions.** One user: the rows of two users share nothing but code. Each list
is one page, and a checkpoint may fall after any item, which is all that more
pages would add. Row-lock waits are left out: a fenced update that waits for
another one sees its outcome, as the model's next step does. The Plex data are
not modelled, only the commits that match them. A thread cannot be cancelled, so
stopping a Machine's task stops nothing before the Plex phase; a cancellation
during that phase is one of the ways `MatchEnds` happens, and a graceful exit is a
crash. A sync that fails before it wrote anything restores no stock rows. A claim
somebody works on does not age on its own: `RunStalls` makes a live worker silent,
as often as its bound allows.

**Properties.**

- `CompleteIsTrue`: while the row says that the sync completed or is matching, the
  library's wishlist is what that run saw and no row is an orphan, whatever
  earlier workers were still doing. Late commits, half-done clean-ups and
  borrowed outcomes would all show here.
- `EndIsFinal`: a run that expired is not revived, an outcome is not rewritten, and
  a run handed to Plex only ends.
- `MatchExcludesSync`: a Machine never runs a Plex match of its own beside a sync of
  its own that may still write; the start lock is there for this.
- `ImplementsLease`: with the holder read off the row, every step is a step of
  `RunLease`.
- `UserCanSync`: whatever fails, the user's claim becomes free again.
- `Inv`: the inductive invariant of the proofs.

| run | instance | shows |
|---|---|---|
| `sync_takeover` | 2 Machines, 1 release, 2 claims, 1 edit, 2 stalls, 1 fault | `CompleteIsTrue`, `MatchExcludesSync`, `EndIsFinal`, `ImplementsLease`, `Inv` |
| `live` (module `MCLive`) | 1 Machine, 2 claims, 1 stall, 2 faults, fairness | `UserCanSync` |

`MCLive` is the sum of the sync and of the judgment run below: an initial choice picks one
of them, the other rests in an initial state, in which fairness asks nothing of it.

Two claims are enough for every takeover of one worker by another, and two stalls let
both of them outlast the window. One release suffices because the walk treats items
alike and the clean-up is a set operation; it is on either list, both or none, and
the edit moves it between two runs or between the two walks of one. Two faults
make both attempts of a close or a release go unanswered. The program may stop in
every state with no claim and all requests used, so deadlock is not checked.

**Fairness.** A worker that can take a step takes one (threads run, calls have
timeouts), a start that holds the lock goes on, and an unattended claim ages.
Nothing is assumed of requests, edits, stalls and faults.

**Proofs** (`LibrarySyncProofs`). For every set of Machines and releases and every
bound: `SyncInvariant`, `SyncTypeCorrect`, `CompletionIsTrue`,
`MatchAndSyncExclude`, `EndsStand` and `SyncIsALease`, the last one of a temporal
specification: every behaviour of the sync is one of `RunLease`. The assumption
is `SyncAssumption`: the bounds are naturals and `NULL` is no Machine and no set of
flags. `CompleteIsTrue` is not inductive. It needs what the holder of the claim
has committed so far (`Progress`: what it saw and no longer buffers is in the
library, and after its clean-up nothing else is), which needs that no other run
writes: the row names the newest claim (`RowShape`) and a run past its sync phase
has no way back into it (`RunShape`). `MatchExcludesSync` needs that a claim about
to be registered is the newest of its Machine (`StartShape`) and that a worker who
may still write is the task its Machine knows (`Known`). The proof has one lemma
per part: what a worker's step does to the row (`Moving`), what a new claim changes
(`Granting`), and what of either leaves each part standing.

## QueueReconcile: the transactions, row lock by row lock

`CrawlQueue` takes an enqueue, a sweep or a backfill as one step. Under READ
COMMITTED they are not: a statement picks its rows under the snapshot of its
start and then locks and changes them one by one, while other transactions do the
same. `QueueReconcile` models them at that grain, to show what the advisory lock
`STOCK_QUEUE_RECONCILE_LOCK_KEY` is for.

**State.** `rows` is the queue as committed; `locked` says which session holds a
row's lock, and `draft` what it wrote there. `lock` is the advisory lock. `stock`,
`enabled`, `saved`, `library` and `only` are the columns and the setting that
decide whether an item is crawlable. Each session (a database connection) has the
kind of its transaction (`job`), how many statements of its `Script` it has opened
(`step`), the rows its statement was opened on (`chosen`) and has not visited yet
(`todo`), the row it waits for (`aim`), what it was begun on (`batch`), the
crawlers row it holds (`held`) and the setting as it read it (`mode`). `promised` is
a history variable.

| transaction | code | script |
|---|---|---|
| save | `_write_save` | lock; `enqueue_crawl_queue_for_saved_stock_item` |
| recheck | `_write_recrawl` | lock; the gate; the same insert |
| restore | `_restore_library_stock_rows` | lock; `enqueue_crawl_queue_for_library_stock_items` |
| sweep | the end of `_sync_stock`, switching `crawl_library_only` on | lock; `delete_dead_stock_crawl_queue_rows` |
| enable | `update_crawler`, its second transaction | lock; revive, widen; delete |
| disable | `update_crawler` | lock; delete, with the toggle |
| snapshot | `_sync_stock`, `replace_stock_items` | the enqueue of every item of the store |
| page | `_sync_collection_blocking` | the enqueue of every release of the page |

`TakeLock`, `OpenStatement` and `PassGate` open the next statement, `Touch`, `Wait`
and `PassBy` visit a row, `Commit`, `RollBack` and `RefuseGate` end the transaction.
`RollBack` happens to a session in a cycle (the victim is any of them), to the
enable path when its lock timeout fires, and to a page or a snapshot, which may
fail or find its claim lost. `ClaimRow` and `ResolveRow` are the workers, whose own
transactions skip locked rows or touch one row and are single steps.

**Abstractions.** The order in which a statement visits its rows is free. Rows
are reduced to their status, without `pending_crawler_ids`, claims and times: which
done rows lack a price of the crawler (`revive`) and which pending rows are narrowed
(`widen`) is a free choice. An item key names one store, since it hashes the
listing's URL. `stock_items` changes when the snapshot's transaction commits, and
the crawlers row it holds (`crawler_is_catalog`) excludes a concurrent toggle of the
store. The crawlers row an enable writes is held for a transaction of its own, which
is one step. A library sync that grows the library is a step, its restore a
transaction. A sweep may begin at any time, also the one at the end of a stock sync beside
a snapshot, which the stock sync's own lock rules out; switching `crawl_library_only` on
and toggling a crawler sweep in the same way beside any snapshot, so the waits and the
deletions it leads to are the code's.

**Properties.**

- `InterestHasRow`: an item that a save or a restore found listed has a queue row
  as long as it is listed and wanted, whatever sweep runs under an older snapshot.
- `ClicksAreNoVictims`: no save and no re-check is in a wait-for cycle, of whatever
  length, so Postgres can never choose one as a victim.
- `HolderMovesOn`: every cycle with the holder of the reconciliation lock has a snapshot
  in it that holds the row of one item of its listing and waits for another's
  (`Straddles`). That the holder is in no cycle at all, which the code's comment says
  (`HolderIsNeverStopped`), is false: disagreement 3 below.
- `Inv`: the inductive invariant of the proofs.

| run | instance | shows |
|---|---|---|
| `reconcile_interest` | 2 sessions, 1 store with 2 items, 3 transactions of every kind about items | `InterestHasRow`, `ClicksAreNoVictims`, `Inv` |
| `reconcile_locks` | 2 sessions, 2 releases, 1 store with 2 items, 2 transactions: saves, sweeps, enables, snapshots, pages | `HolderMovesOn` |
| `reconcile_cycle` | 2 sessions, 2 items, a sweep and a snapshot | disagreement 3 below |

Two items, or two releases, are what a cycle on rows needs, one held by each side, and
two sessions with one transaction each are enough for one; in `reconcile_interest` two
sessions run at the same time and the third transaction begins after one of them ended, which is
what a save after an uncommitted sweep needs. The initial queue and stock are
arbitrary (with the setting off, what is listed has its row), so every history that
led there is included. The only actions without a bound are the workers' and
`Unsave`, which cycle through finitely many states. Nothing is claimed of liveness,
and no fairness is assumed. A model whose transactions are used up may stop, so
deadlock (in TLC's sense) is not checked; wait-for cycles are what the properties
are about.

**Proofs** (`QueueReconcileProofs`). For every set of releases, items, stores and
sessions, and every bound: `ReconcileInvariant`, `InterestIsServed`, `ClicksSurvive` and
`OnlySnapshotsStopTheHolder`. The assumption is `ReconcileAssumption`: releases and items are
different names, every item has a store, and `NULL` is none of them.
`InterestHasRow` is not inductive: a sweep deletes at a later step what it chose
under an earlier snapshot. `DeletionShape` says that what a sweep is about to delete
is not promised, unless its own transaction disables the store; that stays true
because a promise is only made by a session that holds the lock, and a sweep
that has chosen its rows holds it (`LockFirst`). `Placed` says that an interest
path that is done with an item sees its row, so that committing may promise it, and
`DraftShape` that a row without a holder is as committed. `ClicksAreNoVictims`
follows from `LockFirst` and `ClickShape`: a click holds nothing but the lock until
its one row is written, after which it waits for nothing; whoever waits for the
lock holds no row, so a cycle through a click has nobody to wait for the click
except takers that nobody waits for. The proof first describes each kind of step by
what it leaves alone, then has one lemma per kind.

`HolderMovesOn` is `OnlySnapshotsStopTheHolder`. Its invariant is `Footprints`: what a
session waits for and what rows it holds are of what its kind of transaction touches. A
page touches releases, a snapshot the items it enqueues, and the lock's holder waits for
items only, since its backfill of releases passes over locked rows. Whoever holds the row
that the lock's holder waits for is then no taker (`LockFirst`) and no page, so it is a
snapshot; in a cycle it waits itself, for another of the rows it enqueues.

## JudgmentRun: verdicts that cost money

A recommendation run asks a paid model about the records in stock that the user does
not own and has no verdict on. Like the library sync it is a leased run, with one row
per user in `stock_judgment_runs`; unlike it, it runs against listings that a stock sync
replaces whenever it likes, and beside requests that clear or import verdicts.

**State.** `run` is the row (`status`, `token`, `stale`, and `stop`, the flag of a
requested stop), `granted` the newest token. `verdicts` maps an item key to its row of
`stock_item_judgments`: `about` is the `record_key` stored with it (NULL for a row of a
file), `of` and `by` are what the program does not store, the record the model was asked
about and the run that wrote it. `stock` is the set of listings, `identity` the
`record_key` each item key resolves to, `syncing` the Machine that holds the stock sync's
advisory lock. Per Machine, `asked` is a start past its guards. Per run: `pc`, `todo`
(selected and not sent), `batch` (sent, the answer outstanding), `intended` (the outcome
it means to record). `writer`, `filed`, `cleared` and `late` are history variables.

| action | code |
|---|---|
| `PassSyncGuard`, `ClaimRun`, `ClaimRefused`, `ClaimUnanswered` | `start_judgment_only`, `_claim_judgment_run` |
| `SweepKeys`, `CannotJudge` | `backfill_stock_keys`; no user or no key |
| `Inherit` | the first transaction: the claim, then `propagate_stock_judgments` |
| `Select` | `get_unjudged_stock_items` |
| `Preflight`, `TakenOver` | `record_stock_judgment_progress`, answered or refused |
| `SendBatch`, `CommitBatch` | `judge_batch`, then the batch's transaction with its fan-out |
| `CloseRun`, `Backstop` | `close` and the `finally` |
| `StepFails`, `Cancelled`, `CloseUnanswered`, `Crash` | failing, cancelled and unanswered calls, a dead process |
| `RequestStop`, `Clear`, `Import` | the user's requests, under `lock_stock_judgment_run` where the code takes it |
| `StartSync`, `EndSync`, `Restock` | a stock sync that begins, sweeps the keys, or writes listings |
| `RunExpires`, `RunStalls` | time |

**Abstractions.** One user; the artist is part of the record, and a batch is one listing
(more would only be paid for together). What the model answers is whether the answer can
be used. The guard that looks for a stock sync elsewhere fails open, so it passes beside
one at the price of a fault. Every writer of a listing upserts its identity and any of
them may be last. Which of several sources a verdict is copied from is open.

**Properties.**

- `ClearStands`: no verdict of a run that was claimed before the last clear is stored
  again, however late its batch returns. Clear and import read "is a run under way" under
  the row's lock; a claim that expired is refused at the batch's commit.
- `PaidOnce`: a run that holds its claim has no record to send that the model has judged,
  in whichever shop or pressing, as long as no verdict came from a file (a file names
  item keys and no records, which the code accepts).
- `VerdictsKeepTheirRecord`: with the same proviso, the record a verdict is stored for is
  the one the model was asked about, although item keys are reused for other records and
  identities are rewritten under it.
- `OverspendIsBounded`: a run that was lost or asked to stop pays for one batch more.
- `ImplementsLease`: every step is one of `RunLease`. `UserCanJudge`: a user can always
  start another run eventually. `Inv`: the inductive invariant.

| run | instance | shows |
|---|---|---|
| `judge_takeover` | 2 Machines, 2 items, 2 records, 2 claims, one of each kind of trouble (change, stall, fault) | `Inv` with its parts, `ImplementsLease` |
| `live` (module `MCLive`) | 1 Machine, the same otherwise, fairness | `UserCanJudge` |

The stocks (`MCSnapshot`) list one record under two items, two records under one item and
a listing without a key, the three cases that copying and selecting tell apart. One
change per behaviour suffices to find every mutant; the proofs cover any number.
**Fairness**: workers that can act do, a start that passed its guards is answered, and a
claim nobody works on ages. Nothing is assumed of requests, stalls and faults.

**Proofs** (`JudgmentProofs`). For every set of Machines, items, records and stocks and
every bound: `JudgmentInvariant`, `ClearedStaysCleared`, `RecordsArePaidOnce`,
`VerdictsStayTrue`, `OneBatchLate` and `JudgmentIsALease`. The assumption is
`JudgmentAssumption`: item keys are ordered as the naturals are, stocks are sets of
listings, `NULL` is none of the other values. `PaidOnce` is not inductive. It needs that
what is selected names each record once (`SelectionShape`, from the lowest item of each
record), that nobody else wrote since (only the holder writes: `RowShape` and the fence),
and that a verdict's record is the one it is about, which makes "no verdict is about this
record" the same as "the model was not asked". `OverspendIsBounded` needs that a batch
sent late finds itself lost or stopped at its commit (`LateShape`). A worker's step is
summed up by `Moves` (the row and the other runs) and `Wrote` (the verdicts), and the
rest follows run by run.

## The components of one run

The remaining modules share no variable, so `MCComponents` composes them as a sum: an
initial choice picks one of them and the others rest in one initial state. The run
`components` thus checks each on all its behaviours; every action of every part fires.
Deadlock is not checked, since each part stops when its bounds are used up. The bounds
are those of `components.cfg`.

| module | code | state | properties | bounds |
|---|---|---|---|---|
| `StockSync` | `_run_stock_sync`, `_sync_stock`, `schedule_stock_resume`, `cancel_stock_resume` | per Machine the run with its stores ahead, the stores a 429 stopped, the pending resume; per store enabled, catalog, snapshot | `ResumeCoversUnsynced`: what a 429 kept from syncing is in the pending resume or still with the run; `NoSnapshotOutlivesKind` | 2 Machines, 3 stores (two make an abort, the third is what it leaves), 2 starts, a store change, a fault |
| `SiteBreaker` | `_record_site_result`, `_is_cooling_down` | per failure domain the waiting recorders and those that hold its lock; per crawler its count | `CountsFollowArrival`: a count is the run of failures that ended the domain's results | 3 crawlers, two of them one upstream, limit 2, 4 results |
| `SitePacing` | `_paced_search` | per worker its step; the last end recorded | `SiteIsNotHammered`: half the delay at least between two searches, after failures and retries as well | 2 workers, delay 2 |
| `QueueLanes` | the ordering of `claim_crawl_queue_batch`, the saves and hand-backs | per row priority, request time, place in its lane | `ServedInTurn`: a claim leaves nobody behind who should go before | 3 rows, batches of 2, 3 moments |
| `StrandedClaim` | `_queue_stranded_after_seconds`, `reclaim_stranded_crawl_queue_rows` | a claim's age, its crawlers at the start and left, the crawlers enabled now | `SlackKeepsLivePasses`: a paced pass is cut short only if the enabled crawlers fell by more than the slack | 5 crawlers, ages to 11, so that floor and pass time both decide |
| `PriceDrops` | `_price_floors`, `replace_stock_items` and the release path, `get_price_drop_feed`, the mark-read route | prices, writers in mid-transaction, drops, the watermark, what each tab shows | `AllTimeLowIsReported`: no all-time low goes unrecorded; `LostOnlyToOvertaking`: a drop is read unseen only if a later number committed first | 2 sources, 3 prices, 3 writes, 2 tabs, 2 reads |
| `ConfigCache` | `load_config`, `save_config`, `migrate_legacy_config` | the row's version, per process the cache, its generation, calls under way | `ReadsItsWrites`, `MigratedOnce` | 2 processes, 2 calls each, 2 versions, 2 loads |
| `EventStream` | `_broadcast`, `_broadcast_listing_changed`, `stream_events` | the kept events, queues, what each client was sent and is owed | `StreamHasNoGap`: replay and live events join without gap or repetition, while the listing changes between them take numbers and are kept nowhere | 2 clients of 2 users, 3 events, 2 kept |
| `SignIn` | `routers/session.py`, the redemption in `db.py` | handshakes, pending sign-ups, users, the limiter | `SignupMadeUser`: a sign-up that is gone in time made its user | 3 handshakes of 2 accounts, 1 invite, 2 redeemers, a fault |
| `LogQueue` | `logging_config.py` | queue, batches being inserted, the table | `StopLosesNothing`: what was accepted before the stop is stored, cleared, reported as dropped, or with a flush that hangs | queue of 2, 4 records |
| `CatalogWalk` | `iter_products`, `get_with_retry`, 17 crawlers | page, products left, tallies; what was read, in marks | `ReplacedOnlyByTheCatalog`, `SoldOutIsBelieved` | all 17 crawlers, any 3 products, 2 pages, up to 2 variants each |

**Proofs** (`StoreProofs`, `WorkerProofs`, `ServiceProofs`, with `DataLemmas`). Each of
these properties is a theorem for every value of the constants, from an inductive
invariant that follows the actors one by one:

| theorem | states | the invariant, and why it is needed |
|---|---|---|
| `NoUnsyncedStoreIsForgotten`, `SnapshotsFollowTheKind` | `ResumeCoversUnsynced`, `NoSnapshotOutlivesKind` | `StockInv`: what a run of each scope has in hand (`RunShape`). A run that replaces the pending resume must carry what that one covered |
| `CountsAreTheLastFailures` | `CountsFollowArrival` | `BreakerInv`: the queue of a domain's lock is the end of the history of its results, and each count the number, wrapped at the limit, of failures that end what has left the lock |
| `GapIsKept` | `SiteIsNotHammered` | `PaceInv`: from the moment a search is over, `nextAllowed` keeps its gap, and only the holder of the site's lock searches |
| `ClaimsGoInTurn` | `ServedInTurn` | `LaneInv`: a row that waits or is held tells when and how it was asked for. Then the claim's order follows the turns, and a row's rank in the batch follows that order |
| `SlackIsEnough` | `SlackKeepsLivePasses` | `StrandInv` is the property with its types; the work is arithmetic: a pass no older than its crawlers take, and older than the threshold, began with more crawlers than the slack times those enabled now |
| `NoAllTimeLowIsMissed`, `DropsAreReadOrOvertaken` | `AllTimeLowIsReported`, `LostOnlyToOvertaking` | `DropInv`: each number is drawn once, a floor a writer read is a price that stood when it began, and whatever is read, or will be when a tab marks what it shows, was in a feed or overtaken |
| `OwnWritesAreRead`, `OneMigration` | `ReadsItsWrites`, `MigratedOnce` | `ConfigInv`: a cache and the reads under way against the writes their process has finished; the migration's lock |
| `NothingFallsBetween` | `StreamHasNoGap` | `EventInv`: per client what was sent, what is to replay and what is queued are ascending, one before the other, and together what is owed |
| `NoGrantIsBurnt`, `AccountsAreCreatedOnce` | `SignupMadeUser`; no two redemptions hold one sign-up or create one account | `SignInInv`: whose sign-up and whose account is in whose hands |
| `StopKeepsTheLog` | `StopLosesNothing` | `LogInv`: where a record may be at each step of the writer and of the stop |
| `NoListingIsTakenOnTrust`, `TheSoldOutAreBelieved` | `ReplacedOnlyByTheCatalog`, `SoldOutIsBelieved` | `WalkInv`: the tallies and marks are those of some set of products, see below |

The assumptions are the named ones of the modules: bounds are numbers, the stores and
the queue's rows are finitely many, a feed holds one drop at least (`Query(ge=1)` in
`routers/notifications.py`), `Empty` is no number and no process. The bounds of the runs
are constants of the theorems, so the proofs cover every number of starts, results,
writes, reads and faults. `DataLemmas` says what the proofs use of sequences, minima,
remainders and induction: the library's induction theorems take an operator, so
`NatInduct` takes the set of the numbers the predicate holds of, and follows from the least
number principle. It carries the one recursive function of the models, `VisibleIn` of
`EventStream` (the events of a sequence that a user may see).

**The catalog walks.** `CatalogProduct` is a product as a payload may hold it, any of its
fields lost (`Lost`); `UntypedShops` and `TypedShops` say, crawler by crawler, which
variants it sells records from, when it yields rows, what it tallies, and which tallies
make the finished walk raise. `CatalogWalk` fetches pages and reads any products of at most two variants:
nothing else is assumed of what a store lists. Titles, prices and tags are reduced to how they
read. A string field that is retyped reads as missing where the crawler goes through
`_text`, and makes it raise in mid-walk where it does not, which is one more way for a walk
to fail. The order of the guards decides only the message.

What a finished walk may be believed to say depends on what its guards notice, which three
tables list per crawler: `Noticed`, the losses they blame a single product for; `Missed`,
those for which the crawler may pass over a product without a word; `NoticedAll`, those of
the missed ones that they notice when no product kept the field. The properties say what
follows:

- `ReplacedOnlyByTheCatalog`: a walk without rows is only believed if no product it read
  may be a record with a copy to sell, *except* one with a loss in `Missed`; and some
  product kept each field in `NoticedAll`. One with rows has some price.
- `SoldOutIsBelieved`: once one record without a loss was read, the guards refuse the walk
  only for a loss in `Noticed`, or for a product they misread (`Misread`). CDs among the
  variants, Shopify's placeholder, products that are no records and losses the crawler does
  not look at are no reason.
- `EmptyMeansSoldOut`: what the comments promise of the first one, without the exception.
  It fails (run `sold_out_vouches`).

| loss on one product | crawlers that may pass over it (`Missed`) |
|---|---|
| `product_type` or the tags that say it is vinyl | bellaunion, theflenser, monorailmusic, translationloss, matadorrecords, counterintuitiverecords, iodinerecords, musiconvinyl, spkr, rhino |
| the title | earache (91), iodinerecords, spkr (104, 129) |
| the artist in the title | earache, theflenser, iodinerecords, revolver, spkr |
| the vendor or the tag with the artist | matadorrecords, musiconvinyl (61, 89), rhino (61); counterintuitiverecords where the title has none either |
| all variants | matadorrecords, counterintuitiverecords, iodinerecords |
| a variant's name | earache (246), matadorrecords, counterintuitiverecords, iodinerecords (257), spkr (244) |
| a variant that is no mapping | these five, musiconvinyl (208), rhino (242) |
| the name of a variant, the placeholder in its place | earache, counterintuitiverecords, iodinerecords, revolver, spkr |

The five others miss none of these: joyfulnoiserecordings, xlrecordings,
dongiovannirecords, sacredbonesrecords and lenoise. `Misread` is a product without a loss
that is to blame all the same: at spkr a Vinyl that has only variants of another
medium (lines 108 and 276: no pressing, so no readable flag; the comment at 95 speaks of
products with "a variant the gate admits"), at xlrecordings an available placeholder. Such a
product makes a sold-out walk raise, and the last snapshot stays.

The two theorems about the walk hold for any number of products, pages and retries; a
product has at most two variants, as in the model. A crawler's guards are statements
about its tallies, so the proof puts them in tables: the tallies that must be zero
(`Blames`), those without which no result counts (`Musts`) and those every record without a
loss adds to (`Shows`); one lemma per crawler (`...Guards`) proves the table is what its
guards say. Then everything is about one product at a time. A product that may be a record
with a copy to sell, and lost nothing in `Missed`, yields a row or adds to a tally in
`Blames` (`...Live`); a product that lost a field in `NoticedAll` does not add to one of the
tallies in `Musts` (`...Drift`): so a walk that is believed without rows met no such product,
and one that kept the field. A product that lost nothing in `Noticed`, and is not misread,
adds to nothing in `Blames` (`...Sound`), and a record without a loss to all of `Shows`
(`...Shown`): so a walk that is refused after such a record read one that is to blame.

Notes on what these models show of the code:

- Two sources that set the first two prices of a record at the same time record no drop,
  whichever is lower; the docstring of `_price_floors` ("concurrency can only ever add a
  drop") holds for prices that undercut a common floor.
- The comment in `replace_stock_items` fears that a floor read after the delete would
  report the whole catalog as cheaper. A record without a floor records no drop: what such
  a bug loses is drops.
- A resume is cancelled by a full run because every store was "just visited"; a store that
  was cooling or disabled was not, and waits for the next scheduled sync.
- A save on a row in a worker's hands joins the expedited lane with the place the row had
  before.
- Releases precede stock rows among routine work, so nothing promises routine stock rows
  service while releases keep coming (`db.py` 2967, a documented cost); no property claims
  it.
- A mass disabling in mid-pass does cut live passes short; `SlackKeepsLivePasses` says how
  much the slack absorbs.
- A log clear does not reach the batch its own writer has already drained, which is
  inserted after it. The log stream pages by id while ids become visible at commit, the
  ordering of `drops_overtaken` again (`routers/logs.py` 60); it is not modelled.
- Switching `crawl_library_only` reads the old value and saves the new one in two steps
  (`routers/settings.py` 78); two such requests may both see the edge.

## Where comments and code disagree

1. `backend/crawl_manager.py:1523` says of a lost claim that another instance took
   the run over and does the work now, and the user is told so. A worker whose
   own claim merely expired takes the same path, and nobody may be doing the work.
2. `backend/crawl_manager.py:855` says that an answer of False means the run was
   demonstrably not this worker's to close. If the first attempt commits and the
   answer is lost, the second is refused by the worker's own close: a completed
   sync is announced as taken over, and its stock rows are not restored.
3. `backend/db.py:2445` says that a holder of the reconciliation lock can only wait
   for rows and that the wait-for graph cannot close. A stock sync enqueues a
   store's items in one transaction, in the order of the snapshot and without the
   lock: it and a sweep may each hold a row the other waits for
   (run `reconcile_cycle`).
4. `backend/db.py:2722` says that with `crawl_library_only` off every live item
   already has a row, and `crawl_manager.py:873` skips the restore for that reason.
   Disabling a store deletes its pending rows and enabling it brings none back
   before the next stock sync.
5. `backend/db.py:2467` says that skipping a row a sync holds loses nothing, since
   the sync re-enqueues it. The page may roll back, and the row stays done.
6. `backend/db.py:4883` and `routers/notifications.py:25` say that a drop which was never
   delivered cannot count as read. Drops take their numbers when they are inserted and
   appear when their transaction commits: the user may mark read through a later number
   before an earlier one appears (run `drops_overtaken`: 2 sources, 1 tab).

7. `backend/crawlers/spkr.py:155` says that an empty result is only trusted when every
   product that could have yielded a row was readable and out of stock, and that one
   sold-out product must not vouch for a catalog that has gone unreadable;
   `rhino.py:116` says the same. Twelve crawlers pass over a product for a loss that no
   guard counts on a single product (the table above), and one sold-out record then
   vouches for it (run `sold_out_vouches`: spkr, a record in stock whose title lost the
   artist, and a sold-out one). `rhino.py:94` admits one such gap, a partial rename of the
   product type.
8. `backend/crawlers/spkr.py:95` says that only a product with a variant the gate admits says
   anything of an empty result. `_has_readable_stock_flag` is false of no variants, so that
   a Vinyl product with only a CD variant makes the walk of a sold-out store raise
   (`Misread`).

3, 6 and 7 are runs that TLC refutes. 1, 2, 4, 5 and 8 are behaviours of the models above,
of which no run makes a property.

## What is only model-checked

Liveness, and whatever depends on ENABLED, is out of the prover's reach:
`QueueDrains`, `UserCanSync` and `UserCanJudge` are checked by TLC on the instances
above, and nowhere else. Every safety property that a passing run checks is proved, without
a hypothesis but the assumptions on the constants. What the proofs say of the models they
say for every value of the constants; that a model is what the code does rests on reading
both.

## What is not modelled

- The 64 other crawlers: parsing of external pages, seen as the outcomes of a search.
- Queue reporting: read-only SQL that nothing acts on.
- Normalisation of titles and record keys: the models take what a listing folds to.
- The Discogs and eBay clients: sequential retry loops around network calls; the catalog
  walk models the one whose failures decide about a snapshot.
- Session expiry, cookies, encryption and the middleware; single use of an invite.
- What matches what in Plex, prompts and answers of the model, discovery queries.
- The frontend, start-up wiring, deployment and one-off scripts.
