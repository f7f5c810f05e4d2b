----------------------------- MODULE CrawlQueue -----------------------------
(***************************************************************************)
(* The shared crawl queue and the worker pools that drain it.              *)
(*                                                                         *)
(* A row of crawl_queue is one target: a release, or a stock item.  It     *)
(* names no crawler; pending_crawler_ids narrows it after a deferral or a  *)
(* backfill.  Every Machine runs a pool of workers; a worker reclaims      *)
(* stranded rows and claims a batch in one transaction, then crawls each   *)
(* row with every eligible crawler and resolves the row as done or hands   *)
(* it back narrowed to the crawlers whose site was cooling down.           *)
(*                                                                         *)
(* One action is one database transaction, or one uninterrupted stretch of *)
(* a worker's coroutine between two awaits.  Time is left to flags: a row  *)
(* "due" has available_at in the past, a row "stranded" has a claimed_at   *)
(* older than _queue_stranded_after_seconds.  NULL pending_crawler_ids     *)
(* ("everything eligible") is the full set Crawler: both are only ever     *)
(* intersected with the eligible crawlers.  The order in which rows are    *)
(* claimed and walked is left open here; QueueLanes models it.             *)
(***************************************************************************)
EXTENDS Naturals, FiniteSets

CONSTANTS
    Machine,            \* the app processes (Fly Machines) sharing one database
    Slot,               \* the indexes of the workers in a Machine's pool
    Crawler,            \* the registered marketplace crawlers
    Release,            \* catalog releases (crawl_queue.discogs_id)
    Item,               \* stock items (crawl_queue.item_key)
    RequiresRelease,    \* crawlers that can only price a release
    Unloaded,           \* crawlers whose module failed to load at boot
    BatchSize,          \* QUEUE_CLAIM_BATCH_SIZE
    MaxRequests,        \* bound on the requests that write the queue
    MaxStops,           \* bound on orderly pool shutdowns
    MaxOverruns,        \* bound on live passes that outlast the stranded threshold
    MaxFaults,          \* bound on crashes and escaped exceptions
    NULL

Target == Release \cup Item
Worker == Machine \X Slot

ASSUME QueueAssumption ==
    /\ Release \cap Item = {}
    /\ RequiresRelease \subseteq Crawler
    /\ Unloaded \subseteq Crawler
    /\ BatchSize \in Nat \ {0}
    /\ MaxRequests \in Nat /\ MaxStops \in Nat
    /\ MaxOverruns \in Nat /\ MaxFaults \in Nat
    /\ NULL \notin Worker /\ NULL \notin Target /\ NULL \notin Crawler

VARIABLES
    queue,       \* the crawl_queue table: target -> row
    priced,      \* listings with a price: target -> crawlers
    enabled,     \* crawlers.enabled
    marketplace, \* crawlers of kind 'release'
    enabling,    \* crawlers whose toggle committed and whose backfill has not run
    crawlable,   \* stock items _stock_item_crawlable accepts
    pool,        \* each Machine's pool: running, stopping, down
    cooling,     \* each Machine's crawlers in circuit-breaker cooldown
    pc,          \* where each worker stands
    claimed,     \* rows of its batch a worker has not resolved to units yet
    snapshot,    \* their pending_crawler_ids as the claim returned them
    todo,        \* rows of its batch with units, or a resolution, still to run
    units,       \* the crawlers still to run, per row
    deferred,    \* the crawlers this pass skipped because they cool down
    current,     \* the row being crawled
    unit,        \* the crawler being searched
    result,      \* what the search returned
    debt,        \* history: crawlers a target was promised and has not had
    superseded,  \* history: <<w, t>> where another worker claimed t under w
    requests, stops, overruns, faults

tables == <<queue, priced, enabled, marketplace, enabling, crawlable>>
process == <<pool, cooling>>
local == <<pc, claimed, snapshot, todo, units, deferred, current, unit, result>>
history == <<debt, superseded>>
bounds == <<requests, stops, overruns, faults>>
vars == <<tables, process, local, history, bounds>>

-----------------------------------------------------------------------------
(* Rows. *)

Status == {"absent", "pending", "in_progress", "done"}

Row == [status : Status, claimed_by : Worker \cup {NULL},
        pending : SUBSET Crawler, due : BOOLEAN, stranded : BOOLEAN]

Absent == [status |-> "absent", claimed_by |-> NULL,
           pending |-> {}, due |-> FALSE, stranded |-> FALSE]

\* A fresh request for the crawlers in cs: an insert, or the revival of a done row.
Requested(cs) == [status |-> "pending", claimed_by |-> NULL,
                  pending |-> cs, due |-> TRUE, stranded |-> FALSE]

\* Mutant of HandBack: the row goes back, its holder stays on it.
HandBackKeepsHolder(row) == [row EXCEPT !.status = "pending", !.stranded = FALSE]

\* What revert and reclaim do: the columns a claim wrote, and nothing else.
HandBack(row) ==
    [row EXCEPT !.status = "pending", !.claimed_by = NULL, !.stranded = FALSE]

Rows(status) == {t \in Target : queue[t].status = status}

\* Worker ids are namespaced by Machine, so no two workers share one.
WorkerId(w) == w

\* Mutant of ClaimHeld: somebody holds the row.
ClaimedAtAll(w, t) == queue[t].claimed_by # NULL

ClaimHeld(w, t) == queue[t].claimed_by = WorkerId(w)

\* get_eligible_crawlers, for a row whose pending_crawler_ids are cs.
Eligible(t, cs) ==
    {c \in cs \cap enabled \cap marketplace : t \in Release \/ c \notin RequiresRelease}

\* Mutant of Dead: rows being crawled are swept with the waiting ones.
DeadOrClaimed(q, live) == {i \in Item \ live : q[i].status \in {"pending", "in_progress"}}

\* delete_dead_stock_crawl_queue_rows: pending stock rows nothing can claim.
Dead(q, live) == {i \in Item \ live : q[i].status = "pending"}
Swept(q, live) == [t \in Target |-> IF t \in Dead(q, live) THEN Absent ELSE q[t]]
SweptDebt(d, q, live) == [t \in Target |-> IF t \in Dead(q, live) THEN {} ELSE d[t]]

-----------------------------------------------------------------------------
(* Requests: what syncs, users and administrators write. *)

Request == requests < MaxRequests /\ requests' = requests + 1

\* enqueue_crawl_queue and enqueue_crawl_queue_for_stock_item: insert, or revive
\* a done row; pending and in-progress rows are left alone.
Enqueue(t) ==
    /\ Request
    /\ t \in Release \/ t \in crawlable
    /\ queue[t].status \in {"absent", "done"}
    /\ queue' = [queue EXCEPT ![t] = Requested(Crawler)]
    /\ debt' = [debt EXCEPT ![t] = Crawler]
    /\ UNCHANGED <<priced, enabled, marketplace, enabling, crawlable, process,
                   local, superseded, stops, overruns, faults>>

\* enqueue_crawl_queue_for_saved_stock_item on a row that waits: widened to every
\* crawler, its cooldown deadline kept.  On an absent or done row a save is an
\* Enqueue; on an in-progress row it moves the priority only.
SaveStockItem(i) ==
    /\ Request
    /\ i \in crawlable
    /\ queue[i].status = "pending"
    /\ queue' = [queue EXCEPT ![i].pending = Crawler]
    /\ debt' = [debt EXCEPT ![i] = Crawler]
    /\ UNCHANGED <<priced, enabled, marketplace, enabling, crawlable, process,
                   local, superseded, stops, overruns, faults>>

\* update_crawler, first transaction of the enable path: the toggle alone.
EnableCrawler(c) ==
    /\ Request
    /\ c \notin enabling
    /\ enabled' = enabled \cup {c}
    /\ enabling' = enabling \cup {c}
    /\ UNCHANGED <<queue, priced, marketplace, crawlable, process, local, history,
                   stops, overruns, faults>>

\* The rows backfill_crawl_queue_for_crawler revives and those it widens.
Unpriced(c) == {t \in Rows("done") : c \notin priced[t]
                                     /\ (t \in Release \/ c \notin RequiresRelease)}
Narrowed(c) == {t \in Rows("pending") : c \notin queue[t].pending}

\* Rows locked by another transaction are skipped, never waited for.
Backfilled(c, locked) ==
    [t \in Target |->
        CASE t \in Unpriced(c) \ locked -> Requested({c})
          [] t \in Narrowed(c) \ locked ->
                [queue[t] EXCEPT !.pending = @ \cup {c}, !.due = TRUE]
          [] OTHER -> queue[t]]

BackfilledDebt(c, locked) ==
    [t \in Target |->
        IF t \in (Unpriced(c) \cup Narrowed(c)) \ locked THEN debt[t] \cup {c} ELSE debt[t]]

\* update_crawler, second transaction of the enable path: backfill and sweep.
Backfill(c, locked) ==
    /\ c \in enabling
    /\ enabling' = enabling \ {c}
    /\ LET q == IF c \in marketplace THEN Backfilled(c, locked) ELSE queue
           d == IF c \in marketplace THEN BackfilledDebt(c, locked) ELSE debt
       IN  /\ queue' = Swept(q, crawlable)
           /\ debt' = SweptDebt(d, q, crawlable)
    /\ UNCHANGED <<priced, enabled, marketplace, crawlable, process, local,
                   superseded, bounds>>

\* The lock timeout: the backfill is skipped and the toggle stays.
BackfillSkipped(c) ==
    /\ c \in enabling
    /\ enabling' = enabling \ {c}
    /\ UNCHANGED <<queue, priced, enabled, marketplace, crawlable, process, local,
                   history, bounds>>

\* update_crawler, disable path: toggle and sweep in one transaction.
DisableCrawler(c) ==
    /\ Request
    /\ c \in enabled
    /\ enabled' = enabled \ {c}
    /\ queue' = Swept(queue, crawlable)
    /\ debt' = SweptDebt(debt, queue, crawlable)
    /\ UNCHANGED <<priced, marketplace, enabling, crawlable, process, local,
                   superseded, stops, overruns, faults>>

\* register_crawler on a newer deploy, 'release' to a catalog kind: the release-era
\* listings go with the kind.
ConvertToCatalog(c) ==
    /\ Request
    /\ c \in marketplace
    /\ marketplace' = marketplace \ {c}
    /\ priced' = [t \in Target |-> priced[t] \ {c}]
    /\ queue' = Swept(queue, crawlable)
    /\ debt' = SweptDebt(debt, queue, crawlable)
    /\ UNCHANGED <<enabled, enabling, crawlable, process, local, superseded,
                   stops, overruns, faults>>

\* register_crawler, a catalog kind to 'release': its catalog snapshot is deleted,
\* and an enabled crawler is backfilled.
ConvertToRelease(c, locked, unlisted) ==
    /\ Request
    /\ c \notin marketplace
    /\ marketplace' = marketplace \cup {c}
    /\ crawlable' = crawlable \ unlisted
    /\ LET q == IF c \in enabled THEN Backfilled(c, locked) ELSE queue
           d == IF c \in enabled THEN BackfilledDebt(c, locked) ELSE debt
       IN  /\ queue' = Swept(q, crawlable')
           /\ debt' = SweptDebt(d, q, crawlable')
    /\ UNCHANGED <<priced, enabled, enabling, process, local, superseded,
                   stops, overruns, faults>>

\* A stock sync, a save or a removal changes which items are worth a crawl.
StockChanges(i) ==
    /\ Request
    /\ crawlable' = IF i \in crawlable THEN crawlable \ {i} ELSE crawlable \cup {i}
    /\ UNCHANGED <<queue, priced, enabled, marketplace, enabling, process, local,
                   history, stops, overruns, faults>>

\* The sweep that ends a stock sync.
SweepDeadRows ==
    /\ Dead(queue, crawlable) # {}
    /\ queue' = Swept(queue, crawlable)
    /\ debt' = SweptDebt(debt, queue, crawlable)
    /\ UNCHANGED <<priced, enabled, marketplace, enabling, crawlable, process, local,
                   superseded, bounds>>

-----------------------------------------------------------------------------
(* The workers. *)

MachineOf(w) == w[1]

\* Every row of a worker's batch that it has not finished with.
InHand(w) == claimed[w] \cup todo[w]

\* Mutants of Reclaimable: claims of any age, and none.
AnyClaim == Rows("in_progress")
NoClaim == {}

\* The rows reclaim_stranded_crawl_queue_rows hands back: age is all it goes by.
Reclaimable == {t \in Rows("in_progress") : queue[t].stranded}

\* _drain_one_batch, the claim: reclaim_stranded_crawl_queue_rows, then
\* claim_crawl_queue_batch, in one transaction.  Locked rows are skipped.
Claim(w, batch) ==
    LET waiting == [t \in Target |->
                       IF t \in Reclaimable THEN HandBack(queue[t]) ELSE queue[t]]
        claimable == {t \in Target : /\ waiting[t].status = "pending"
                                     /\ waiting[t].due
                                     /\ t \in Release \cup crawlable}
    IN  /\ pool[MachineOf(w)] = "running" /\ pc[w] = "idle"
        /\ batch \subseteq claimable /\ Cardinality(batch) <= BatchSize
        /\ batch # {} \/ (claimable = {} /\ Reclaimable # {})
        /\ queue' = [t \in Target |->
                        IF t \in batch
                        THEN [waiting[t] EXCEPT !.status = "in_progress",
                                                !.claimed_by = WorkerId(w)]
                        ELSE waiting[t]]
        /\ pc' = [pc EXCEPT ![w] = IF batch = {} THEN "idle" ELSE "claimed"]
        /\ claimed' = [claimed EXCEPT ![w] = batch]
        /\ snapshot' = [snapshot EXCEPT ![w] =
                           [t \in Target |-> IF t \in batch THEN queue[t].pending ELSE {}]]
        /\ superseded' = superseded \cup
               {p \in Worker \X batch : p[1] # w /\ p[2] \in InHand(p[1])}
        /\ UNCHANGED <<priced, enabled, marketplace, enabling, crawlable, process,
                       todo, units, deferred, current, unit, result, debt, bounds>>

\* Mutant of Reverted: the cancelled claim is forgotten.
Kept(w) == queue

\* revert_crawl_queue_claim: gated on the ids alone, not on who holds the rows.
Reverted(w) ==
    [t \in Target |-> IF t \in claimed[w] /\ queue[t].status # "absent"
                      THEN HandBack(queue[t]) ELSE queue[t]]

\* The claim was cancelled while its transaction committed.
RevertClaim(w) ==
    /\ pc[w] = "claimed" /\ pool[MachineOf(w)] = "stopping"
    /\ queue' = Reverted(w)
    /\ pc' = [pc EXCEPT ![w] = "idle"]
    /\ claimed' = [claimed EXCEPT ![w] = {}]
    /\ snapshot' = [snapshot EXCEPT ![w] = [t \in Target |-> {}]]
    /\ superseded' = {p \in superseded : p[1] # w}
    /\ UNCHANGED <<priced, enabled, marketplace, enabling, crawlable, process,
                   todo, units, deferred, current, unit, result, debt, bounds>>

\* The await returned: from here the batch is shielded from cancellation.
BeginBatch(w) ==
    /\ pc[w] = "claimed" /\ pool[MachineOf(w)] = "running"
    /\ pc' = [pc EXCEPT ![w] = "resolving"]
    /\ UNCHANGED <<tables, process, claimed, snapshot, todo, units, deferred,
                   current, unit, result, history, bounds>>

\* _process_claimed_rows, first pass: one row's eligible crawlers, read live.
ResolveTarget(w, t) ==
    /\ pc[w] = "resolving" /\ t \in claimed[w]
    /\ LET eligible == Eligible(t, snapshot[w][t])
       IN  /\ units' = [units EXCEPT ![w][t] = eligible]
           /\ debt' = IF ClaimHeld(w, t)
                      THEN [debt EXCEPT ![t] = @ \cap Eligible(t, Crawler)] ELSE debt
    /\ claimed' = [claimed EXCEPT ![w] = @ \ {t}]
    /\ snapshot' = [snapshot EXCEPT ![w][t] = {}]
    /\ todo' = [todo EXCEPT ![w] = @ \cup {t}]
    /\ pc' = [pc EXCEPT ![w] = IF claimed[w] = {t} THEN "units" ELSE "resolving"]
    /\ UNCHANGED <<tables, process, deferred, current, unit, result, superseded, bounds>>

\* Rows without a unit are resolved before the first unit runs.
Bare(w) == {t \in todo[w] : units[w][t] = {}}

\* The unit loop is target-major: a row's units run one after the other.
Turn(w, t) ==
    /\ pc[w] = "units"
    /\ \/ current[w] = t
       \/ current[w] = NULL /\ Bare(w) = {} /\ t \in todo[w]

\* A unit is over; its row is resolved after its last one.
UnitDone(w, t, c) ==
    /\ units' = [units EXCEPT ![w][t] = @ \ {c}]
    /\ current' = [current EXCEPT ![w] = t]
    /\ unit' = [unit EXCEPT ![w] = NULL]
    /\ result' = [result EXCEPT ![w] = NULL]
    /\ pc' = [pc EXCEPT ![w] = IF units[w][t] = {c} THEN "settling" ELSE "units"]

\* The pass is over for one row; the batch ends with its last row.
RowDone(w, t) ==
    /\ todo' = [todo EXCEPT ![w] = @ \ {t}]
    /\ units' = [units EXCEPT ![w][t] = {}]
    /\ deferred' = [deferred EXCEPT ![w][t] = {}]
    /\ current' = [current EXCEPT ![w] = NULL]
    /\ unit' = [unit EXCEPT ![w] = NULL]
    /\ result' = [result EXCEPT ![w] = NULL]
    /\ pc' = [pc EXCEPT ![w] = IF todo[w] = {t} THEN "idle" ELSE "units"]

\* _record_site_result, seen from the queue: a failure may start a cooldown.
SiteResult(m, c, failed) ==
    \/ UNCHANGED cooling
    \/ failed /\ cooling' = [cooling EXCEPT ![m] = @ \cup {c}]

\* A crawler was run for the row by the worker that holds it.
Attempted(w, t, c) ==
    debt' = IF ClaimHeld(w, t) THEN [debt EXCEPT ![t] = @ \ {c}] ELSE debt

\* The crawler's module failed to load: a site failure, never a deferral.
SkipUnloaded(w, t, c) ==
    /\ Turn(w, t) /\ c \in units[w][t] /\ c \in Unloaded
    /\ UnitDone(w, t, c)
    /\ SiteResult(MachineOf(w), c, TRUE)
    /\ Attempted(w, t, c)
    /\ UNCHANGED <<tables, pool, claimed, snapshot, todo, deferred, superseded, bounds>>

\* The crawler's site cools down: the unit is put off, nothing waits for it.
DeferUnit(w, t, c) ==
    /\ Turn(w, t) /\ c \in units[w][t] \ Unloaded
    /\ c \in cooling[MachineOf(w)]
    /\ UnitDone(w, t, c)
    /\ deferred' = [deferred EXCEPT ![w][t] = @ \cup {c}]
    /\ UNCHANGED <<tables, process, claimed, snapshot, todo, history, bounds>>

StartSearch(w, t, c) ==
    /\ Turn(w, t) /\ c \in units[w][t] \ Unloaded
    /\ c \notin cooling[MachineOf(w)]
    /\ pc' = [pc EXCEPT ![w] = "searching"]
    /\ current' = [current EXCEPT ![w] = t]
    /\ unit' = [unit EXCEPT ![w] = c]
    /\ UNCHANGED <<tables, process, claimed, snapshot, todo, units, deferred, result,
                   history, bounds>>

\* _paced_search raised: a site failure, no result to write.
SearchFails(w) ==
    /\ pc[w] = "searching"
    /\ UnitDone(w, current[w], unit[w])
    /\ SiteResult(MachineOf(w), unit[w], TRUE)
    /\ Attempted(w, current[w], unit[w])
    /\ UNCHANGED <<tables, pool, claimed, snapshot, todo, deferred, superseded, bounds>>

\* _paced_search returned: matches, nothing, or nothing after a bot interstitial.
\* An interstitial counts against the site, and so may a release it does not have.
SearchReturns(w, outcome, bot) ==
    /\ pc[w] = "searching"
    /\ outcome = "found" \/ (outcome = "blocked" <=> bot)
    /\ pc' = [pc EXCEPT ![w] = "writing"]
    /\ result' = [result EXCEPT ![w] = outcome]
    /\ SiteResult(MachineOf(w), unit[w], bot \/ (outcome = "empty" /\ current[w] \in Release))
    /\ UNCHANGED <<tables, pool, claimed, snapshot, todo, units, deferred, current, unit,
                   history, bounds>>

\* _write_result, refused because the row was reclaimed during the search.  The
\* row is dropped without a resolution when this was its last unit.
ResultReclaimed(w) ==
    LET t == current[w] IN
    /\ pc[w] = "writing" /\ ~ClaimHeld(w, t)
    /\ IF units[w][t] = {unit[w]}
       THEN RowDone(w, t) /\ superseded' = superseded \ {<<w, t>>}
       ELSE UnitDone(w, t, unit[w]) /\ UNCHANGED <<todo, deferred, superseded>>
    /\ UNCHANGED <<tables, process, claimed, snapshot, debt, bounds>>

\* Mutant of Listings: the kind the crawler had at dispatch is good enough.
ListingsOfAnyKind(t, c, outcome) ==
    IF outcome = "found" THEN priced[t] \cup {c} ELSE priced[t]

\* The listings of t once the search of c is written: replaced by what was found,
\* deleted if nothing was, untouched after an interstitial.  A stock item's search
\* writes only what it found; a crawler converted meanwhile writes nothing.
Listings(t, c, outcome) ==
    IF c \notin marketplace THEN priced[t]
    ELSE IF outcome = "found" THEN priced[t] \cup {c}
    ELSE IF outcome = "empty" /\ t \in Release THEN priced[t] \ {c}
    ELSE priced[t]

\* _write_result: the claim and the crawler's kind are read in the transaction that
\* writes.
WriteResult(w) ==
    LET t == current[w]
        c == unit[w]
    IN  /\ pc[w] = "writing" /\ ClaimHeld(w, t)
        /\ priced' = [priced EXCEPT ![t] = Listings(t, c, result[w])]
        /\ UnitDone(w, t, c)
        /\ Attempted(w, t, c)
        /\ UNCHANGED <<queue, enabled, marketplace, enabling, crawlable, process,
                       claimed, snapshot, todo, deferred, superseded, bounds>>

\* Mutant of Resolved: a deferral is taken for a completion.
DoneRegardless(row, m, put_off) == [row EXCEPT !.status = "done", !.stranded = FALSE]

\* resolve_row: mark_crawl_queue_done, or defer_crawl_queue_row until the first
\* of the deferred crawlers is workable again.
Resolved(row, m, put_off) ==
    IF put_off = {} THEN [row EXCEPT !.status = "done", !.stranded = FALSE]
    ELSE [row EXCEPT !.status = "pending", !.claimed_by = NULL, !.stranded = FALSE,
                     !.pending = put_off, !.due = put_off \cap cooling[m] = {}]

ResolveRow(w, t) ==
    /\ \/ pc[w] = "settling" /\ current[w] = t
       \/ pc[w] = "units" /\ current[w] = NULL /\ t \in Bare(w)
    /\ queue' = IF ClaimHeld(w, t)
                THEN [queue EXCEPT ![t] = Resolved(@, MachineOf(w), deferred[w][t])]
                ELSE queue
    /\ RowDone(w, t)
    /\ superseded' = superseded \ {<<w, t>>}
    /\ UNCHANGED <<priced, enabled, marketplace, enabling, crawlable, process,
                   claimed, snapshot, debt, bounds>>

-----------------------------------------------------------------------------
(* Shutdown, faults and time. *)

Fault == /\ faults < MaxFaults /\ faults' = faults + 1
         /\ UNCHANGED <<requests, stops, overruns>>

\* The workers in ws lose what they held in memory.
Forget(ws) ==
    /\ pc' = [w \in Worker |-> IF w \in ws THEN "idle" ELSE pc[w]]
    /\ claimed' = [w \in Worker |-> IF w \in ws THEN {} ELSE claimed[w]]
    /\ snapshot' = [w \in Worker |-> IF w \in ws THEN [t \in Target |-> {}] ELSE snapshot[w]]
    /\ todo' = [w \in Worker |-> IF w \in ws THEN {} ELSE todo[w]]
    /\ units' = [w \in Worker |-> IF w \in ws THEN [t \in Target |-> {}] ELSE units[w]]
    /\ deferred' = [w \in Worker |-> IF w \in ws THEN [t \in Target |-> {}] ELSE deferred[w]]
    /\ current' = [w \in Worker |-> IF w \in ws THEN NULL ELSE current[w]]
    /\ unit' = [w \in Worker |-> IF w \in ws THEN NULL ELSE unit[w]]
    /\ result' = [w \in Worker |-> IF w \in ws THEN NULL ELSE result[w]]
    /\ superseded' = {p \in superseded : p[1] \notin ws}

\* stop_worker_pool cancels every worker; shielded batches run to their end.
StopPool(m) ==
    /\ stops < MaxStops /\ stops' = stops + 1
    /\ pool[m] = "running"
    /\ pool' = [pool EXCEPT ![m] = "stopping"]
    /\ UNCHANGED <<tables, cooling, local, history, requests, overruns, faults>>

PoolStopped(m) ==
    /\ pool[m] = "stopping"
    /\ \A i \in Slot : pc[<<m, i>>] = "idle"
    /\ pool' = [pool EXCEPT ![m] = "down"]
    /\ cooling' = [cooling EXCEPT ![m] = {}]
    /\ UNCHANGED <<tables, local, history, bounds>>

\* start_worker_pool, in a new process: it remembers no cooldown.
StartPool(m) ==
    /\ pool[m] = "down"
    /\ pool' = [pool EXCEPT ![m] = "running"]
    /\ UNCHANGED <<tables, cooling, local, history, bounds>>

\* The process dies; its claims stay in the table.
Crash(m) ==
    /\ Fault
    /\ pool[m] # "down"
    /\ pool' = [pool EXCEPT ![m] = "down"]
    /\ cooling' = [cooling EXCEPT ![m] = {}]
    /\ Forget({m} \X Slot)
    /\ UNCHANGED <<tables, debt>>

\* An exception escapes _process_claimed_rows (or the revert): _worker_loop logs it
\* and drains on, the rest of the batch stays claimed.
WorkerFails(w) ==
    /\ Fault
    /\ pc[w] # "idle"
    /\ pc[w] = "claimed" => pool[MachineOf(w)] = "stopping"
    /\ Forget({w})
    /\ UNCHANGED <<tables, process, debt>>

InSomeHand(t) == \E w \in Worker : t \in InHand(w) /\ ClaimHeld(w, t)

\* A claim nobody works on outlasts the stranded threshold.
ClaimAges(t) ==
    /\ queue[t].status = "in_progress" /\ ~queue[t].stranded
    /\ ~InSomeHand(t)
    /\ queue' = [queue EXCEPT ![t].stranded = TRUE]
    /\ UNCHANGED <<priced, enabled, marketplace, enabling, crawlable, process, local,
                   history, bounds>>

\* A live pass outlasts it: age cannot tell it from a dead one.
PassRunsLong(t) ==
    /\ overruns < MaxOverruns /\ overruns' = overruns + 1
    /\ queue[t].status = "in_progress" /\ ~queue[t].stranded
    /\ InSomeHand(t)
    /\ queue' = [queue EXCEPT ![t].stranded = TRUE]
    /\ UNCHANGED <<priced, enabled, marketplace, enabling, crawlable, process, local,
                   history, requests, stops, faults>>

RowComesDue(t) ==
    /\ queue[t].status = "pending" /\ ~queue[t].due
    /\ queue' = [queue EXCEPT ![t].due = TRUE]
    /\ UNCHANGED <<priced, enabled, marketplace, enabling, crawlable, process, local,
                   history, bounds>>

CooldownEnds(m, c) ==
    /\ c \in cooling[m]
    /\ cooling' = [cooling EXCEPT ![m] = @ \ {c}]
    /\ UNCHANGED <<tables, pool, local, history, bounds>>

-----------------------------------------------------------------------------

Init ==
    /\ queue = [t \in Target |-> Absent]
    /\ priced = [t \in Target |-> {}]
    /\ enabled = Crawler
    /\ marketplace = Crawler
    /\ enabling = {}
    /\ crawlable = Item
    /\ pool = [m \in Machine |-> "running"]
    /\ cooling = [m \in Machine |-> {}]
    /\ pc = [w \in Worker |-> "idle"]
    /\ claimed = [w \in Worker |-> {}]
    /\ snapshot = [w \in Worker |-> [t \in Target |-> {}]]
    /\ todo = [w \in Worker |-> {}]
    /\ units = [w \in Worker |-> [t \in Target |-> {}]]
    /\ deferred = [w \in Worker |-> [t \in Target |-> {}]]
    /\ current = [w \in Worker |-> NULL]
    /\ unit = [w \in Worker |-> NULL]
    /\ result = [w \in Worker |-> NULL]
    /\ debt = [t \in Target |-> {}]
    /\ superseded = {}
    /\ requests = 0 /\ stops = 0 /\ overruns = 0 /\ faults = 0

Requests ==
    \/ \E t \in Target : Enqueue(t)
    \/ \E i \in Item : SaveStockItem(i) \/ StockChanges(i)
    \/ \E c \in Crawler : EnableCrawler(c) \/ DisableCrawler(c) \/ ConvertToCatalog(c)
    \/ \E c \in Crawler, locked \in SUBSET Target :
          \/ Backfill(c, locked)
          \/ \E unlisted \in SUBSET Item : ConvertToRelease(c, locked, unlisted)
    \/ \E c \in Crawler : BackfillSkipped(c)
    \/ SweepDeadRows

Outcome == {"found", "empty", "blocked"}

Unit(w) ==
    \/ \E t \in Target, c \in Crawler :
          SkipUnloaded(w, t, c) \/ DeferUnit(w, t, c) \/ StartSearch(w, t, c)
    \/ \E outcome \in Outcome, bot \in BOOLEAN : SearchReturns(w, outcome, bot)
    \/ SearchFails(w)
    \/ ResultReclaimed(w)
    \/ WriteResult(w)

Drain(w) ==
    \/ \E batch \in SUBSET Target : Claim(w, batch)
    \/ RevertClaim(w)
    \/ BeginBatch(w)
    \/ \E t \in Target : ResolveTarget(w, t) \/ ResolveRow(w, t)
    \/ Unit(w)

Shutdown == \E m \in Machine : StopPool(m) \/ PoolStopped(m) \/ StartPool(m)

Failures ==
    \/ \E m \in Machine : Crash(m)
    \/ \E w \in Worker : WorkerFails(w)

Time ==
    \/ \E t \in Target : ClaimAges(t) \/ PassRunsLong(t) \/ RowComesDue(t)
    \/ \E m \in Machine, c \in Crawler : CooldownEnds(m, c)

Next == Requests \/ (\E w \in Worker : Drain(w)) \/ Shutdown \/ Failures \/ Time

Spec == Init /\ [][Next]_vars

\* The event loop runs every ready worker, requests end, cooldowns and claims age,
\* and the platform restarts a Machine that went down.  Nothing fails on purpose.
Fairness ==
    /\ \A w \in Worker : WF_vars(Drain(w))
    /\ \A m \in Machine : WF_vars(PoolStopped(m)) /\ WF_vars(StartPool(m))
    /\ \A t \in Target : WF_vars(ClaimAges(t)) /\ WF_vars(RowComesDue(t))
    /\ \A m \in Machine, c \in Crawler : WF_vars(CooldownEnds(m, c))

FairSpec == Spec /\ Fairness

-----------------------------------------------------------------------------
(* Properties. *)

TablesType ==
    /\ queue \in [Target -> Row]
    /\ priced \in [Target -> SUBSET Crawler]
    /\ enabled \subseteq Crawler /\ marketplace \subseteq Crawler /\ enabling \subseteq Crawler
    /\ crawlable \subseteq Item

ProcessType ==
    /\ pool \in [Machine -> {"running", "stopping", "down"}]
    /\ cooling \in [Machine -> SUBSET Crawler]

LocalType ==
    /\ pc \in [Worker -> {"idle", "claimed", "resolving", "units", "searching",
                         "writing", "settling"}]
    /\ claimed \in [Worker -> SUBSET Target]
    /\ snapshot \in [Worker -> [Target -> SUBSET Crawler]]
    /\ todo \in [Worker -> SUBSET Target]
    /\ units \in [Worker -> [Target -> SUBSET Crawler]]
    /\ deferred \in [Worker -> [Target -> SUBSET Crawler]]
    /\ current \in [Worker -> Target \cup {NULL}]
    /\ unit \in [Worker -> Crawler \cup {NULL}]
    /\ result \in [Worker -> Outcome \cup {NULL}]

HistoryType ==
    /\ debt \in [Target -> SUBSET Crawler]
    /\ superseded \subseteq Worker \X Target

BoundsType ==
    /\ requests \in 0..MaxRequests /\ stops \in 0..MaxStops
    /\ overruns \in 0..MaxOverruns /\ faults \in 0..MaxFaults

\* Every column and local variable of the queue and its workers has its type.
TypeOK == TablesType /\ ProcessType /\ LocalType /\ HistoryType /\ BoundsType

\* A crawler a target was promised (by a request, a backfill or a deferral) is never
\* dropped: until it has run, or was found ineligible at dispatch, the row stays open
\* and names it.  A done or deleted row owes nothing.  This is what gating both
\* terminal writes on the claim, and keeping pending_crawler_ids on a hand-back, buy.
NothingOwedIsLost ==
    \A t \in Target :
        debt[t] \subseteq IF queue[t].status \in {"pending", "in_progress"}
                        THEN queue[t].pending ELSE {}

\* Two workers never crawl one row at a time unless a live pass outlived the stranded
\* threshold: crashes, failures, shutdowns and restarts do not do it.
OneWorkerPerRow ==
    overruns = 0 =>
        \A v, w \in Worker : v # w => InHand(v) \cap InHand(w) = {}

\* Only a crash or an escaped exception strands a row: through any shutdown and any
\* reclaim, an in-progress row is in the hands of the worker its claimed_by names.
OnlyFaultsStrandRows ==
    faults = 0 => \A t \in Rows("in_progress") : InSomeHand(t)

\* A crawler that is no marketplace any more has no listing: a search in flight
\* during the conversion cannot write back what register_crawler deleted.
NoListingOutlivesConversion ==
    \A t \in Target : priced[t] \subseteq marketplace

\* No enqueue, save, sweep, backfill, toggle or conversion touches a row a worker has
\* claimed: they only ever insert, revive, widen or delete rows no pass is working on.
RequestsLeaveClaimedRows ==
    [][Requests => \A t \in Rows("in_progress") : queue'[t] = queue[t]]_vars

\* A worker whose row another worker has claimed since changes neither the row nor its
\* listings: no older price over a fresher one, no stale done over a fresh deferral.
SupersededWritesNothing ==
    [][\A w \in Worker, t \in Target :
          /\ <<w, t>> \in superseded
          /\ (WriteResult(w) /\ current[w] = t) \/ ResolveRow(w, t)
          => queue'[t] = queue[t] /\ priced'[t] = priced[t]]_vars

-----------------------------------------------------------------------------
(* The inductive invariant behind the safety properties. *)

\* A row no worker can have carries no claim.
OpenRowsUnclaimed ==
    \A t \in Target :
        queue[t].status \in {"absent", "pending"} =>
            queue[t].claimed_by = NULL /\ ~queue[t].stranded

\* What a worker's program counter says of its batch.
BatchShape ==
    \A w \in Worker :
        /\ pc[w] = "idle" => claimed[w] = {} /\ todo[w] = {}
        /\ pc[w] = "claimed" => todo[w] = {}
        /\ pc[w] \in {"idle", "claimed", "resolving"} => current[w] = NULL
        /\ pc[w] \in {"units", "searching", "writing", "settling"} => claimed[w] = {}
        /\ pc[w] \in {"searching", "writing", "settling"} => current[w] \in todo[w]
        /\ pc[w] = "units" => current[w] \in todo[w] \cup {NULL}
        /\ pc[w] \in {"searching", "writing"} => unit[w] \in units[w][current[w]]
        /\ pc[w] = "settling" => units[w][current[w]] = {}

\* A row whose claim its worker still holds is in progress.
HeldInProgress ==
    \A w \in Worker : \A t \in InHand(w) :
        ClaimHeld(w, t) => queue[t].status = "in_progress"

\* What a held row still owes is ahead of its worker, or deferred by it.
OwedInHand ==
    \A w \in Worker :
        /\ \A t \in claimed[w] : ClaimHeld(w, t) => debt[t] \subseteq snapshot[w][t]
        /\ \A t \in todo[w] \ claimed[w] :
              ClaimHeld(w, t) => debt[t] \subseteq units[w][t] \cup deferred[w][t]

SupersededLostClaim ==
    \A w \in Worker, t \in Target :
        <<w, t>> \in superseded => t \in InHand(w) /\ ~ClaimHeld(w, t)

\* Until a pass runs long, every worker holds every row of its batch.
HandsHold ==
    overruns = 0 =>
        \A w \in Worker : \A t \in InHand(w) : ClaimHeld(w, t) /\ ~queue[t].stranded

Inv ==
    /\ TypeOK
    /\ OpenRowsUnclaimed /\ BatchShape /\ HeldInProgress
    /\ OwedInHand /\ NothingOwedIsLost
    /\ SupersededLostClaim /\ HandsHold
    /\ OnlyFaultsStrandRows /\ NoListingOutlivesConversion

-----------------------------------------------------------------------------
(* Liveness. *)

\* Once requests and faults end, every row is resolved; only stock rows nothing may
\* claim stay pending.  Deferrals, reclaims and unloadable modules all come to an end.
QueueDrains ==
    <>[](\A t \in Target :
            \/ queue[t].status \in {"absent", "done"}
            \/ t \in Item \ crawlable /\ queue[t].status = "pending")
=============================================================================
