--------------------------- MODULE QueueReconcile ---------------------------
(***************************************************************************)
(* The transactions that insert, revive and delete crawl_queue rows, one   *)
(* row lock at a time.                                                     *)
(*                                                                         *)
(* CrawlQueue takes every one of them as a single step.  Here a            *)
(* transaction is a session that takes the reconciliation lock, runs its   *)
(* statements and commits; a statement fixes the rows it is about under    *)
(* the snapshot of its start (READ COMMITTED), then locks and changes them *)
(* one by one in whatever order, waiting for the sessions that hold them.  *)
(* A waiting session may be in a cycle, which Postgres ends by choosing a  *)
(* victim.                                                                 *)
(*                                                                         *)
(* An item key names one store, because it hashes the URL of the listing.  *)
(***************************************************************************)
EXTENDS Naturals, Sequences, FiniteSets

CONSTANTS
    Release, Item,          \* the targets of queue rows
    Store,                  \* the catalog crawlers
    StoreOf,                \* the store that lists an item
    Session,                \* the database connections
    Kinds,                  \* the kinds of transactions that are begun
    MaxTransactions,        \* bound on the transactions begun
    MaxBatch,               \* bound on the rows one page or one snapshot enqueues
    NULL

Target == Release \cup Item

ASSUME ReconcileAssumption ==
    /\ Release \cap Item = {}
    /\ StoreOf \in [Item -> Store]
    /\ MaxTransactions \in Nat
    /\ NULL \notin Session /\ NULL \notin Store /\ NULL \notin Target

VARIABLES
    rows,       \* crawl_queue as committed: target -> status
    draft,      \* the same with what the holders of row locks wrote
    locked,     \* the session that holds a row's lock
    lock,       \* the session that holds STOCK_QUEUE_RECONCILE_LOCK_KEY
    stock,      \* stock_items: the items some store lists
    enabled,    \* the stores that are enabled
    saved,      \* stock_item_saves of all users
    library,    \* the items that match some user's collection or wantlist
    only,       \* the setting crawl_library_only
    job,        \* per session: what its transaction is
    step,       \* per session: how many statements it has opened
    todo,       \* per session: the rows its statement has not visited
    chosen,     \* per session: the rows its statement was opened on
    aim,        \* per session: the row it waits for
    batch,      \* per session: the targets it was begun on
    held,       \* per session: the store whose crawlers row it holds
    mode,       \* per session: crawl_library_only as it read it
    promised,   \* history: wanted items whose interest committed with a row
    begun       \* how many transactions were begun

table == <<rows, draft, locked, lock>>
interest == <<stock, enabled, saved, library, only>>
session == <<job, step, todo, chosen, aim, batch, held, mode>>
history == <<promised>>
vars == <<table, interest, session, history, begun>>

-----------------------------------------------------------------------------
(* The transactions. *)

\* Mutants of Script: the sweep takes no lock, and the backfill takes it after its rows.
ScriptSweepsUnlocked ==
    [save |-> <<"lock", "expedite">>, recheck |-> <<"lock", "gate", "expedite">>,
     restore |-> <<"lock", "insert">>, sweep |-> <<"delete">>,
     enable |-> <<"lock", "revive", "widen", "delete">>, disable |-> <<"lock", "delete">>,
     snapshot |-> <<"enqueue">>, page |-> <<"enqueue">>]

ScriptLocksLate ==
    [save |-> <<"lock", "expedite">>, recheck |-> <<"lock", "gate", "expedite">>,
     restore |-> <<"lock", "insert">>, sweep |-> <<"lock", "delete">>,
     enable |-> <<"revive", "widen", "lock", "delete">>, disable |-> <<"lock", "delete">>,
     snapshot |-> <<"enqueue">>, page |-> <<"enqueue">>]

\* A save, a re-check, the restore after a library sync, a sweep, the two toggles of a
\* crawler, a store's snapshot with its enqueues, and a page of a library sync.
Script ==
    [save |-> <<"lock", "expedite">>, recheck |-> <<"lock", "gate", "expedite">>,
     restore |-> <<"lock", "insert">>, sweep |-> <<"lock", "delete">>,
     enable |-> <<"lock", "revive", "widen", "delete">>, disable |-> <<"lock", "delete">>,
     snapshot |-> <<"enqueue">>, page |-> <<"enqueue">>]

Busy(s) == job[s] # "idle"
Op(s) == Script[job[s]][step[s]]
AtRest(s) == Busy(s) /\ todo[s] = {} /\ aim[s] = NULL
Opens(s, op) == AtRest(s) /\ step[s] < Len(Script[job[s]]) /\ Script[job[s]][step[s] + 1] = op

\* What a session sees: what is committed, and its own changes.
Stocked == {i \in stock : StoreOf[i] \in enabled}
OwnStock(s) == IF job[s] = "snapshot" /\ held[s] \in enabled THEN batch[s] ELSE {}
StockedIn(s) ==
    IF held[s] = NULL THEN Stocked
    ELSE {i \in Stocked : StoreOf[i] # held[s]} \cup OwnStock(s)
SavedIn(s) == IF job[s] = "save" THEN saved \cup batch[s] ELSE saved
RowIn(s, t) == IF locked[t] = s THEN draft[t] ELSE rows[t]

\* _stock_item_crawlable.
CrawlableIn(s) ==
    {i \in StockedIn(s) : mode[s] => i \in SavedIn(s) \cup library}

Begin(s, kind, targets, store, setting) ==
    /\ kind \in Kinds /\ ~Busy(s)
    /\ begun < MaxTransactions /\ begun' = begun + 1
    /\ store # NULL => \A q \in Session : held[q] # store
    /\ job' = [job EXCEPT ![s] = kind]
    /\ batch' = [batch EXCEPT ![s] = targets]
    /\ held' = [held EXCEPT ![s] = store]
    /\ mode' = [mode EXCEPT ![s] = setting]
    /\ UNCHANGED <<step, todo, chosen, aim>>

\* PUT /stock/saved: save_stock_item, then the enqueue.
BeginSave(s, i) ==
    /\ Begin(s, "save", {i}, NULL, only)
    /\ UNCHANGED <<table, interest, history>>

BeginRecheck(s, i) ==
    /\ Begin(s, "recheck", {i}, NULL, only)
    /\ UNCHANGED <<table, interest, history>>

\* A library sync committed; under crawl_library_only it restores stock rows.
LibraryGrows(s, items) ==
    /\ "restore" \in Kinds
    /\ library' = library \cup items
    /\ IF only THEN Begin(s, "restore", items, NULL, only)
       ELSE /\ begun < MaxTransactions /\ begun' = begun + 1 /\ UNCHANGED session
    /\ UNCHANGED <<table, stock, enabled, saved, only, history>>

\* The sweep at the end of a stock sync.
BeginSweep(s) ==
    /\ Begin(s, "sweep", {}, NULL, only)
    /\ UNCHANGED <<table, interest, history>>

\* update_settings: the setting is saved, then switching on sweeps.
SwitchOn(s) ==
    /\ "switch" \in Kinds /\ ~only /\ only' = TRUE
    /\ Begin(s, "sweep", {}, NULL, TRUE)
    /\ UNCHANGED <<table, stock, enabled, saved, library, history>>

SwitchOff ==
    /\ "switch" \in Kinds /\ only /\ only' = FALSE
    /\ begun < MaxTransactions /\ begun' = begun + 1
    /\ UNCHANGED <<table, stock, enabled, saved, library, session, history>>

\* update_crawler enabling a marketplace crawler (no store), which every target may lack
\* a price of, or a store: the toggle commits before the backfill's transaction.
BeginEnable(s, st) ==
    /\ st # NULL => \A q \in Session : held[q] # st
    /\ enabled' = enabled \cup ({st} \cap Store)
    /\ Begin(s, "enable", IF st = NULL THEN Target ELSE {}, NULL, only)
    /\ UNCHANGED <<table, stock, saved, library, only, history>>

\* update_crawler disabling a store, with the sweep in its transaction.
BeginDisable(s, st) ==
    /\ Begin(s, "disable", {}, st, only)
    /\ UNCHANGED <<table, interest, history>>

\* _sync_stock writing what a store lists: one at a time, under a session lock.
BeginSnapshot(s, st, items) ==
    /\ \A i \in items : StoreOf[i] = st
    /\ Cardinality(items) <= MaxBatch
    /\ \A q \in Session : job[q] # "snapshot"
    /\ Begin(s, "snapshot", items, st, only)
    /\ UNCHANGED <<table, interest, history>>

\* A page of a library sync.
BeginPage(s, releases) ==
    /\ Cardinality(releases) <= MaxBatch
    /\ Begin(s, "page", releases, NULL, only)
    /\ UNCHANGED <<table, interest, history>>

-----------------------------------------------------------------------------
(* Statements. *)

TakeLock(s) ==
    /\ Opens(s, "lock") /\ lock = NULL
    /\ lock' = s
    /\ step' = [step EXCEPT ![s] = @ + 1]
    /\ UNCHANGED <<rows, draft, locked, interest, job, todo, chosen, aim, batch, held, mode,
                   history, begun>>

\* The rows a statement is about, under the snapshot of its start.  A backfill revives the
\* done rows that lack a price of its crawler, and widens the pending ones it is not among.
Candidates(s) ==
    [expedite |-> {batch[s] \cap StockedIn(s)},
     insert   |-> {batch[s] \cap StockedIn(s)},
     delete   |-> {{i \in Item : RowIn(s, i) = "pending" /\ i \notin CrawlableIn(s)}},
     revive   |-> SUBSET {t \in batch[s] : RowIn(s, t) = "done"},
     widen    |-> SUBSET {t \in batch[s] : RowIn(s, t) = "pending"},
     enqueue  |-> {batch[s]}]

RowOps == {"expedite", "insert", "delete", "revive", "widen", "enqueue"}

OpenStatement(s) ==
    /\ \E op \in RowOps :
          /\ Opens(s, op)
          /\ \E targets \in Candidates(s)[op] :
                /\ todo' = [todo EXCEPT ![s] = targets]
                /\ chosen' = [chosen EXCEPT ![s] = targets]
    /\ step' = [step EXCEPT ![s] = @ + 1]
    /\ UNCHANGED <<table, interest, job, aim, batch, held, mode, history, begun>>

\* The re-check's gate.
PassGate(s) ==
    /\ Opens(s, "gate") /\ batch[s] \subseteq CrawlableIn(s)
    /\ step' = [step EXCEPT ![s] = @ + 1]
    /\ UNCHANGED <<table, interest, job, todo, chosen, aim, batch, held, mode, history, begun>>

Taken(s, t) == locked[t] \notin {NULL, s}

\* Mutant of Skips: the backfill waits for the rows others hold.
SkipsNothing(s, t) == FALSE

\* FOR UPDATE SKIP LOCKED.
Skips(s, t) == Op(s) \in {"revive", "widen"} /\ Taken(s, t)

\* ON CONFLICT DO NOTHING waits only for a change of the row; everything else for its lock.
Blocked(s, t) == Taken(s, t) /\ (Op(s) = "insert" => draft[t] # rows[t])

\* What the statement leaves of a row.
Requeued(status) == IF status \in {"absent", "done"} THEN "pending" ELSE status
Written(s, t) ==
    CASE Op(s) \in {"expedite", "enqueue"} -> Requeued(draft[t])
      [] Op(s) = "insert" -> IF draft[t] = "absent" THEN "pending" ELSE draft[t]
      [] Op(s) = "delete" -> IF draft[t] = "pending" THEN "absent" ELSE draft[t]
      [] Op(s) = "revive" -> IF draft[t] = "done" THEN "pending" ELSE draft[t]
      [] Op(s) = "widen" -> draft[t]

\* An enqueue of a stock item has its own gate.
Gated(s, t) == Op(s) = "enqueue" /\ t \in Item /\ t \notin CrawlableIn(s)

Touch(s, t) ==
    /\ Busy(s) /\ t \in todo[s] /\ aim[s] \in {NULL, t}
    /\ ~Blocked(s, t) /\ (aim[s] = t \/ ~Gated(s, t))
    /\ draft' = [draft EXCEPT ![t] = Written(s, t)]
    /\ locked' = [locked EXCEPT ![t] =
                     IF draft'[t] = draft[t] /\ (Op(s) = "insert" \/ draft[t] = "absent")
                     THEN @ ELSE s]
    /\ todo' = [todo EXCEPT ![s] = @ \ {t}]
    /\ aim' = [aim EXCEPT ![s] = NULL]
    /\ UNCHANGED <<rows, lock, interest, job, step, chosen, batch, held, mode, history, begun>>

Wait(s, t) ==
    /\ Busy(s) /\ t \in todo[s] /\ aim[s] = NULL
    /\ Blocked(s, t) /\ ~Skips(s, t) /\ ~Gated(s, t)
    /\ aim' = [aim EXCEPT ![s] = t]
    /\ UNCHANGED <<table, interest, job, step, todo, chosen, batch, held, mode, history, begun>>

PassBy(s, t) ==
    /\ Busy(s) /\ t \in todo[s] /\ aim[s] = NULL
    /\ Skips(s, t) \/ Gated(s, t)
    /\ todo' = [todo EXCEPT ![s] = @ \ {t}]
    /\ UNCHANGED <<table, interest, job, step, chosen, aim, batch, held, mode, history, begun>>

-----------------------------------------------------------------------------
(* Ends. *)

Ended(s) ==
    /\ locked' = [t \in Target |-> IF locked[t] = s THEN NULL ELSE locked[t]]
    /\ lock' = IF lock = s THEN NULL ELSE lock
    /\ job' = [job EXCEPT ![s] = "idle"]
    /\ step' = [step EXCEPT ![s] = 0]
    /\ todo' = [todo EXCEPT ![s] = {}]
    /\ chosen' = [chosen EXCEPT ![s] = {}]
    /\ aim' = [aim EXCEPT ![s] = NULL]
    /\ batch' = [batch EXCEPT ![s] = {}]
    /\ held' = [held EXCEPT ![s] = NULL]
    /\ mode' = [mode EXCEPT ![s] = FALSE]

\* A promise lasts while its item is listed and wanted.
Kept(items) == items \cap Stocked' \cap (saved' \cup library')

Commit(s) ==
    /\ AtRest(s) /\ step[s] = Len(Script[job[s]])
    /\ rows' = [t \in Target |-> RowIn(s, t)]
    /\ stock' = IF job[s] = "snapshot"
                THEN {i \in stock : StoreOf[i] # held[s]} \cup batch[s] ELSE stock
    /\ enabled' = IF job[s] = "disable" THEN enabled \ {held[s]} ELSE enabled
    /\ saved' = SavedIn(s)
    /\ UNCHANGED <<draft, library, only, begun>>
    /\ Ended(s)
    /\ promised' = Kept(promised \cup IF job[s] \in {"save", "restore"} THEN chosen[s] ELSE {})

RolledBack(s) ==
    /\ draft' = [t \in Target |-> IF locked[t] = s THEN rows[t] ELSE draft[t]]
    /\ Ended(s)
    /\ UNCHANGED <<rows, interest, history, begun>>

\* The gate of a re-check refuses.
RefuseGate(s) ==
    /\ Opens(s, "gate") /\ ~(batch[s] \subseteq CrawlableIn(s))
    /\ RolledBack(s)

Waits(s, q) ==
    \/ Busy(s) /\ aim[s] # NULL /\ locked[aim[s]] = q
    \/ Opens(s, "lock") /\ lock = q
Cycle(c) == c # {} /\ \A s \in c : (\E q \in c : Waits(s, q)) /\ (\E q \in c : Waits(q, s))

\* A victim of the deadlock detector, the lock timeout of the enable path, a page whose
\* sync lost its claim, an exception.
RollBack(s) ==
    /\ \/ \E c \in SUBSET Session : s \in c /\ Cycle(c)
       \/ job[s] = "enable" /\ \E q \in Session : Waits(s, q)
       \/ job[s] \in {"page", "snapshot"}
    /\ RolledBack(s)

-----------------------------------------------------------------------------
(* What goes on beside the sessions. *)

Unsave(i) ==
    /\ i \in saved /\ saved' = saved \ {i}
    /\ promised' = promised \cap (saved' \cup library)
    /\ UNCHANGED <<table, stock, enabled, library, only, session, begun>>

\* A worker claims the row, SKIP LOCKED and behind the gate of a setting it read earlier,
\* or resolves it.
RowMoves(t, status) ==
    /\ locked[t] = NULL
    /\ rows' = [rows EXCEPT ![t] = status]
    /\ draft' = [draft EXCEPT ![t] = status]
    /\ UNCHANGED <<locked, lock, interest, session, promised, begun>>

ClaimRow(t) ==
    /\ rows[t] = "pending"
    /\ t \in Item => t \in Stocked
    /\ RowMoves(t, "in_progress")

ResolveRow(t) ==
    /\ rows[t] = "in_progress"
    /\ \E status \in {"done", "pending"} : RowMoves(t, status)

-----------------------------------------------------------------------------

\* Any queue and any stock; with the setting off what is listed has its row.
Init ==
    /\ rows \in [Target -> {"absent", "pending", "done"}] /\ draft = rows
    /\ locked = [t \in Target |-> NULL] /\ lock = NULL
    /\ stock \in SUBSET Item /\ enabled = Store /\ only \in BOOLEAN
    /\ only \/ \A i \in stock : rows[i] # "absent"
    /\ saved = {} /\ library = {}
    /\ job = [s \in Session |-> "idle"] /\ step = [s \in Session |-> 0]
    /\ todo = [s \in Session |-> {}] /\ chosen = [s \in Session |-> {}]
    /\ aim = [s \in Session |-> NULL] /\ batch = [s \in Session |-> {}]
    /\ held = [s \in Session |-> NULL] /\ mode = [s \in Session |-> FALSE]
    /\ promised = {} /\ begun = 0

Requests(s) ==
    \/ \E i \in Item : BeginSave(s, i) \/ BeginRecheck(s, i)
    \/ \E items \in SUBSET Item : LibraryGrows(s, items)
    \/ BeginSweep(s) \/ SwitchOn(s)
    \/ \E st \in Store \cup {NULL} : BeginEnable(s, st)
    \/ \E st \in Store : BeginDisable(s, st)
    \/ \E st \in Store, items \in SUBSET Item : BeginSnapshot(s, st, items)
    \/ \E releases \in SUBSET Release : BeginPage(s, releases)

Statements(s) ==
    \/ TakeLock(s) \/ OpenStatement(s) \/ PassGate(s) \/ RefuseGate(s)
    \/ \E t \in Target : Touch(s, t) \/ Wait(s, t) \/ PassBy(s, t)
    \/ Commit(s) \/ RollBack(s)

Next ==
    \/ \E s \in Session : Requests(s) \/ Statements(s)
    \/ SwitchOff
    \/ \E i \in Item : Unsave(i)
    \/ \E t \in Target : ClaimRow(t) \/ ResolveRow(t)

Spec == Init /\ [][Next]_vars

-----------------------------------------------------------------------------
(* Properties. *)

Status == {"absent", "pending", "in_progress", "done"}

\* Every variable stays in its set.
TypeOK ==
    /\ rows \in [Target -> Status] /\ draft \in [Target -> Status]
    /\ locked \in [Target -> Session \cup {NULL}] /\ lock \in Session \cup {NULL}
    /\ stock \subseteq Item /\ enabled \subseteq Store
    /\ saved \subseteq Item /\ library \subseteq Item /\ only \in BOOLEAN
    /\ job \in [Session -> {"idle"} \cup DOMAIN Script]
    /\ step \in [Session -> 0..4]
    /\ todo \in [Session -> SUBSET Target] /\ chosen \in [Session -> SUBSET Target]
    /\ aim \in [Session -> Target \cup {NULL}]
    /\ batch \in [Session -> SUBSET Target]
    /\ held \in [Session -> Store \cup {NULL}]
    /\ mode \in [Session -> BOOLEAN]
    /\ promised \subseteq Item
    /\ begun \in 0..MaxTransactions

\* Interest added means a queue row exists: a save or a restore that found its item
\* listed leaves a row, and no sweep takes it while the item is listed and wanted.
InterestHasRow == \A i \in promised : rows[i] # "absent"

\* No save and no re-check is ever part of a deadlock: the click is not lost.
ClicksAreNoVictims ==
    \A c \in SUBSET Session : Cycle(c) => \A s \in c : job[s] \notin {"save", "recheck"}

\* A snapshot that holds the row of one item of its listing and waits for another's.
Straddles(s) ==
    /\ job[s] = "snapshot" /\ aim[s] # NULL
    /\ \E t \in batch[s] : t # aim[s] /\ locked[t] = s

\* The enqueues of a snapshot are the one gap in the protocol: whatever pages, saves and
\* toggles wait for, the holder of the reconciliation lock is in a wait-for cycle only with
\* a snapshot that holds one of its rows and waits for another.
HolderMovesOn ==
    \A c \in SUBSET Session : Cycle(c) /\ lock \in c => \E s \in c : Straddles(s)

\* What backfill_crawl_queue_for_crawler's comment says of the lock: transactions that take
\* it before any row cannot wait on each other, so its holder is in no wait-for cycle.
HolderIsNeverStopped == \A c \in SUBSET Session : Cycle(c) => lock \notin c

-----------------------------------------------------------------------------
(* The inductive invariant. *)

Takers == {"save", "recheck", "restore", "sweep", "enable", "disable"}

\* A session between transactions has nothing; in one, it has opened the statements of
\* its script, and has rows to visit only in one that is about rows.
SessionShape ==
    \A s \in Session :
        /\ lock = s => step[s] > 0
        /\ Busy(s) => step[s] <= Len(Script[job[s]])
        /\ todo[s] # {} => Busy(s) /\ step[s] > 0 /\ Op(s) \in RowOps
        /\ aim[s] # NULL => aim[s] \in todo[s]
        /\ held[s] # NULL => job[s] \in {"disable", "snapshot"}
        /\ job[s] = "snapshot" => batch[s] \subseteq Item
        /\ ~Busy(s) => /\ step[s] = 0 /\ todo[s] = {} /\ chosen[s] = {} /\ aim[s] = NULL
                       /\ \A t \in Target : locked[t] # s

\* A row nobody holds is as committed.
DraftShape == \A t \in Target : locked[t] = NULL => draft[t] = rows[t]

\* Every taker of the lock takes it before its first row.
LockFirst ==
    \A s \in Session : job[s] \in Takers =>
        /\ step[s] # 0 => lock = s
        /\ step[s] = 0 => todo[s] = {} /\ aim[s] = NULL /\ \A t \in Target : locked[t] # s

\* A click has one row, and with it its transaction is over.
ClickShape ==
    \A s \in Session : job[s] \in {"save", "recheck"} =>
        /\ \E i \in Item : batch[s] = {i}
        /\ todo[s] \subseteq batch[s]
        /\ todo[s] # {} => step[s] = Len(Script[job[s]])
        /\ (\E t \in Target : locked[t] = s)
             => todo[s] = {} /\ aim[s] = NULL /\ step[s] = Len(Script[job[s]])

Sweeping(s) == job[s] \in {"sweep", "enable", "disable"}
Deletes(s, i) ==
    \/ locked[i] = s /\ draft[i] = "absent" /\ rows[i] # "absent"
    \/ Busy(s) /\ step[s] > 0 /\ Op(s) = "delete" /\ i \in todo[s]

\* What a sweep is about to delete was not promised, or its store is being disabled.
DeletionShape ==
    \A s \in Session, i \in Target : Deletes(s, i) =>
        /\ Sweeping(s) /\ i \in Item
        /\ i \in promised => job[s] = "disable" /\ held[s] = StoreOf[i]

\* An interest path has a row for every item it is done with.
Placed ==
    \A s \in Session : job[s] \in {"save", "restore"} =>
        /\ \A i \in chosen[s] \ todo[s] : RowIn(s, i) # "absent"
        /\ chosen[s] \subseteq Item
        /\ step[s] < 2 => chosen[s] = {}

\* A promise is about an item that is listed and wanted.
PromiseShape == promised \subseteq Stocked \cap (saved \cup library)

Inv ==
    /\ TypeOK /\ SessionShape /\ DraftShape /\ LockFirst /\ ClickShape /\ DeletionShape
    /\ Placed /\ PromiseShape /\ InterestHasRow
=============================================================================
