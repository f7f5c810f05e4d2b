---------------------------- MODULE JudgmentRun ----------------------------
(***************************************************************************)
(* One user's recommendation run, on every Machine that may run it.        *)
(*                                                                         *)
(* stock_judgment_runs holds one row per user, claimed with a fresh token  *)
(* and fenced like the library sync's.  The worker copies the verdicts the *)
(* user already paid for to other listings of the same records, selects    *)
(* one listing per record without a verdict, and sends them to the model   *)
(* batch by batch; each batch costs the user money.  A clear and an import *)
(* of verdicts are refused while a run is under way, a stop is a flag on   *)
(* the row, and a stock sync replaces the listings at any time.            *)
(*                                                                         *)
(* The listings are those of records the user does not own; the artist is  *)
(* part of the record, and a batch is one listing.                         *)
(***************************************************************************)
EXTENDS Naturals, FiniteSets

CONSTANTS
    Machine,        \* the app processes sharing one database
    Item,           \* item keys: what a verdict is stored under, in their order
    Record,         \* what listings fold to, and a verdict is about
    Snapshot,       \* the stocks there may be: sets of listings
    MaxRuns,        \* bound on the claims granted
    MaxChanges,     \* bound on restocks, clears, imports and stops
    MaxStalls,      \* bound on live workers that outlast the staleness window
    MaxFaults,      \* bound on failing calls and on crashes
    NULL

Run == 1..MaxRuns
NoRun == 0

\* A row of stock_items; an instance of an older version leaves record_key out.
Listing == [item : Item, record : Record, keyed : BOOLEAN]

ASSUME JudgmentAssumption ==
    /\ Item \subseteq Nat /\ Snapshot \subseteq SUBSET Listing
    /\ MaxRuns \in Nat /\ MaxChanges \in Nat /\ MaxStalls \in Nat /\ MaxFaults \in Nat
    /\ NULL \notin Machine \cup Record \cup [item : Item, record : Record]

VARIABLES
    run,        \* the user's row of stock_judgment_runs
    granted,    \* how many claims were granted; the newest token
    writer,     \* history: the last run that wrote under its claim
    verdicts,   \* stock_item_judgments: item -> verdict, or NULL for no row
    filed,      \* history: verdicts were imported since the last clear
    cleared,    \* history: how many claims had been granted at the last clear
    stock,      \* stock_items
    identity,   \* stock_item_identities: item -> record_key, or NULL
    syncing,    \* the Machine that holds STOCK_SYNC_LOCK_KEY, or NULL
    asked,      \* per Machine: a start that is past the stock sync guard
    home,       \* per run: its Machine
    pc,         \* per run: where its worker stands
    todo,       \* per run: what is selected and not sent
    batch,      \* per run: what was sent, or NULL
    intended,   \* per run: the outcome it means to record
    late,       \* history, per run: batches sent after it was lost or asked to stop
    changes, stalls, faults

row == <<run, granted, writer>>
tables == <<verdicts, filed, cleared, stock, identity, syncing>>
process == <<asked, home>>
local == <<pc, todo, batch, intended, late>>
bounds == <<changes, stalls, faults>>
vars == <<row, tables, process, local, bounds>>

-----------------------------------------------------------------------------
(* The run row. *)

Running == run.status = "running" /\ ~run.stale

\* Mutant of Claimable: a run is claimable once it was closed, never for its silence.
ClaimableWhenEnded == run.status # "running"

\* The WHERE of claim_stock_judgment_run.
Claimable == ~Running

\* Mutant of Holds: a run that expired holds on.
HoldsExpired(r) == run.status = "running" /\ run.token = r

\* The fence of record_stock_judgment_progress and of finish_stock_judgment_run.
Holds(r) == Running /\ run.token = r

\* A fenced write of the row refreshes its heartbeat; one that closes it ends it.
Beat(r, status) ==
    /\ run' = [run EXCEPT !.status = status]
    /\ writer' = IF status = "running" THEN r ELSE writer
    /\ UNCHANGED granted

-----------------------------------------------------------------------------
(* The verdicts, and the records they are about. *)

\* What a verdict is: the record the model was asked about (NULL for one that came from
\* a file), the record_key stored with it, and the run that wrote it (none for a file).
Verdict == [of : Record \cup {NULL}, about : Record \cup {NULL}, by : 0..MaxRuns]
FromFile == [of |-> NULL, about |-> NULL, by |-> NoRun]

Rows(k) == {s \in stock : s.item = k}

\* Mutant of AboutRecord: the identity of the item says which record it was.
AboutByIdentity(v, k, rec) == identity[k] = rec

\* _judged_record_matches_sql: the verdict answers for itself; one without a record_key
\* is about what the identity says, where no live row says anything else.
AboutRecord(v, k, rec) ==
    \/ v[k].about = rec
    \/ /\ v[k].about = NULL /\ identity[k] = rec
       /\ \A s \in Rows(k) : s.keyed /\ s.record = rec

Sources(v, rec) == {k \in Item : v[k] # NULL /\ AboutRecord(v, k, rec)}

\* Mutant of Billable: what was not judged listing by listing is sent.
BillableByListing == {s \in stock : s.keyed /\ verdicts[s.item] = NULL}

\* _unjudged_record_where: keyed listings of records without a verdict.
Billable ==
    {s \in stock : s.keyed /\ verdicts[s.item] = NULL /\ Sources(verdicts, s.record) = {}}

\* get_unjudged_stock_items: the lowest item of each record, then one record per item.
Representatives ==
    {[item |-> s.item, record |-> s.record] :
        s \in {t \in Billable : \A u \in Billable : u.record = t.record => t.item <= u.item}}
Selections ==
    {picks \in SUBSET Representatives :
        /\ {p.item : p \in picks} = {p.item : p \in Representatives}
        /\ \A p, q \in picks : p.item = q.item => p = q}

\* propagate_stock_judgments: an unjudged listing in stock takes the verdict its record
\* has, if its identity agrees on the record; of several sources the newest, any here.
Heirs(v) ==
    {k \in Item :
        /\ v[k] = NULL /\ identity[k] # NULL /\ Sources(v, identity[k]) # {}
        /\ \E s \in Rows(k) : s.keyed /\ s.record = identity[k]}
Inherited(v, k, source, r) == [of |-> v[source].of, about |-> identity[k], by |-> r]
Propagations(v, r) ==
    {[k \in Item |-> IF k \in Heirs(v) THEN Inherited(v, k, source[k], r) ELSE v[k]] :
        source \in {f \in [Heirs(v) -> Item] :
                       \A k \in Heirs(v) : f[k] \in Sources(v, identity[k])}}

\* backfill_stock_keys: every row is keyed by its fold, and an identity that matches none
\* of its item's rows takes the key of one; without rows only a missing key is folded.
Names(k) == {s.record : s \in {t \in UNION Snapshot : t.item = k}}
Swept ==
    /\ stock' = {[s EXCEPT !.keyed = TRUE] : s \in stock}
    /\ \E new \in [Item -> Record \cup {NULL}] :
        /\ \A k \in Item :
              LET listed == {s.record : s \in Rows(k)}
              IN  new[k] \in IF listed = {}
                             THEN IF identity[k] = NULL THEN {NULL} \cup Names(k)
                                  ELSE {identity[k]}
                             ELSE IF identity[k] \in listed THEN {identity[k]} ELSE listed
        /\ identity' = new

-----------------------------------------------------------------------------
(* The stock sync, the user's other requests, and time. *)

Change == changes < MaxChanges /\ changes' = changes + 1 /\ UNCHANGED <<stalls, faults>>

\* start_stock_sync takes the lock, whatever judgment is under way.
StartSync(m) ==
    /\ syncing = NULL /\ syncing' = m
    /\ UNCHANGED <<row, verdicts, filed, cleared, stock, identity, process, local, bounds>>

\* Its end sweeps the keys and releases the lock.
EndSync(m) ==
    /\ syncing = m /\ syncing' = NULL
    /\ Swept
    /\ UNCHANGED <<row, verdicts, filed, cleared, process, local, bounds>>

\* A sync or a crawl result writes listings; each writer upserts the identity with the
\* key it has, and the last one owns it.
Restock(rows) ==
    /\ Change
    /\ rows # stock /\ stock' = rows
    /\ \E new \in [Item -> Record \cup {NULL}] :
        /\ \A k \in Item :
              LET keys == {s.record : s \in {t \in rows : t.item = k /\ t.keyed}}
              IN  new[k] \in IF keys = {} THEN {identity[k]} ELSE keys
        /\ identity' = new
    /\ UNCHANGED <<row, verdicts, filed, cleared, syncing, process, local>>

\* request_stock_judgment_stop: whatever runs for this user is asked to stop.
RequestStop ==
    /\ Change
    /\ Running /\ ~run.stop
    /\ run' = [run EXCEPT !.stop = TRUE]
    /\ UNCHANGED <<granted, writer, tables, process, local>>

\* Mutant of Unguarded: the guard was read before the transaction.
UnguardedAlways(m) == syncing # m

\* _judgment_running under lock_stock_judgment_run, after the local stock sync flag.
Unguarded(m) == syncing # m /\ ~Running

Clear(m) ==
    /\ Change
    /\ Unguarded(m)
    /\ verdicts' = [k \in Item |-> NULL] /\ cleared' = granted /\ filed' = FALSE
    /\ UNCHANGED <<row, stock, identity, syncing, process, local>>

\* import_stock_judgments: the rows of the file that are new or newer.
Import(m, items) ==
    /\ Change
    /\ Unguarded(m)
    /\ verdicts' = [k \in Item |-> IF k \in items THEN FromFile ELSE verdicts[k]]
    /\ filed' = TRUE
    /\ UNCHANGED <<row, cleared, stock, identity, syncing, process, local>>

Working(r) == pc[r] \notin {"unborn", "done"}

\* The window passes over a run nobody works on, or over a worker that fell silent.
RunExpires ==
    /\ Running /\ ~Working(run.token)
    /\ run' = [run EXCEPT !.stale = TRUE]
    /\ UNCHANGED <<granted, writer, tables, process, local, bounds>>

RunStalls ==
    /\ stalls < MaxStalls /\ stalls' = stalls + 1
    /\ Running /\ Working(run.token)
    /\ run' = [run EXCEPT !.stale = TRUE]
    /\ UNCHANGED <<granted, writer, tables, process, local, changes, faults>>

-----------------------------------------------------------------------------
(* start_judgment_only. *)

Fault == faults < MaxFaults /\ faults' = faults + 1 /\ UNCHANGED <<changes, stalls>>
NoFault == UNCHANGED bounds

\* _stock_sync_running_anywhere said no; it fails open on the other Machines' lock.
PassSyncGuard(m) ==
    /\ ~asked[m] /\ syncing # m
    /\ asked' = [asked EXCEPT ![m] = TRUE]
    /\ IF syncing = NULL THEN NoFault ELSE Fault
    /\ UNCHANGED <<row, tables, home, local>>

\* claim_stock_judgment_run: a fresh token, counters and the stop flag reset.
Granted(m) ==
    /\ Claimable /\ granted < MaxRuns /\ granted' = granted + 1
    /\ run' = [status |-> "running", token |-> granted', stale |-> FALSE, stop |-> FALSE]
    /\ home' = [home EXCEPT ![granted'] = m]
    /\ UNCHANGED writer

\* Committed unless a sync is seen to hold the lock, which again fails open.
ClaimRun(m) ==
    /\ asked[m] /\ asked' = [asked EXCEPT ![m] = FALSE]
    /\ Granted(m)
    /\ pc' = [pc EXCEPT ![granted'] = "starting"]
    /\ IF syncing = NULL THEN NoFault ELSE Fault
    /\ UNCHANGED <<tables, todo, batch, intended, late>>

\* A run is under way, or the claim is rolled back for a sync that took the lock.
ClaimRefused(m) ==
    /\ asked[m] /\ asked' = [asked EXCEPT ![m] = FALSE]
    /\ ~Claimable \/ syncing # NULL
    /\ UNCHANGED <<row, tables, home, local, bounds>>

\* The claim's transaction failed, or landed and did not say so: nobody runs it.
ClaimUnanswered(m) ==
    /\ Fault
    /\ asked[m] /\ asked' = [asked EXCEPT ![m] = FALSE]
    /\ Granted(m) \/ UNCHANGED <<row, home>>
    /\ UNCHANGED <<tables, local>>

-----------------------------------------------------------------------------
(* _run_judgment_phase. *)

At(r, p) == pc[r] = p
Go(r, p) == pc' = [pc EXCEPT ![r] = p]

\* close(): an outcome is to be recorded.
Closing(r, outcome) ==
    /\ intended' = [intended EXCEPT ![r] = outcome]
    /\ todo' = [todo EXCEPT ![r] = {}]
    /\ Go(r, "closing")

\* The worker leaves for its finally.
GivesUp(r) ==
    /\ todo' = [todo EXCEPT ![r] = {}]
    /\ batch' = [batch EXCEPT ![r] = NULL]
    /\ Go(r, "backstop")

\* The user is gone, or has no API key.
CannotJudge(r) ==
    /\ At(r, "starting")
    /\ Closing(r, "error")
    /\ UNCHANGED <<row, tables, process, batch, late, bounds>>

SweepKeys(r) ==
    /\ At(r, "starting")
    /\ Swept
    /\ Go(r, "inheriting")
    /\ UNCHANGED <<row, verdicts, filed, cleared, syncing, process, todo, batch, intended, late,
                   bounds>>

\* taken_over: nothing is written, nothing is announced.
TakenOver(r) ==
    /\ pc[r] \in {"inheriting", "selected", "judging"} /\ ~Holds(r)
    /\ GivesUp(r)
    /\ UNCHANGED <<row, tables, process, intended, late, bounds>>

\* The first transaction: the claim, then the verdicts the user already has.
InheritCommitted(r) ==
    /\ At(r, "inheriting") /\ Holds(r)
    /\ Beat(r, "running")
    /\ verdicts' \in Propagations(verdicts, r)
    /\ UNCHANGED <<filed, cleared, stock, identity, syncing>>

Inherit(r) ==
    /\ InheritCommitted(r)
    /\ Go(r, "selecting")
    /\ UNCHANGED <<process, todo, batch, intended, late, bounds>>

Select(r) ==
    /\ At(r, "selecting")
    /\ \E picks \in Selections :
        IF picks = {} THEN Closing(r, "complete")
        ELSE /\ todo' = [todo EXCEPT ![r] = picks]
             /\ Go(r, "selected") /\ UNCHANGED intended
    /\ UNCHANGED <<row, tables, process, batch, late, bounds>>

\* Mutant of Onward: the flag is not read between batches.
OnwardRegardless(r, left) ==
    IF left = {} THEN Closing(r, "complete")
    ELSE Go(r, "sending") /\ UNCHANGED <<todo, intended>>

\* After a checkpoint: stop if asked to, go on with what is left, or complete.
Onward(r, left) ==
    IF run.stop THEN Closing(r, "stopped")
    ELSE IF left = {} THEN Closing(r, "complete")
    ELSE Go(r, "sending") /\ UNCHANGED <<todo, intended>>

\* The checkpoint before any money is spent.
Preflight(r) ==
    /\ At(r, "selected") /\ Holds(r)
    /\ Beat(r, "running")
    /\ Onward(r, todo[r])
    /\ UNCHANGED <<tables, process, batch, late, bounds>>

\* judge_batch: the call is made, and paid for.
SendBatch(r, p) ==
    /\ At(r, "sending") /\ p \in todo[r]
    /\ todo' = [todo EXCEPT ![r] = @ \ {p}]
    /\ batch' = [batch EXCEPT ![r] = p]
    /\ late' = [late EXCEPT ![r] = IF ~Holds(r) \/ run.stop THEN @ + 1 ELSE @]
    /\ Go(r, "judging")
    /\ UNCHANGED <<row, tables, process, intended, bounds>>

\* clear_verdict_attribution_left_behind: a row rewritten for the record it already
\* names loses the attribution.
Attribution(p) ==
    IF verdicts[p.item] # NULL /\ verdicts[p.item].about = p.record THEN NULL ELSE p.record

\* upsert_stock_judgments for what the model answered; an answer may have to be dropped.
Upserted(p, r) ==
    {verdicts,
     [verdicts EXCEPT ![p.item] = [of |-> p.record, about |-> Attribution(p), by |-> r]]}

\* The batch's transaction: the claim, then the verdicts and what they fan out to.
BatchCommitted(r) ==
    /\ At(r, "judging") /\ Holds(r)
    /\ Beat(r, "running")
    /\ \E table \in Upserted(batch[r], r) :
        IF table = verdicts THEN UNCHANGED verdicts
        ELSE verdicts' \in Propagations(table, r)
    /\ UNCHANGED <<filed, cleared, stock, identity, syncing>>

\* Mutant of CommitBatch: what was paid for is written, whoever holds the claim.
CommitBatchUnfenced(r) ==
    /\ At(r, "judging")
    /\ \E table \in Upserted(batch[r], r) : verdicts' \in Propagations(table, r)
    /\ batch' = [batch EXCEPT ![r] = NULL]
    /\ Onward(r, todo[r])
    /\ UNCHANGED <<row, filed, cleared, stock, identity, syncing, process, late, bounds>>

CommitBatch(r) ==
    /\ BatchCommitted(r)
    /\ batch' = [batch EXCEPT ![r] = NULL]
    /\ Onward(r, todo[r])
    /\ UNCHANGED <<process, late, bounds>>

\* finish_stock_judgment_run: no lock, the fence alone.
Closed(r, outcome) ==
    /\ IF Holds(r) THEN Beat(r, outcome) ELSE UNCHANGED row
    /\ UNCHANGED tables

\* The outcome is recorded, then announced unless the run was not this worker's.
CloseRun(r) ==
    /\ At(r, "closing")
    /\ Closed(r, intended[r])
    /\ Go(r, "backstop")
    /\ UNCHANGED <<process, todo, batch, intended, late, bounds>>

\* The finally: an error for a run no branch closed.
Backstop(r) ==
    /\ At(r, "backstop")
    /\ Closed(r, "error")
    /\ intended' = [intended EXCEPT ![r] = "none"]
    /\ Go(r, "done")
    /\ UNCHANGED <<process, todo, batch, late, bounds>>

-----------------------------------------------------------------------------
(* Failing calls and crashes. *)

Underway == {"starting", "inheriting", "selecting", "selected", "sending", "judging"}

\* A call of the run failed, or its commit landed and did not say so: the answers it had
\* are lost and the run is closed as failed.
StepFails(r) ==
    /\ Fault
    /\ pc[r] \in Underway
    /\ InheritCommitted(r) \/ BatchCommitted(r) \/ UNCHANGED <<row, tables>>
    /\ batch' = [batch EXCEPT ![r] = NULL]
    /\ Closing(r, "error")
    /\ UNCHANGED <<process, late>>

\* The task is cancelled: nothing is closed but by the finally.
Cancelled(r) ==
    /\ Fault
    /\ pc[r] \in Underway
    /\ GivesUp(r)
    /\ UNCHANGED <<row, tables, process, intended, late>>

\* A close failed, or landed and did not say so; the backstop follows, or nothing does.
CloseUnanswered(r) ==
    /\ Fault
    /\ \/ At(r, "closing") /\ Go(r, "backstop") /\ UNCHANGED intended
       \/ At(r, "backstop") /\ Go(r, "done") /\ intended' = [intended EXCEPT ![r] = "none"]
    /\ Closed(r, IF At(r, "closing") THEN intended[r] ELSE "error") \/ UNCHANGED <<row, tables>>
    /\ UNCHANGED <<process, todo, batch, late>>

\* The process dies, and its session releases the stock sync lock.
Crash(m) ==
    /\ Fault
    /\ asked' = [asked EXCEPT ![m] = FALSE]
    /\ syncing' = IF syncing = m THEN NULL ELSE syncing
    /\ pc' = [r \in Run |-> IF home[r] = m /\ Working(r) THEN "done" ELSE pc[r]]
    /\ todo' = [r \in Run |-> IF home[r] = m THEN {} ELSE todo[r]]
    /\ batch' = [r \in Run |-> IF home[r] = m THEN NULL ELSE batch[r]]
    /\ intended' = [r \in Run |-> IF home[r] = m THEN "none" ELSE intended[r]]
    /\ UNCHANGED <<row, verdicts, filed, cleared, stock, identity, home, late>>

-----------------------------------------------------------------------------

Init ==
    /\ run = [status |-> "none", token |-> NoRun, stale |-> FALSE, stop |-> FALSE]
    /\ granted = 0 /\ writer = NoRun
    /\ verdicts = [k \in Item |-> NULL] /\ cleared = 0 /\ filed = FALSE
    /\ stock \in Snapshot
    /\ identity \in [Item -> Record \cup {NULL}]
    /\ \A k \in Item :
          LET keys == {s.record : s \in {t \in Rows(k) : t.keyed}}
          IN  identity[k] \in IF keys = {} THEN {NULL} ELSE keys
    /\ syncing = NULL
    /\ asked = [m \in Machine |-> FALSE]
    /\ home = [r \in Run |-> NULL]
    /\ pc = [r \in Run |-> "unborn"]
    /\ todo = [r \in Run |-> {}]
    /\ batch = [r \in Run |-> NULL]
    /\ intended = [r \in Run |-> "none"]
    /\ late = [r \in Run |-> 0]
    /\ changes = 0 /\ stalls = 0 /\ faults = 0

Starts(m) == PassSyncGuard(m) \/ ClaimRun(m) \/ ClaimRefused(m)

Works(r) ==
    \/ CannotJudge(r) \/ SweepKeys(r) \/ TakenOver(r) \/ Inherit(r) \/ Select(r)
    \/ Preflight(r) \/ (\E p \in todo[r] : SendBatch(r, p)) \/ CommitBatch(r)
    \/ CloseRun(r) \/ Backstop(r)

Requests ==
    \/ RequestStop
    \/ \E rows \in Snapshot : Restock(rows)
    \/ \E m \in Machine : \/ StartSync(m) \/ EndSync(m) \/ Clear(m)
                          \/ \E items \in (SUBSET Item) \ {{}} : Import(m, items)

Failures ==
    \/ \E m \in Machine : ClaimUnanswered(m) \/ Crash(m)
    \/ \E r \in Run : StepFails(r) \/ Cancelled(r) \/ CloseUnanswered(r)

Next ==
    \/ \E m \in Machine : Starts(m)
    \/ \E r \in Run : Works(r)
    \/ Requests \/ RunExpires \/ RunStalls \/ Failures

Spec == Init /\ [][Next]_vars

\* Tasks run, a claim that is asked for is made, and silence grows old.
Fairness ==
    /\ \A r \in Run : WF_vars(Works(r))
    /\ \A m \in Machine : WF_vars(ClaimRun(m) \/ ClaimRefused(m))
    /\ WF_vars(RunExpires)

FairSpec == Spec /\ Fairness

-----------------------------------------------------------------------------
(* Properties. *)

Status == {"none", "running", "complete", "stopped", "error"}
Pick == [item : Item, record : Record]

\* Every variable stays in its set: the run row, the verdicts and the workers.
TypeOK ==
    /\ run \in [status : Status, token : 0..MaxRuns, stale : BOOLEAN, stop : BOOLEAN]
    /\ granted \in 0..MaxRuns /\ writer \in 0..MaxRuns /\ cleared \in 0..MaxRuns
    /\ verdicts \in [Item -> Verdict \cup {NULL}]
    /\ filed \in BOOLEAN /\ stock \subseteq Listing
    /\ identity \in [Item -> Record \cup {NULL}]
    /\ syncing \in Machine \cup {NULL}
    /\ asked \in [Machine -> BOOLEAN]
    /\ home \in [Run -> Machine \cup {NULL}]
    /\ pc \in [Run -> Underway \cup {"unborn", "closing", "backstop", "done"}]
    /\ todo \in [Run -> SUBSET Pick]
    /\ batch \in [Run -> Pick \cup {NULL}]
    /\ intended \in [Run -> {"none", "complete", "stopped", "error"}]
    /\ late \in [Run -> Nat]
    /\ changes \in 0..MaxChanges /\ stalls \in 0..MaxStalls /\ faults \in 0..MaxFaults

\* What the user cleared stays cleared: no verdict of a run older than the clear comes
\* back, though its batch may return from the model long afterwards.
ClearStands ==
    \A k \in Item : verdicts[k] # NULL /\ verdicts[k].by # NoRun => verdicts[k].by > cleared

\* Unless verdicts came from a file, which names no records: a run that holds its claim
\* never has a record to send that the model has judged, in whichever listing, shop or
\* pressing, while that verdict is kept.
PaidOnce ==
    ~filed =>
        \A r \in Run : Holds(r) =>
            \A p \in todo[r], k \in Item : verdicts[k] # NULL => verdicts[k].of # p.record

\* Unless verdicts came from a file: the record a verdict is stored for is the one the
\* model was asked about, wherever it was copied to.
VerdictsKeepTheirRecord ==
    ~filed => \A k \in Item : verdicts[k] # NULL => verdicts[k].of = verdicts[k].about

\* A run that was lost, or asked to stop, pays for one more batch at the most.
OverspendIsBounded == \A r \in Run : late[r] <= 1

-----------------------------------------------------------------------------
(* The inductive invariant. *)

\* The row is the newest claim's; a run that may write was claimed after the last clear;
\* a run without a claim has no worker.
RowShape ==
    /\ run.token = granted /\ cleared <= granted
    /\ Running => run.token > cleared
    /\ \A r \in Run : r > granted => pc[r] = "unborn"

\* A batch sent late is the last of its run.
LateShape ==
    \A r \in Run :
        /\ pc[r] \in (Underway \ {"judging"}) \cup {"unborn"} => late[r] = 0
        /\ pc[r] = "judging" /\ late[r] = 1 => ~Holds(r) \/ run.stop

\* What is selected and not sent is one item per record, and not what was sent last.
SelectionShape ==
    /\ ~filed => \A k \in Item : verdicts[k] # NULL => verdicts[k].of # NULL
    /\ \A r \in Run :
        /\ pc[r] \in {"unborn", "starting", "inheriting", "selecting"} => todo[r] = {}
        /\ \A p, q \in todo[r] : p.record = q.record => p = q
        /\ pc[r] = "judging" =>
              batch[r] # NULL /\ \A p \in todo[r] : p.record # batch[r].record
        /\ pc[r] = "judging" /\ Holds(r) /\ ~filed =>
              \A k \in Item : verdicts[k] # NULL => verdicts[k].of # batch[r].record

Inv ==
    /\ TypeOK /\ RowShape /\ LateShape /\ SelectionShape
    /\ ClearStands /\ PaidOnce /\ VerdictsKeepTheirRecord /\ OverspendIsBounded

-----------------------------------------------------------------------------
\* The runs hold the lease one after the other, and only its holder writes.
Lease == INSTANCE RunLease WITH holder <- IF Running THEN run.token ELSE NoRun
ImplementsLease == Lease!Spec

\* The user is never locked out of a recommendation run.
UserCanJudge == []<>Claimable
=============================================================================
