--------------------------- MODULE LibrarySyncRun ---------------------------
(***************************************************************************)
(* One user's library sync, on every Machine that may run it.              *)
(*                                                                         *)
(* library_sync_runs holds one row per user.  start_sync claims it with a  *)
(* fresh token; every later write of the run is fenced on that token and   *)
(* on the age of the heartbeat, so that a run which fell silent is out of  *)
(* the protocol whether or not another one replaced it.  The worker walks  *)
(* the collection and the wantlist, commits what it wrote at checkpoints,  *)
(* cleans up, and either closes the run or hands it to a Plex phase.       *)
(*                                                                         *)
(* One action is one transaction or one stretch between two of them.  A    *)
(* call to the database is answered, fails, or takes effect and fails to   *)
(* say so.  Each list is one page: checkpoints may fall after any item,    *)
(* which is all that further pages would add.                              *)
(***************************************************************************)
EXTENDS Naturals

CONSTANTS
    Machine,        \* the app processes sharing one database
    Release,        \* the releases the user may list on Discogs
    MaxRuns,        \* bound on the claims granted
    MaxChanges,     \* bound on the user's edits of the lists on Discogs
    MaxStalls,      \* bound on live workers that outlast the staleness window
    MaxFaults,      \* bound on failing calls and on crashes
    NULL

Run == 1..MaxRuns
NoRun == 0
Flag == {"collection", "wishlist"}

ASSUME SyncAssumption ==
    /\ MaxRuns \in Nat /\ MaxChanges \in Nat /\ MaxStalls \in Nat /\ MaxFaults \in Nat
    /\ NULL \notin Machine /\ \A flags \in SUBSET Flag : NULL # flags

VARIABLES
    run,        \* the user's row of library_sync_runs
    granted,    \* how many claims were granted; the newest token
    library,    \* library_items: release -> flags, or NULL for no row
    writer,     \* history: the last run that committed to the library
    discogs,    \* what the user lists on Discogs
    starting,   \* per Machine: start_sync under the start lock
    claim,      \* per Machine: the token the claim of start_sync returned
    task,       \* per Machine: _sync_tasks
    match,      \* per Machine: a Plex match of its own is running
    home,       \* per run: its Machine
    pc,         \* per run: where its worker stands
    walk,       \* per run: items of the page still to write
    seen,       \* per run: wishlist_seen
    buffer,     \* per run: items written and not committed
    intended,   \* per run: the outcome it means to record
    tries,      \* per run: unanswered attempts of the close under way
    phase,      \* per run: whether it was handed to the Plex phase
    told,       \* per run: the terminal event its Machine broadcast
    changes, stalls, faults

tables == <<run, granted, library, writer, discogs>>
process == <<starting, claim, task, match, home>>
local == <<pc, walk, seen, buffer, intended, tries, phase, told>>
bounds == <<changes, stalls, faults>>
vars == <<tables, process, local, bounds>>

-----------------------------------------------------------------------------
(* The run row. *)

Claimed == run.status \in {"running", "plex_matching"}

\* Mutant of Claimable: only a run that ended gives way.
ClaimableWhenEnded == ~Claimed

\* The WHERE of claim_library_sync_run.
Claimable == ~Claimed \/ run.stale

\* Mutants of Holds: whatever runs for this user, and a run that expired.
HoldsUntokened(r) == Claimed /\ ~run.stale
HoldsExpired(r) == Claimed /\ run.token = r

\* The fence of record_library_sync_progress.
Holds(r) == Claimed /\ run.token = r /\ ~run.stale

\* Mutant of Open: the backstop reaches whatever runs.
OpenUntokened(r) == run.status = "running" /\ ~run.stale

\* The fence of finish_library_sync_run and of start_library_sync_plex_phase.
Open(r) == run.status = "running" /\ run.token = r /\ ~run.stale

\* The fence of finish_library_sync_plex_phase.
Matching(r) == run.status = "plex_matching" /\ run.token = r /\ ~run.stale

-----------------------------------------------------------------------------
(* The library. *)

Flags(row) == IF row = NULL THEN {} ELSE row

\* upsert_library_item for the items in xs.
Upserted(lib, xs, flag) ==
    [x \in Release |-> IF x \in xs THEN Flags(lib[x]) \cup {flag} ELSE lib[x]]

\* Mutant of Cleaned: the orphans are deleted before the flags are cleared.
DeletedFirst(lib, kept) ==
    [x \in Release |-> IF lib[x] = {} THEN NULL
                       ELSE IF lib[x] # NULL /\ x \notin kept
                       THEN lib[x] \ {"wishlist"} ELSE lib[x]]

\* clear_wishlist_flags_not_in, then delete_orphaned_releases.
Cleaned(lib, kept) ==
    LET cleared == [x \in Release |->
                       IF lib[x] # NULL /\ x \notin kept
                       THEN lib[x] \ {"wishlist"} ELSE lib[x]]
    IN  [x \in Release |-> IF cleared[x] = {} THEN NULL ELSE cleared[x]]

Listed(flag) == {x \in Release : flag \in discogs[x]}

\* The user edits the lists on Discogs.
ListsChange(x, flags) ==
    /\ changes < MaxChanges /\ changes' = changes + 1
    /\ discogs' = [discogs EXCEPT ![x] = flags]
    /\ UNCHANGED <<run, granted, library, writer, process, local, stalls, faults>>

-----------------------------------------------------------------------------
(* start_sync and start_plex_match, serialized by _start_lock. *)

\* Mutant of Unlocked: the starts are not serialized.
UnlockedAlways(m) == TRUE

Unlocked(m) == starting[m] = "no"

Working(r) == pc[r] \notin {"unborn", "done"}
SyncRunning(m) == task[m] # NoRun /\ Working(task[m])

\* start_sync: the lock, and the guard on a local Plex match.
RequestSync(m) ==
    /\ Unlocked(m) /\ ~match[m]
    /\ starting' = [starting EXCEPT ![m] = "claiming"]
    /\ UNCHANGED <<tables, claim, task, match, home, local, bounds>>

\* claim_library_sync_run: a fresh token, or a refusal.
Granted(m) ==
    /\ starting[m] = "claiming" /\ Claimable
    /\ granted < MaxRuns /\ granted' = granted + 1
    /\ run' = [status |-> "running", token |-> granted', stale |-> FALSE]
    /\ home' = [home EXCEPT ![granted'] = m]

ClaimRun(m) ==
    /\ Granted(m)
    /\ starting' = [starting EXCEPT ![m] = "claimed"]
    /\ claim' = [claim EXCEPT ![m] = granted']
    /\ UNCHANGED <<library, writer, discogs, task, match, local, bounds>>

ClaimRefused(m) ==
    /\ starting[m] = "claiming" /\ ~Claimable
    /\ starting' = [starting EXCEPT ![m] = "no"]
    /\ UNCHANGED <<tables, claim, task, match, home, local, bounds>>

\* The claim returned: a stalled predecessor is cancelled, the task registered.  The
\* predecessor's thread cannot be cancelled; only a Plex phase stops at once.
RegisterTask(m) ==
    /\ starting[m] = "claimed"
    /\ starting' = [starting EXCEPT ![m] = "no"]
    /\ claim' = [claim EXCEPT ![m] = NoRun]
    /\ task' = [task EXCEPT ![m] = claim[m]]
    /\ pc' = [r \in Run |-> IF r = claim[m] THEN "fetching"
                            ELSE IF r = task[m] /\ pc[r] = "matching" THEN "releasing"
                            ELSE pc[r]]
    /\ UNCHANGED <<tables, match, home, walk, seen, buffer, intended, tries, phase, told,
                   bounds>>

\* start_plex_match: no claim, guards of this process only.
StartMatch(m) ==
    /\ Unlocked(m) /\ ~match[m] /\ ~SyncRunning(m)
    /\ match' = [match EXCEPT ![m] = TRUE]
    /\ UNCHANGED <<tables, starting, claim, task, home, local, bounds>>

MatchOver(m) ==
    /\ match[m]
    /\ match' = [match EXCEPT ![m] = FALSE]
    /\ UNCHANGED <<tables, starting, claim, task, home, local, bounds>>

-----------------------------------------------------------------------------
(* The walk over the two lists. *)

At(r, p) == pc[r] = p
Go(r, p) == pc' = [pc EXCEPT ![r] = p]

\* _ClaimLost: the open transaction is rolled back and the takeover announced.
Lost(r) ==
    /\ buffer' = [buffer EXCEPT ![r] = {}]
    /\ intended' = [intended EXCEPT ![r] = "none"]
    /\ told' = [told EXCEPT ![r] = "taken_over"]
    /\ tries' = [tries EXCEPT ![r] = 0]
    /\ Go(r, "backstop")
    /\ UNCHANGED <<walk, seen, phase>>

\* An exception: the open transaction is rolled back and an error is to be recorded.
Failed(r, outcome) ==
    /\ buffer' = [buffer EXCEPT ![r] = {}]
    /\ intended' = [intended EXCEPT ![r] = outcome]
    /\ tries' = [tries EXCEPT ![r] = 0]
    /\ Go(r, "closing")
    /\ UNCHANGED <<walk, seen, phase, told>>

\* The first page of the collection; a wishlist-scoped sync begins with the wantlist.
FetchCollection(r) ==
    /\ At(r, "fetching")
    /\ walk' = [walk EXCEPT ![r] = Listed("collection")]
    /\ Go(r, "collection")
    /\ UNCHANGED <<tables, process, seen, buffer, intended, tries, phase, told, bounds>>

FetchWantlist(r) ==
    /\ At(r, "fetching") \/ At(r, "collected")
    /\ walk' = [walk EXCEPT ![r] = Listed("wishlist")]
    /\ Go(r, "wantlist")
    /\ UNCHANGED <<tables, process, seen, buffer, intended, tries, phase, told, bounds>>

FlagOf(r) == IF At(r, "collection") THEN "collection" ELSE "wishlist"

UpsertItem(r, x) ==
    /\ At(r, "collection") \/ At(r, "wantlist")
    /\ x \in walk[r]
    /\ walk' = [walk EXCEPT ![r] = @ \ {x}]
    /\ buffer' = [buffer EXCEPT ![r] = @ \cup {x}]
    /\ seen' = [seen EXCEPT ![r] = IF At(r, "wantlist") THEN @ \cup {x} ELSE @]
    /\ UNCHANGED <<tables, process, pc, intended, tries, phase, told, bounds>>

\* A checkpoint is due after an item, and at the end of the page.
CheckpointDue(r) ==
    /\ At(r, "collection") \/ At(r, "wantlist")
    /\ buffer[r] # {} \/ walk[r] = {}

\* Every fenced write of the row refreshes its heartbeat.
Beat(status) == run' = [status |-> status, token |-> run.token, stale |-> FALSE]

Committed(r) ==
    /\ Beat(run.status)
    /\ library' = Upserted(library, buffer[r], FlagOf(r))
    /\ writer' = r
    /\ UNCHANGED <<granted, discogs>>

Checkpoint(r) ==
    /\ CheckpointDue(r) /\ Holds(r)
    /\ Committed(r)
    /\ buffer' = [buffer EXCEPT ![r] = {}]
    /\ Go(r, IF walk[r] # {} THEN pc[r]
             ELSE IF At(r, "collection") THEN "collected" ELSE "cleaning")
    /\ UNCHANGED <<process, walk, seen, intended, tries, phase, told, bounds>>

\* clear_wishlist_flags_not_in and delete_orphaned_releases, in the transaction that
\* proves the claim.
CleanedUp(r) ==
    /\ Beat(run.status)
    /\ library' = Cleaned(library, seen[r])
    /\ writer' = r
    /\ UNCHANGED <<granted, discogs>>

CleanUp(r) ==
    /\ At(r, "cleaning") /\ Holds(r)
    /\ CleanedUp(r)
    /\ Go(r, "ending")
    /\ UNCHANGED <<process, walk, seen, buffer, intended, tries, phase, told, bounds>>

\* still_ours answers no, at a checkpoint or before the clean-up.
ClaimLost(r) ==
    /\ CheckpointDue(r) \/ At(r, "cleaning")
    /\ ~Holds(r)
    /\ Lost(r)
    /\ UNCHANGED <<tables, process, bounds>>

-----------------------------------------------------------------------------
(* The end of the sync phase. *)

\* start_library_sync_plex_phase: the run keeps its claim and the sync is announced.
HandedOver ==
    /\ Beat("plex_matching")
    /\ UNCHANGED <<granted, library, writer, discogs>>

HandOver(r) ==
    /\ At(r, "ending") /\ Open(r)
    /\ HandedOver
    /\ phase' = [phase EXCEPT ![r] = "plex"]
    /\ told' = [told EXCEPT ![r] = "complete"]
    /\ Go(r, "backstop")
    /\ UNCHANGED <<process, walk, seen, buffer, intended, tries, bounds>>

HandOverRefused(r) ==
    /\ At(r, "ending") /\ ~Open(r)
    /\ Lost(r)
    /\ UNCHANGED <<tables, process, bounds>>

\* Without Plex the run is to be closed as complete.
EndSync(r) ==
    /\ At(r, "ending")
    /\ intended' = [intended EXCEPT ![r] = "complete"]
    /\ Go(r, "closing")
    /\ UNCHANGED <<tables, process, walk, seen, buffer, tries, phase, told, bounds>>

\* The status that finish_run writes; the backstop's own is a generic error.
Outcome(r) == IF intended[r] = "complete" THEN "complete" ELSE "error"

Closed(r) ==
    /\ IF Open(r) THEN Beat(Outcome(r)) ELSE UNCHANGED run
    /\ UNCHANGED <<granted, library, writer, discogs>>

\* finish_run was answered yes: an error is announced, the stock rows are restored, and
\* the backstop follows.  An error met before the walk has nothing to restore.
CloseTaken(r) ==
    /\ told' = [told EXCEPT ![r] = IF Outcome(r) = "error" THEN "error" ELSE @]
    /\ intended' = [intended EXCEPT ![r] = "none"]
    /\ Go(r, IF intended[r] = "early_error" THEN "backstop" ELSE "restoring")

\* It was answered no: a completed sync announces a takeover, a failed one is silent.
CloseNotTaken(r) ==
    /\ told' = [told EXCEPT ![r] = IF Outcome(r) = "complete" THEN "taken_over" ELSE @]
    /\ intended' = [intended EXCEPT ![r] = "none"]
    /\ Go(r, "backstop")

CloseRun(r) ==
    /\ At(r, "closing")
    /\ Closed(r)
    /\ IF Open(r) THEN CloseTaken(r) ELSE CloseNotTaken(r)
    /\ tries' = [tries EXCEPT ![r] = 0]
    /\ UNCHANGED <<process, walk, seen, buffer, phase, bounds>>

\* The finally of _sync_collection_blocking: the outcome that was not recorded, or an
\* error if none was chosen; a run some path closed is left alone.
Backstop(r) ==
    /\ At(r, "backstop")
    /\ Closed(r)
    /\ intended' = [intended EXCEPT ![r] = "none"]
    /\ tries' = [tries EXCEPT ![r] = 0]
    /\ Go(r, IF phase[r] = "plex" THEN "matching" ELSE "done")
    /\ UNCHANGED <<process, walk, seen, buffer, phase, told, bounds>>

\* _restore_library_stock_rows: follow-on work for the crawl queue.  A completed sync
\* is announced after it.
Restore(r) ==
    /\ At(r, "restoring")
    /\ Go(r, IF phase[r] = "plex" THEN "done" ELSE "backstop")
    /\ told' = [told EXCEPT ![r] = IF @ = "nothing" THEN "complete" ELSE @]
    /\ UNCHANGED <<tables, process, walk, seen, buffer, intended, tries, phase, bounds>>

-----------------------------------------------------------------------------
(* The Plex phase. *)

\* A chunk of matches, committed under the sync's claim.
MatchChunk(r) ==
    /\ At(r, "matching") /\ Holds(r)
    /\ Beat(run.status)
    /\ writer' = r
    /\ UNCHANGED <<granted, library, discogs, process, local, bounds>>

\* The last item was matched, Plex failed, or the claim is gone.
MatchEnds(r) ==
    /\ At(r, "matching")
    /\ Go(r, "releasing")
    /\ UNCHANGED <<tables, process, walk, seen, buffer, intended, tries, phase, told,
                   bounds>>

Released(r) ==
    /\ IF Matching(r) THEN Beat("complete") ELSE UNCHANGED run
    /\ UNCHANGED <<granted, library, writer, discogs>>

\* _release_plex_phase: restore the stock rows unless another run took over.
ReleasePlexPhase(r) ==
    /\ At(r, "releasing")
    /\ Released(r)
    /\ Go(r, IF Matching(r) THEN "restoring" ELSE "done")
    /\ UNCHANGED <<process, walk, seen, buffer, intended, tries, phase, told, bounds>>

-----------------------------------------------------------------------------
(* Failing calls, crashes and time. *)

Fault == faults < MaxFaults /\ faults' = faults + 1 /\ UNCHANGED <<changes, stalls>>

\* The claim's transaction failed, or landed and did not say so: nobody runs it.
ClaimUnanswered(m) ==
    /\ Fault
    /\ starting' = [starting EXCEPT ![m] = "no"]
    /\ \/ starting[m] = "claiming" /\ UNCHANGED <<run, granted, home>>
       \/ Granted(m)
    /\ UNCHANGED <<library, writer, discogs, claim, task, match, local>>

\* Discogs or the database fails a call of the walk; before it, nothing was written.
StepFails(r) ==
    /\ Fault
    /\ \/ At(r, "fetching") /\ Failed(r, "early_error")
       \/ /\ pc[r] \in {"fetching", "collection", "collected", "wantlist", "cleaning", "ending"}
          /\ Failed(r, "error")
    /\ UNCHANGED <<tables, process>>

\* A commit of the walk landed and did not say so.
CommitUnanswered(r) ==
    /\ Fault
    /\ \/ CheckpointDue(r) /\ Holds(r) /\ Committed(r)
       \/ At(r, "cleaning") /\ Holds(r) /\ CleanedUp(r)
       \/ At(r, "ending") /\ Open(r) /\ HandedOver
    /\ Failed(r, "error")
    /\ UNCHANGED process

\* One retry; what is tried next starts over.
Retried(r) == tries' = [tries EXCEPT ![r] = 1 - @]

\* A close failed, or landed and did not say so.  It is tried twice; unresolved, it
\* leaves its outcome to the backstop, and the backstop leaves it to the window.
CloseUnanswered(r) ==
    /\ Fault
    /\ At(r, "closing") \/ At(r, "backstop")
    /\ Closed(r) \/ UNCHANGED tables
    /\ Retried(r)
    /\ IF tries[r] = 0 THEN UNCHANGED <<pc, told, intended>>
       ELSE IF At(r, "closing")
       THEN /\ told' = [told EXCEPT ![r] = Outcome(r)]
            /\ Go(r, "backstop") /\ UNCHANGED intended
       ELSE /\ Go(r, IF phase[r] = "plex" THEN "matching" ELSE "done")
            /\ intended' = [intended EXCEPT ![r] = "none"] /\ UNCHANGED told
    /\ UNCHANGED <<process, walk, seen, buffer, phase>>

\* The same for the release of the Plex phase; unresolved, the rows are restored.
ReleaseUnanswered(r) ==
    /\ Fault
    /\ At(r, "releasing")
    /\ Released(r) \/ UNCHANGED tables
    /\ Retried(r)
    /\ Go(r, IF tries[r] = 0 THEN "releasing" ELSE "restoring")
    /\ UNCHANGED <<process, walk, seen, buffer, intended, phase, told>>

\* The process dies, with its threads.
Crash(m) ==
    /\ Fault
    /\ starting' = [starting EXCEPT ![m] = "no"]
    /\ claim' = [claim EXCEPT ![m] = NoRun]
    /\ task' = [task EXCEPT ![m] = NoRun]
    /\ match' = [match EXCEPT ![m] = FALSE]
    /\ pc' = [r \in Run |-> IF home[r] = m /\ Working(r) THEN "done" ELSE pc[r]]
    /\ buffer' = [r \in Run |-> IF home[r] = m THEN {} ELSE buffer[r]]
    /\ intended' = [r \in Run |-> IF home[r] = m THEN "none" ELSE intended[r]]
    /\ UNCHANGED <<tables, home, walk, seen, tries, phase, told>>

Attended == Working(run.token) \/ \E m \in Machine : claim[m] = run.token

\* A claim nobody works on outlasts the staleness window.
RunExpires ==
    /\ Claimed /\ ~run.stale /\ ~Attended
    /\ run' = [run EXCEPT !.stale = TRUE]
    /\ UNCHANGED <<granted, library, writer, discogs, process, local, bounds>>

\* A worker that is alive falls silent for as long.
RunStalls ==
    /\ stalls < MaxStalls /\ stalls' = stalls + 1
    /\ Claimed /\ ~run.stale /\ Attended
    /\ run' = [run EXCEPT !.stale = TRUE]
    /\ UNCHANGED <<granted, library, writer, discogs, process, local, changes, faults>>

-----------------------------------------------------------------------------

Init ==
    /\ run = [status |-> "none", token |-> NoRun, stale |-> FALSE]
    /\ granted = 0 /\ writer = NoRun
    /\ library = [x \in Release |-> NULL]
    /\ discogs \in [Release -> SUBSET Flag]
    /\ starting = [m \in Machine |-> "no"]
    /\ claim = [m \in Machine |-> NoRun]
    /\ task = [m \in Machine |-> NoRun]
    /\ match = [m \in Machine |-> FALSE]
    /\ home = [r \in Run |-> NULL]
    /\ pc = [r \in Run |-> "unborn"]
    /\ walk = [r \in Run |-> {}]
    /\ seen = [r \in Run |-> {}]
    /\ buffer = [r \in Run |-> {}]
    /\ intended = [r \in Run |-> "none"]
    /\ tries = [r \in Run |-> 0]
    /\ phase = [r \in Run |-> "sync"]
    /\ told = [r \in Run |-> "nothing"]
    /\ changes = 0 /\ stalls = 0 /\ faults = 0

Starts(m) ==
    \/ RequestSync(m) \/ ClaimRun(m) \/ ClaimRefused(m) \/ RegisterTask(m)
    \/ StartMatch(m) \/ MatchOver(m)

Works(r) ==
    \/ FetchCollection(r) \/ FetchWantlist(r)
    \/ \E x \in Release : UpsertItem(r, x)
    \/ Checkpoint(r) \/ CleanUp(r) \/ ClaimLost(r)
    \/ HandOver(r) \/ HandOverRefused(r) \/ EndSync(r)
    \/ CloseRun(r) \/ Backstop(r) \/ Restore(r)
    \/ MatchChunk(r) \/ MatchEnds(r) \/ ReleasePlexPhase(r)

Failures ==
    \/ \E m \in Machine : ClaimUnanswered(m) \/ Crash(m)
    \/ \E r \in Run : StepFails(r) \/ CommitUnanswered(r) \/ CloseUnanswered(r)
                         \/ ReleaseUnanswered(r)

Next ==
    \/ \E m \in Machine : Starts(m)
    \/ \E r \in Run : Works(r)
    \/ \E x \in Release, flags \in SUBSET Flag : ListsChange(x, flags)
    \/ RunExpires \/ RunStalls
    \/ Failures

Spec == Init /\ [][Next]_vars

\* Threads run, a start that has the lock goes on, and silence grows old.
Fairness ==
    /\ \A r \in Run : WF_vars(Works(r))
    /\ \A m \in Machine : WF_vars(ClaimRun(m) \/ ClaimRefused(m) \/ RegisterTask(m))
    /\ WF_vars(RunExpires)

FairSpec == Spec /\ Fairness

-----------------------------------------------------------------------------
(* Properties. *)

Status == {"none", "running", "plex_matching", "complete", "error"}
Place == {"unborn", "fetching", "collection", "collected", "wantlist", "cleaning", "ending",
          "closing", "backstop", "restoring", "matching", "releasing", "done"}

\* Every variable stays in its set: the row of library_sync_runs and the manager's maps.
TypeOK ==
    /\ run \in [status : Status, token : 0..MaxRuns, stale : BOOLEAN]
    /\ granted \in 0..MaxRuns /\ writer \in 0..MaxRuns
    /\ library \in [Release -> (SUBSET Flag) \cup {NULL}]
    /\ discogs \in [Release -> SUBSET Flag]
    /\ starting \in [Machine -> {"no", "claiming", "claimed"}]
    /\ claim \in [Machine -> 0..MaxRuns]
    /\ task \in [Machine -> 0..MaxRuns]
    /\ match \in [Machine -> BOOLEAN]
    /\ home \in [Run -> Machine \cup {NULL}]
    /\ pc \in [Run -> Place]
    /\ walk \in [Run -> SUBSET Release]
    /\ seen \in [Run -> SUBSET Release]
    /\ buffer \in [Run -> SUBSET Release]
    /\ intended \in [Run -> {"none", "complete", "error", "early_error"}]
    /\ tries \in [Run -> 0..1]
    /\ phase \in [Run -> {"sync", "plex"}]
    /\ told \in [Run -> {"nothing", "complete", "error", "taken_over"}]
    /\ changes \in 0..MaxChanges /\ stalls \in 0..MaxStalls /\ faults \in 0..MaxFaults

Wishlisted == {x \in Release : library[x] # NULL /\ "wishlist" \in library[x]}

\* The wantlist the run saw is the library's wishlist, and no row is without a flag.
Reflects(r) == Wishlisted = seen[r] /\ \A x \in Release : library[x] # {}

\* While the row says the sync is complete, the library is what that sync saw: no late
\* commit of an earlier run, no half-done clean-up, no borrowed outcome.
CompleteIsTrue == run.status \in {"complete", "plex_matching"} => Reflects(run.token)

\* What a reader was told of a run's end stands: an expired run is not revived, an
\* outcome is not rewritten, and a sync that ended does not run again under its token.
EndStands ==
    run'.token = run.token =>
        /\ run.stale \/ run.status \in {"complete", "error"} => run' = run
        /\ run.status = "plex_matching" => run'.status \in {"plex_matching", "complete"}

EndIsFinal == [][EndStands]_vars

\* A Plex match of its own runs on no Machine that has a sync allowed to write.
MatchExcludesSync ==
    \A m \in Machine, r \in Run : match[m] /\ home[r] = m /\ Holds(r) => ~Working(r)

\* The runs hold the lease one after the other, and only its holder commits.
Lease == INSTANCE RunLease
             WITH holder <- IF Claimed /\ ~run.stale THEN run.token ELSE NoRun
ImplementsLease == Lease!Spec

\* The user is never locked out: a request can be granted again and again, whatever
\* became of the worker or the Machine that held the claim.
UserCanSync == []<>Claimable

-----------------------------------------------------------------------------
(* The inductive invariant. *)

Walking == {"unborn", "fetching", "collection", "collected", "wantlist", "cleaning", "ending"}

\* The row is the newest claim's, and only a held claim grows old.
RowShape ==
    /\ run.token = granted /\ (run.stale => Claimed)
    /\ run.status = "none" => granted = 0

\* A claim that start_sync is about to register is the newest of its Machine and has no
\* worker yet; a start excludes a Plex match.
StartShape ==
    \A m \in Machine :
        /\ starting[m] # "no" => ~match[m]
        /\ claim[m] # NoRun <=> starting[m] = "claimed"
        /\ claim[m] # NoRun =>
              /\ claim[m] <= granted /\ home[claim[m]] = m /\ pc[claim[m]] = "unborn"
              /\ \A r \in Run : home[r] = m => r <= claim[m]

\* A run without a claim has no worker, and what may write is the task its Machine knows.
Known(r) ==
    /\ r > granted => pc[r] = "unborn" /\ home[r] = NULL
    /\ Holds(r) /\ Working(r) => task[home[r]] = r

\* A run still in its sync phase has not been closed.
Shape(r) ==
    /\ pc[r] = "unborn" => intended[r] = "none"
    /\ pc[r] \in {"unborn", "fetching", "collection", "collected"} => seen[r] = {}
    /\ pc[r] \in {"unborn", "fetching", "collected", "cleaning"} => buffer[r] = {}
    /\ run.token = r /\ pc[r] \in Walking => run.status = "running"
    /\ intended[r] = "complete" => pc[r] \in {"closing", "backstop"}

RunShape == \A r \in Run : Known(r) /\ Shape(r)

\* What the holder of the claim has committed is in the library, and once its clean-up
\* committed, nothing else is.
Written(r) ==
    /\ pc[r] \in {"wantlist", "cleaning"} => seen[r] \subseteq Wishlisted \cup buffer[r]
    /\ pc[r] = "ending" \/ intended[r] = "complete" => Reflects(r)

Progress == \A r \in Run : Holds(r) => Written(r)

Inv ==
    /\ TypeOK /\ RowShape /\ StartShape /\ RunShape /\ Progress
    /\ CompleteIsTrue /\ MatchExcludesSync
=============================================================================
