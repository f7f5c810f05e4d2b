---------------------------- MODULE QueueLanes ----------------------------
(***************************************************************************)
(* The order of crawl_queue: which pending rows a claim takes, in which    *)
(* order it hands them to its worker.  Every statement is one step; that a *)
(* claim skips a row another transaction holds at that moment is left out. *)
(*                                                                         *)
(* The saved rows form a lane of their own ahead of everything routine.  A *)
(* routine row goes by the time it was requested, releases first, a saved  *)
(* one by the time it joined the lane.                                     *)
(***************************************************************************)
EXTENDS Naturals, FiniteSets

CONSTANTS
    LaneRow,            \* the targets, by the id their row gets
    ReleaseRow,         \* those that are releases; the others are stock items
    BatchSize,          \* QUEUE_CLAIM_BATCH_SIZE
    MaxNow              \* bound on the clock

ASSUME QueueLanesAssumption ==
    /\ LaneRow \subseteq Nat /\ IsFiniteSet(LaneRow) /\ ReleaseRow \subseteq LaneRow
    /\ BatchSize \in Nat /\ MaxNow \in Nat

VARIABLES
    lane,       \* crawl_queue: per target, its row; no row has status "none"
    now,        \* CURRENT_TIMESTAMP
    turn        \* history, per target: when it was asked for, and whether by a click

laneVars == <<lane, now, turn>>

\* due: available_at has come; place: where in its batch a claim returned it.
NoRow == [status |-> "none", priority |-> 0, requested |-> 0, due |-> TRUE, place |-> 0]

Pending(r) == lane[r].status = "pending"
Held(r) == lane[r].status = "in_progress"

\* A row that is pending, and nobody's.
Waiting(priority, requested, due) ==
    [status |-> "pending", priority |-> priority, requested |-> requested, due |-> due,
     place |-> 0]

\* What a new request makes of a row.
Fresh(priority) == Waiting(priority, now, TRUE)

Put(r, row) == lane' = [lane EXCEPT ![r] = row]
AskedNow(r, click) == turn' = [turn EXCEPT ![r] = [at |-> now, click |-> click, late |-> FALSE]]

\* enqueue_crawl_queue, enqueue_crawl_queue_for_stock_item, and the revival of
\* backfill_crawl_queue_for_crawler: nothing but a missing or a done row.
Enqueue(r) ==
    /\ lane[r].status \in {"none", "done"}
    /\ Put(r, Fresh(0))
    /\ AskedNow(r, FALSE)
    /\ UNCHANGED now

InLane(r) == Pending(r) /\ lane[r].priority > 0

\* Mutant of Saved: a click is a fresh request, whatever the row was.
SavedAfresh(r) == IF Held(r) THEN [lane[r] EXCEPT !.priority = 1] ELSE Fresh(1)

\* enqueue_crawl_queue_for_saved_stock_item: the row joins the lane, unless it is in it;
\* a deferral stands; a claimed row keeps everything but its priority.
Saved(r) ==
    IF Held(r) THEN [lane[r] EXCEPT !.priority = 1]
    ELSE IF ~Pending(r) THEN Fresh(1)
    ELSE Waiting(1, IF InLane(r) THEN lane[r].requested ELSE now, lane[r].due)

Save(r) ==
    /\ r \notin ReleaseRow
    /\ Put(r, Saved(r))
    /\ IF Held(r) THEN turn' = [turn EXCEPT ![r].late = (@ \/ lane[r].priority = 0)]
       ELSE IF InLane(r) THEN UNCHANGED turn
       ELSE AskedNow(r, TRUE)
    /\ UNCHANGED now

\* ORDER BY priority DESC, (item_key IS NOT NULL), requested_at, id
Before(r, s) ==
    \/ lane[r].priority > lane[s].priority
    \/ /\ lane[r].priority = lane[s].priority
       /\ \/ r \in ReleaseRow /\ s \notin ReleaseRow
          \/ /\ (r \in ReleaseRow) = (s \in ReleaseRow)
             /\ \/ lane[r].requested < lane[s].requested
                \/ lane[r].requested = lane[s].requested /\ r < s

ClaimableRows == {r \in LaneRow : Pending(r) /\ lane[r].due}

\* claim_crawl_queue_batch: the first rows in that order, returned in that order.
ClaimBatch ==
    /\ ClaimableRows # {}
    /\ LET rank(r) == Cardinality({s \in ClaimableRows : Before(s, r)}) + 1
       IN  lane' = [r \in LaneRow |->
              IF r \in ClaimableRows /\ rank(r) <= BatchSize
              THEN [lane[r] EXCEPT !.status = "in_progress", !.place = rank(r)]
              ELSE lane[r]]
    /\ UNCHANGED <<now, turn>>

\* mark_crawl_queue_done
Done(r) ==
    /\ Held(r)
    /\ Put(r, [lane[r] EXCEPT !.status = "done", !.place = 0])
    /\ UNCHANGED <<now, turn>>

\* A row somebody hands back keeps its place.
HandedBack(r, due) == Waiting(lane[r].priority, lane[r].requested, due)

\* defer_crawl_queue_row; and revert_crawl_queue_claim and
\* reclaim_stranded_crawl_queue_rows, which keep available_at.
HandBack(r, due) ==
    /\ Held(r)
    /\ Put(r, HandedBack(r, due))
    /\ UNCHANGED <<now, turn>>

CooldownOver(r) ==
    /\ Pending(r) /\ ~lane[r].due
    /\ Put(r, [lane[r] EXCEPT !.due = TRUE])
    /\ UNCHANGED <<now, turn>>

TimePasses ==
    /\ now < MaxNow /\ now' = now + 1
    /\ UNCHANGED <<lane, turn>>

LaneInit ==
    /\ lane = [r \in LaneRow |-> NoRow] /\ now = 0
    /\ turn = [r \in LaneRow |-> [at |-> 0, click |-> FALSE, late |-> FALSE]]

LaneNext ==
    \/ \E r \in LaneRow :
        \/ Enqueue(r) \/ Save(r) \/ Done(r) \/ HandBack(r, TRUE) \/ HandBack(r, FALSE)
        \/ CooldownOver(r)
    \/ ClaimBatch \/ TimePasses

LaneSpec == LaneInit /\ [][LaneNext]_laneVars

-----------------------------------------------------------------------------

\* Who should go first, by what was asked and not by what the table says: a click before
\* routine work, among clicks the earlier, among routine rows releases and then the earlier.
\* A row saved while a worker held it joins the lane with the place it had before.
ShouldPrecede(r, s) ==
    /\ ~turn[r].late /\ ~turn[s].late
    /\ \/ turn[r].click /\ ~turn[s].click
       \/ /\ turn[r].click /\ turn[s].click /\ turn[r].at < turn[s].at
       \/ /\ ~turn[r].click /\ ~turn[s].click
          /\ \/ r \in ReleaseRow /\ s \notin ReleaseRow
             \/ (r \in ReleaseRow) = (s \in ReleaseRow) /\ turn[r].at < turn[s].at

\* A claim leaves nobody behind who should go before a row it takes, and works through its
\* rows in that order: repeated clicks, deferrals, reverts and reclaims cost no row its
\* place (the comments of claim_crawl_queue_batch and of the save).
ServedInTurn ==
    [][\A r, s \in ClaimableRows :
          (lane'[s].status = "in_progress" /\ ShouldPrecede(r, s))
          => /\ lane'[r].status = "in_progress"
             /\ lane'[r].place < lane'[s].place]_laneVars
=============================================================================
