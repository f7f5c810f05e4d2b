------------------------- MODULE LibrarySyncProofs -------------------------
(*****************************************************************************)
(* The proofs about LibrarySyncRun, for every set of Machines and releases   *)
(* and every bound.                                                          *)
(*                                                                           *)
(* Inv is inductive.  A worker's step is summed up by Moves (what it does to *)
(* the row, the library and the other runs), and each part of Inv follows    *)
(* from that, with one lemma for what the step does to its own run.  The     *)
(* other steps are a granted claim (Granting and the lemmas named for it),   *)
(* and what touches neither the row nor the library.                         *)
(*****************************************************************************)
EXTENDS LibrarySyncRun, TLAPS

\* The worker of r, as the holder, closes the run or releases its Plex phase.
Ended(r) ==
    /\ Holds(r) /\ ~run'.stale /\ run'.status \in {"complete", "error"}
    /\ run'.status = "complete" => run.status = "plex_matching" \/ intended[r] = "complete"
    /\ run.status = "plex_matching" => run'.status = "complete"

\* A close and a release end the run of their worker or leave the row as it is:
\* the fences of finish_library_sync_run and finish_library_sync_plex_phase.
LEMMA Closes ==
    ASSUME TypeOK, NEW r \in Run, Closed(r) \/ Released(r)
    PROVE  /\ run' \in [status : Status, token : 0..MaxRuns, stale : BOOLEAN]
           /\ run'.token = run.token
           /\ run' = run \/ Ended(r)
           /\ UNCHANGED <<granted, library, writer, discogs>>
<1>1. CASE UNCHANGED run
  BY <1>1 DEF TypeOK, Closed, Released
<1>2. CASE Closed(r) /\ Open(r)
  <2>1. run' = [status |-> Outcome(r), token |-> run.token, stale |-> FALSE]
    BY <1>2 DEF Closed, Beat
  <2>2. Holds(r) /\ run.status = "running"
    BY <1>2 DEF Open, Holds, Claimed
  <2>3. /\ Outcome(r) \in {"complete", "error"}
        /\ Outcome(r) = "complete" => intended[r] = "complete"
    BY DEF Outcome
  <2>4. Ended(r)
    BY <2>1, <2>2, <2>3 DEF Ended
  <2> QED BY <1>2, <2>1, <2>3, <2>4 DEF TypeOK, Closed, Status
<1>3. CASE Released(r) /\ Matching(r)
  <2>1. run' = [status |-> "complete", token |-> run.token, stale |-> FALSE]
    BY <1>3 DEF Released, Beat
  <2>2. Holds(r) /\ run.status = "plex_matching"
    BY <1>3 DEF Matching, Holds, Claimed
  <2>3. Ended(r)
    BY <2>1, <2>2 DEF Ended
  <2> QED BY <1>3, <2>1, <2>3 DEF TypeOK, Released, Status
<1> QED BY <1>1, <1>2, <1>3 DEF Closed, Released

\* A step of the worker of r, answered or failing.
WorkerStep(r) ==
    \/ Works(r) \/ StepFails(r)
    \/ CommitUnanswered(r) \/ CloseUnanswered(r) \/ ReleaseUnanswered(r)

\* What every step of the worker of r does: it moves r and no other run, and touches the
\* row and the library as the holder or not at all.
Moves(r) ==
    /\ Working(r) /\ pc'[r] # "unborn" /\ UNCHANGED <<process, granted>>
    /\ \A q \in Run : q # r => /\ pc'[q] = pc[q] /\ seen'[q] = seen[q]
                               /\ buffer'[q] = buffer[q] /\ intended'[q] = intended[q]
    /\ run'.token = run.token
    /\ \/ UNCHANGED run
       \/ /\ Holds(r) /\ ~run'.stale /\ run'.status # "none"
          /\ run.status = "plex_matching" => run'.status \in {"plex_matching", "complete"}
    /\ \/ UNCHANGED writer
       \/ writer' = r /\ Holds(r) /\ Holds(r)'
    /\ library' = library \/ Holds(r)

\* Every worker step moves its own run and writes only as the holder: the fences of
\* _sync_collection_blocking, one case per action.
LEMMA Moving ==
    ASSUME TypeOK, NEW r \in Run, WorkerStep(r) PROVE Moves(r)
<1>1. ASSUME FetchCollection(r) PROVE Moves(r)
  BY <1>1 DEF FetchCollection, At, Go, tables, Moves, Working
<1>2. ASSUME FetchWantlist(r) PROVE Moves(r)
  BY <1>2 DEF FetchWantlist, At, Go, tables, Moves, Working
<1>3. ASSUME NEW x \in Release, UpsertItem(r, x) PROVE Moves(r)
  BY <1>3 DEF UpsertItem, At, tables, Moves, Working
<1>4. ASSUME Checkpoint(r) PROVE Moves(r)
  BY <1>4 DEF Checkpoint, CheckpointDue, At, Holds, Claimed, Committed, Beat, Go, Moves, Working
<1>5. ASSUME CleanUp(r) PROVE Moves(r)
  BY <1>5 DEF CleanUp, At, Holds, Claimed, CleanedUp, Beat, Go, Moves, Working
<1>6. ASSUME ClaimLost(r) PROVE Moves(r)
  BY <1>6 DEF ClaimLost, CheckpointDue, At, Lost, Go, tables, Moves, Working
<1>7. ASSUME HandOver(r) PROVE Moves(r)
  BY <1>7 DEF HandOver, At, Open, HandedOver, Beat, Go, Moves, Working, Holds, Claimed
<1>8. ASSUME HandOverRefused(r) PROVE Moves(r)
  BY <1>8 DEF HandOverRefused, At, Lost, Go, tables, Moves, Working
<1>9. ASSUME EndSync(r) PROVE Moves(r)
  BY <1>9 DEF EndSync, At, Go, tables, Moves, Working
<1>10. ASSUME CloseRun(r) PROVE Moves(r)
  BY Closes, <1>10 DEF CloseRun, At, CloseTaken, Go, CloseNotTaken, Moves, TypeOK, Working, Ended
<1>11. ASSUME Backstop(r) PROVE Moves(r)
  BY Closes, <1>11 DEF Backstop, At, Go, Moves, Working, Ended
<1>12. ASSUME Restore(r) PROVE Moves(r)
  BY <1>12 DEF Restore, At, Go, tables, Moves, Working
<1>13. ASSUME MatchChunk(r) PROVE Moves(r)
  BY <1>13 DEF MatchChunk, At, Holds, Claimed, Beat, local, Moves, Working
<1>14. ASSUME MatchEnds(r) PROVE Moves(r)
  BY <1>14 DEF MatchEnds, At, Go, tables, Moves, Working
<1>15. ASSUME ReleasePlexPhase(r) PROVE Moves(r)
  BY Closes, <1>15 DEF ReleasePlexPhase, At, Go, Moves, Working, Ended
<1>16. ASSUME StepFails(r) PROVE Moves(r)
  BY <1>16 DEF StepFails, At, Failed, Go, tables, Moves, TypeOK, Working
<1>17. ASSUME CommitUnanswered(r) PROVE Moves(r)
  BY <1>17 DEF CommitUnanswered, CheckpointDue, At, Holds, Claimed, Committed, Beat, CleanedUp,
      Open, HandedOver, Failed, Go, Moves, Working
<1>18. ASSUME CloseUnanswered(r) PROVE Moves(r)
  BY Closes, <1>18 DEF CloseUnanswered, At, tables, Go, Moves, TypeOK, Working, Ended
<1>19. ASSUME ReleaseUnanswered(r) PROVE Moves(r)
  BY Closes, <1>19 DEF ReleaseUnanswered, At, tables, Go, Moves, Working, Ended
<1> QED BY <1>1, <1>2, <1>3, <1>4, <1>5, <1>6, <1>7, <1>8, <1>9, <1>10, <1>11, <1>12, <1>13,
    <1>14, <1>15, <1>16, <1>17, <1>18, <1>19 DEF WorkerStep, Works

\* A worker's step leaves the claims that start_sync is about to register.
LEMMA StartKept == ASSUME Inv, NEW r \in Run, Moves(r) PROVE StartShape'
BY DEF Inv, TypeOK, StartShape, Moves, process, Run, NoRun, Working

\* A worker's step leaves the row with the newest token.
LEMMA RowKept == ASSUME Inv, NEW r \in Run, Moves(r) PROVE RowShape'
BY DEF Inv, RowShape, Moves, Claimed

\* A worker's step makes no run known, and none forgotten.
LEMMA KnownKept == ASSUME Inv, NEW r \in Run, Moves(r) PROVE \A q \in Run : Known(q)'
BY DEF Inv, RunShape, Known, Moves, process, Holds, Claimed, Working

\* A worker's step moves one run; the other runs stay in their places.
LEMMA ShapeKept == ASSUME Inv, NEW r \in Run, Moves(r), Shape(r)' PROVE RunShape'
<1> SUFFICES ASSUME NEW q \in Run, q # r PROVE Shape(q)'
  BY KnownKept DEF RunShape, Known, Shape
<1> QED BY DEF Inv, RunShape, Shape, Moves, Holds

\* If the worker's own run wrote what it should, the library progressed: no other run
\* holds the claim.
LEMMA ProgressKept ==
    ASSUME Inv, NEW r \in Run, Moves(r), Holds(r)' => Written(r)' PROVE Progress'
<1> SUFFICES ASSUME NEW q \in Run, q # r, Holds(q)' PROVE Written(q)'
  BY DEF Progress
<1>1. Holds(q) /\ ~Holds(r)
  BY DEF Moves, Holds, Claimed
<1> QED BY <1>1 DEF Inv, Progress, Written, Moves, Reflects, Wishlisted

\* A worker's step starts no sync beside a Plex match of its Machine.
LEMMA MatchKept == ASSUME Inv, NEW r \in Run, Moves(r) PROVE MatchExcludesSync'
BY DEF Inv, MatchExcludesSync, Moves, process, Holds, Claimed, Working

\* Every worker step keeps the types of the variables.
LEMMA TypeSteps ==
    ASSUME TypeOK, NEW r \in Run, WorkerStep(r) PROVE TypeOK'
<1>1. ASSUME FetchCollection(r) PROVE TypeOK'
  BY SyncAssumption, <1>1 DEF FetchCollection, Listed, Go, tables, process, bounds, TypeOK, Place
<1>2. ASSUME FetchWantlist(r) PROVE TypeOK'
  BY SyncAssumption, <1>2 DEF FetchWantlist, Listed, Go, tables, process, bounds, TypeOK, Place
<1>3. ASSUME NEW x \in Release, UpsertItem(r, x) PROVE TypeOK'
  BY SyncAssumption, <1>3 DEF UpsertItem, tables, process, bounds, TypeOK
<1>4. ASSUME Checkpoint(r) PROVE TypeOK'
  BY SyncAssumption, <1>4 DEF Checkpoint, Committed, Beat, Upserted, Flags, FlagOf, Go, process,
      bounds, TypeOK, Run, Place, Flag
<1>5. ASSUME CleanUp(r) PROVE TypeOK'
  BY SyncAssumption, <1>5 DEF CleanUp, CleanedUp, Beat, Cleaned, Go, process, bounds, TypeOK,
      Run, Place
<1>6. ASSUME ClaimLost(r) PROVE TypeOK'
  BY SyncAssumption, <1>6 DEF ClaimLost, Lost, Go, tables, process, bounds, TypeOK, Place
<1>7. ASSUME HandOver(r) PROVE TypeOK'
  BY SyncAssumption, <1>7 DEF HandOver, HandedOver, Beat, Go, process, bounds, TypeOK, Place,
      Status
<1>8. ASSUME HandOverRefused(r) PROVE TypeOK'
  BY SyncAssumption, <1>8 DEF HandOverRefused, Lost, Go, tables, process, bounds, TypeOK, Place
<1>9. ASSUME EndSync(r) PROVE TypeOK'
  BY SyncAssumption, <1>9 DEF EndSync, Go, tables, process, bounds, TypeOK, Place
<1>10. ASSUME CloseRun(r) PROVE TypeOK'
  <2>1. /\ pc' \in [Run -> Place] /\ pc'[r] \in {"restoring", "backstop"}
        /\ intended' = [intended EXCEPT ![r] = "none"]
        /\ told' \in [Run -> {"nothing", "complete", "error", "taken_over"}]
    BY <1>10 DEF CloseRun, CloseTaken, CloseNotTaken, Go, TypeOK, Place, Outcome
  <2> QED BY <1>10, <2>1, Closes DEF CloseRun, process, bounds, TypeOK
<1>11. ASSUME Backstop(r) PROVE TypeOK'
  BY Closes, SyncAssumption, <1>11 DEF Backstop, Go, process, bounds, TypeOK, Place
<1>12. ASSUME Restore(r) PROVE TypeOK'
  BY SyncAssumption, <1>12 DEF Restore, Go, tables, process, bounds, TypeOK, Place
<1>13. ASSUME MatchChunk(r) PROVE TypeOK'
  BY SyncAssumption, <1>13 DEF MatchChunk, Beat, process, local, bounds, TypeOK, Run
<1>14. ASSUME MatchEnds(r) PROVE TypeOK'
  BY SyncAssumption, <1>14 DEF MatchEnds, Go, tables, process, bounds, TypeOK, Place
<1>15. ASSUME ReleasePlexPhase(r) PROVE TypeOK'
  BY Closes, SyncAssumption, <1>15 DEF ReleasePlexPhase, Go, process, bounds, TypeOK, Place
<1>16. ASSUME StepFails(r) PROVE TypeOK'
  <2>1. CASE Failed(r, "early_error")
    BY SyncAssumption, <1>16, <2>1 DEF StepFails, Fault, Failed, Go, tables, process, TypeOK,
        Place
  <2>2. CASE Failed(r, "error")
    BY SyncAssumption, <1>16, <2>2 DEF StepFails, Fault, Failed, Go, tables, process, TypeOK,
        Place
  <2> QED BY <1>16, <2>1, <2>2 DEF StepFails
<1>17. ASSUME CommitUnanswered(r) PROVE TypeOK'
  <2>1. CASE Committed(r)
    BY SyncAssumption, <1>17, <2>1 DEF CommitUnanswered, Fault, Committed, Beat, Upserted, Flags,
        FlagOf, Failed, Go, process, TypeOK, Run, Place, Flag
  <2>2. CASE CleanedUp(r)
    BY SyncAssumption, <1>17, <2>2 DEF CommitUnanswered, Fault, Beat, CleanedUp, Cleaned, Failed,
        Go, process, TypeOK, Run, Place
  <2>3. CASE HandedOver
    BY SyncAssumption, <1>17, <2>3 DEF CommitUnanswered, Fault, Beat, HandedOver, Failed, Go,
        process, TypeOK, Place, Status
  <2> QED BY <1>17, <2>1, <2>2, <2>3 DEF CommitUnanswered
<1>18. ASSUME CloseUnanswered(r) PROVE TypeOK'
  <2>1. run' \in [status : Status, token : 0..MaxRuns, stale : BOOLEAN]
        /\ UNCHANGED <<granted, library, writer, discogs>>
    BY <1>18, Closes DEF CloseUnanswered, tables, TypeOK
  <2>2. /\ pc' \in [Run -> Place]
        /\ intended' \in [Run -> {"none", "complete", "error", "early_error"}]
        /\ told' \in [Run -> {"nothing", "complete", "error", "taken_over"}]
    <3>1. CASE tries[r] = 0
      BY <1>18, <3>1 DEF CloseUnanswered, TypeOK
    <3>2. CASE tries[r] # 0 /\ At(r, "closing")
      BY <1>18, <3>2 DEF CloseUnanswered, Go, TypeOK, Place, Outcome
    <3>3. CASE tries[r] # 0 /\ ~At(r, "closing")
      BY <1>18, <3>3 DEF CloseUnanswered, Go, TypeOK, Place
    <3> QED BY <3>1, <3>2, <3>3
  <2>3. tries' \in [Run -> 0..1] /\ faults' \in 0..MaxFaults
    BY <1>18, SyncAssumption DEF CloseUnanswered, Retried, Fault, TypeOK
  <2> QED BY <1>18, <2>1, <2>2, <2>3 DEF CloseUnanswered, process, Fault, TypeOK
<1>19. ASSUME ReleaseUnanswered(r) PROVE TypeOK'
  BY Closes, SyncAssumption, <1>19 DEF ReleaseUnanswered, Fault, tables, Retried, Go, process,
      TypeOK, Place
<1> QED BY <1>1, <1>2, <1>3, <1>4, <1>5, <1>6, <1>7, <1>8, <1>9, <1>10, <1>11, <1>12, <1>13,
    <1>14, <1>15, <1>16, <1>17, <1>18, <1>19 DEF WorkerStep, Works

\* Every worker step leaves its own run in a place that fits its row and its outcome.
LEMMA ShapeSteps ==
    ASSUME Inv, NEW r \in Run, WorkerStep(r) PROVE Shape(r)'
<1>1. ASSUME FetchCollection(r) PROVE Shape(r)'
  BY <1>1 DEF FetchCollection, At, Listed, Go, tables, process, Shape, Inv, RunShape, Walking
<1>2. ASSUME FetchWantlist(r) PROVE Shape(r)'
  BY <1>2 DEF FetchWantlist, At, Listed, Go, tables, process, Shape, Inv, RunShape, Walking
<1>3. ASSUME NEW x \in Release, UpsertItem(r, x) PROVE Shape(r)'
  BY <1>3 DEF UpsertItem, At, tables, Shape, Inv, RunShape
<1>4. ASSUME Checkpoint(r) PROVE Shape(r)'
  BY <1>4 DEF Checkpoint, CheckpointDue, At, Committed, Beat, Go, Shape, Inv, TypeOK, RunShape,
      Walking
<1>5. ASSUME CleanUp(r) PROVE Shape(r)'
  BY <1>5 DEF CleanUp, At, Holds, Claimed, CleanedUp, Beat, Go, process, Shape, Inv, RunShape,
      Walking
<1>6. ASSUME ClaimLost(r) PROVE Shape(r)'
  BY <1>6 DEF ClaimLost, Lost, Go, Shape, Inv, TypeOK, Walking
<1>7. ASSUME HandOver(r) PROVE Shape(r)'
  BY <1>7 DEF HandOver, Go, Shape, Inv, TypeOK, Walking
<1>8. ASSUME HandOverRefused(r) PROVE Shape(r)'
  BY <1>8 DEF HandOverRefused, Lost, Go, Shape, Inv, TypeOK, Walking
<1>9. ASSUME EndSync(r) PROVE Shape(r)'
  BY <1>9 DEF EndSync, Go, Shape, Inv, TypeOK, Walking
<1>10. ASSUME CloseRun(r) PROVE Shape(r)'
  <2>1. pc'[r] \in {"restoring", "backstop"} /\ intended'[r] = "none"
    BY <1>10 DEF CloseRun, CloseTaken, CloseNotTaken, Go, TypeOK, Inv
  <2> QED BY <2>1 DEF Shape, Walking
<1>11. ASSUME Backstop(r) PROVE Shape(r)'
  BY Closes, <1>11 DEF Backstop, Go, Shape, Inv, TypeOK, Walking
<1>12. ASSUME Restore(r) PROVE Shape(r)'
  BY <1>12 DEF Restore, At, Go, tables, process, Shape, Inv, RunShape, Walking
<1>13. ASSUME MatchChunk(r) PROVE Shape(r)'
  BY <1>13 DEF MatchChunk, Beat, local, Shape, Inv, RunShape
<1>14. ASSUME MatchEnds(r) PROVE Shape(r)'
  BY <1>14 DEF MatchEnds, At, Go, tables, process, Shape, Inv, RunShape, Walking
<1>15. ASSUME ReleasePlexPhase(r) PROVE Shape(r)'
  BY Closes, <1>15 DEF ReleasePlexPhase, At, Go, process, Shape, Inv, RunShape, Walking
<1>16. ASSUME StepFails(r) PROVE Shape(r)'
  BY <1>16 DEF StepFails, At, Failed, Go, tables, process, Shape, Inv, TypeOK, RunShape,
      RowShape, Walking, Working
<1>17. ASSUME CommitUnanswered(r) PROVE Shape(r)'
  BY <1>17 DEF CommitUnanswered, Failed, Go, Shape, Inv, TypeOK, Walking
<1>18. ASSUME CloseUnanswered(r) PROVE Shape(r)'
  <2>1. pc'[r] \in {"closing", "backstop", "matching", "done"}
    BY <1>18 DEF CloseUnanswered, At, Go, TypeOK, Inv
  <2>2. \/ intended'[r] = "none"
        \/ intended'[r] = intended[r] /\ pc'[r] \in {"closing", "backstop"}
    BY <1>18 DEF CloseUnanswered, At, Go, TypeOK, Inv
  <2> QED BY <1>18, <2>1, <2>2 DEF Shape, Walking
<1>19. ASSUME ReleaseUnanswered(r) PROVE Shape(r)'
  BY Closes, <1>19 DEF ReleaseUnanswered, At, tables, Go, process, Shape, Inv, RunShape, Walking
<1> QED BY <1>1, <1>2, <1>3, <1>4, <1>5, <1>6, <1>7, <1>8, <1>9, <1>10, <1>11, <1>12, <1>13,
    <1>14, <1>15, <1>16, <1>17, <1>18, <1>19 DEF WorkerStep, Works

\* After every worker step a run that still holds the claim has written what it saw, and
\* after its clean-up nothing else: checkpoint and clean-up commit under the claim check.
LEMMA WrittenSteps ==
    ASSUME Inv, NEW r \in Run, WorkerStep(r) PROVE Holds(r)' => Written(r)'
<1>1. ASSUME FetchCollection(r) PROVE Holds(r)' => Written(r)'
  BY <1>1 DEF FetchCollection, At, Go, Written, Inv, RunShape, Shape
<1>2. ASSUME FetchWantlist(r) PROVE Holds(r)' => Written(r)'
  BY <1>2 DEF FetchWantlist, At, Go, Written, Inv, RunShape, Shape
<1>3. ASSUME NEW x \in Release, UpsertItem(r, x) PROVE Holds(r)' => Written(r)'
  <2>1. Holds(r)' => Holds(r)
    BY <1>3 DEF UpsertItem, tables, Holds, Claimed
  <2>2. UNCHANGED <<library, pc, intended>> /\ pc[r] \in {"collection", "wantlist"}
    BY <1>3 DEF UpsertItem, tables, At
  <2>3. intended[r] # "complete"
    BY <2>2 DEF Inv, RunShape, Shape
  <2>4. CASE At(r, "collection")
    BY <1>3, <2>2, <2>3, <2>4 DEF At, Written
  <2>5. CASE At(r, "wantlist")
    <3>1. seen'[r] = seen[r] \cup {x} /\ buffer'[r] = buffer[r] \cup {x}
      BY <1>3, <2>5 DEF UpsertItem, TypeOK, Inv
    <3>2. Holds(r) => seen[r] \subseteq Wishlisted \cup buffer[r]
      BY <2>5 DEF At, Inv, Progress, Written
    <3> QED BY <2>1, <2>2, <2>3, <2>5, <3>1, <3>2 DEF At, Written, Wishlisted
  <2> QED BY <1>3, <2>4, <2>5 DEF UpsertItem
<1>4. ASSUME Checkpoint(r) PROVE Holds(r)' => Written(r)'
  <2>1. Holds(r) /\ library' = Upserted(library, buffer[r], FlagOf(r)) /\ UNCHANGED <<seen,
      intended>>
    BY <1>4 DEF Checkpoint, Committed
  <2>2. intended[r] # "complete" /\ pc'[r] \in {pc[r], "collected",
      "cleaning"} /\ pc[r] # "ending"
    BY <1>4 DEF Checkpoint, CheckpointDue, At, Go, Inv, RunShape, Shape
  <2>3. CASE At(r, "collection")
    BY <1>4, <2>2, <2>3 DEF Checkpoint, Go, At, Written
  <2>4. CASE At(r, "wantlist")
    <3>1. seen[r] \subseteq Wishlisted \cup buffer[r]
      BY <2>1, <2>4 DEF At, Inv, Progress, Written
    <3>2. \A x \in Release : x \in Wishlisted \cup buffer[r] => x \in Wishlisted'
      BY <2>1, <2>4, SyncAssumption DEF Upserted, Flags, FlagOf, At, Wishlisted, Inv, TypeOK, Flag
    <3>3. seen[r] \subseteq Wishlisted'
      BY <3>1, <3>2 DEF Inv, TypeOK
    <3> QED BY <2>1, <2>2, <2>4, <3>3 DEF At, Written
  <2> QED BY <1>4, <2>3, <2>4 DEF Checkpoint, CheckpointDue
<1>5. ASSUME CleanUp(r) PROVE Holds(r)' => Written(r)'
  <2>1. Holds(r) /\ Written(r) /\ pc[r] = "cleaning" /\ buffer[r] = {}
    BY <1>5 DEF CleanUp, At, Inv, Progress, RunShape, Shape
  <2>2. seen[r] \subseteq Wishlisted
    BY <2>1 DEF Written
  <2>3. Reflects(r)'
    BY <1>5, <2>2, SyncAssumption DEF CleanUp, CleanedUp, Cleaned, Reflects, Wishlisted
  <2> QED BY <1>5, <2>1, <2>3 DEF CleanUp, Go, Written, Inv, TypeOK
<1>6. ASSUME ClaimLost(r) PROVE Holds(r)' => Written(r)'
  BY <1>6 DEF ClaimLost, Lost, Go, Written, Inv, TypeOK
<1>7. ASSUME HandOver(r) PROVE Holds(r)' => Written(r)'
  BY <1>7 DEF HandOver, At, Go, Written, Inv, TypeOK, RunShape, Shape
<1>8. ASSUME HandOverRefused(r) PROVE Holds(r)' => Written(r)'
  BY <1>8 DEF HandOverRefused, Lost, Go, Written, Inv, TypeOK
<1>9. ASSUME EndSync(r) PROVE Holds(r)' => Written(r)'
  <2>1. Holds(r)' => Holds(r)
    BY <1>9 DEF EndSync, tables, Holds, Claimed
  <2>2. ASSUME Holds(r) PROVE Reflects(r)
    BY <1>9, <2>2 DEF EndSync, At, Inv, Progress, Written
  <2>3. Reflects(r) => Reflects(r)'
    BY <1>9 DEF EndSync, tables, Reflects, Wishlisted
  <2> QED BY <1>9, <2>1, <2>2, <2>3 DEF EndSync, Go, Written, Inv, TypeOK
<1>10. ASSUME CloseRun(r) PROVE Holds(r)' => Written(r)'
  BY Closes, <1>10 DEF CloseRun, CloseTaken, Go, CloseNotTaken, Written, Inv, TypeOK
<1>11. ASSUME Backstop(r) PROVE Holds(r)' => Written(r)'
  BY Closes, <1>11 DEF Backstop, Go, Written, Inv, TypeOK
<1>12. ASSUME Restore(r) PROVE Holds(r)' => Written(r)'
  BY <1>12 DEF Restore, At, Go, Written, Inv, RunShape, Shape
<1>13. ASSUME MatchChunk(r) PROVE Holds(r)' => Written(r)'
  BY <1>13 DEF MatchChunk, local, Written, Wishlisted, Reflects, Inv, Progress
<1>14. ASSUME MatchEnds(r) PROVE Holds(r)' => Written(r)'
  BY <1>14 DEF MatchEnds, At, Go, Written, Inv, RunShape, Shape
<1>15. ASSUME ReleasePlexPhase(r) PROVE Holds(r)' => Written(r)'
  BY Closes, <1>15 DEF ReleasePlexPhase, At, Go, Written, Inv, RunShape, Shape
<1>16. ASSUME StepFails(r) PROVE Holds(r)' => Written(r)'
  BY <1>16 DEF StepFails, Failed, Go, Written, Inv, TypeOK
<1>17. ASSUME CommitUnanswered(r) PROVE Holds(r)' => Written(r)'
  BY <1>17 DEF CommitUnanswered, Failed, Go, Written, Inv, TypeOK
<1>18. ASSUME CloseUnanswered(r) PROVE Holds(r)' => Written(r)'
  <2>1. pc'[r] \in {"closing", "backstop", "matching", "done"}
    BY <1>18 DEF CloseUnanswered, At, Go, TypeOK, Inv
  <2>2. intended'[r] = "none" \/ intended'[r] = intended[r]
    BY <1>18 DEF CloseUnanswered, TypeOK, Inv
  <2>3. UNCHANGED <<library, seen>> /\ (run' = run \/ Ended(r))
    BY <1>18, Closes DEF CloseUnanswered, tables, Inv
  <2>4. Holds(r)' => Holds(r)
    BY <2>3 DEF Ended, Holds, Claimed
  <2> QED BY <2>1, <2>2, <2>3, <2>4 DEF Written, Reflects, Wishlisted, Inv, Progress
<1>19. ASSUME ReleaseUnanswered(r) PROVE Holds(r)' => Written(r)'
  BY Closes, <1>19 DEF ReleaseUnanswered, At, Go, Written, Inv, RunShape, Shape
<1> QED BY <1>1, <1>2, <1>3, <1>4, <1>5, <1>6, <1>7, <1>8, <1>9, <1>10, <1>11, <1>12, <1>13,
    <1>14, <1>15, <1>16, <1>17, <1>18, <1>19 DEF WorkerStep, Works

\* After every worker step the library is true to a completed run: only the run that
\* cleaned up can record the completion.
LEMMA CompleteSteps ==
    ASSUME Inv, NEW r \in Run, WorkerStep(r) PROVE CompleteIsTrue'
<1>1. ASSUME FetchCollection(r) PROVE CompleteIsTrue'
  BY <1>1 DEF FetchCollection, tables, CompleteIsTrue, Reflects, Wishlisted, Inv
<1>2. ASSUME FetchWantlist(r) PROVE CompleteIsTrue'
  BY <1>2 DEF FetchWantlist, tables, CompleteIsTrue, Reflects, Wishlisted, Inv
<1>3. ASSUME NEW x \in Release, UpsertItem(r, x) PROVE CompleteIsTrue'
  BY <1>3 DEF UpsertItem, At, tables, CompleteIsTrue, Reflects, Wishlisted, Inv, RunShape, Shape,
      Walking
<1>4. ASSUME Checkpoint(r) PROVE CompleteIsTrue'
  BY <1>4 DEF Checkpoint, CheckpointDue, At, Holds, Committed, Beat, CompleteIsTrue, Inv,
      RunShape, Shape, Walking
<1>5. ASSUME CleanUp(r) PROVE CompleteIsTrue'
  BY <1>5 DEF CleanUp, At, Holds, CleanedUp, Beat, CompleteIsTrue, Inv, RunShape, Shape, Walking
<1>6. ASSUME ClaimLost(r) PROVE CompleteIsTrue'
  BY <1>6 DEF ClaimLost, Lost, tables, CompleteIsTrue, Reflects, Wishlisted, Inv
<1>7. ASSUME HandOver(r) PROVE CompleteIsTrue'
  BY <1>7 DEF HandOver, At, Open, HandedOver, Beat, CompleteIsTrue, Reflects, Wishlisted, Inv,
      Progress, Written, Holds, Claimed
<1>8. ASSUME HandOverRefused(r) PROVE CompleteIsTrue'
  BY <1>8 DEF HandOverRefused, Lost, tables, CompleteIsTrue, Reflects, Wishlisted, Inv
<1>9. ASSUME EndSync(r) PROVE CompleteIsTrue'
  BY <1>9 DEF EndSync, tables, CompleteIsTrue, Reflects, Wishlisted, Inv
<1>10. ASSUME CloseRun(r) PROVE CompleteIsTrue'
  BY Closes, <1>10 DEF CloseRun, CompleteIsTrue, Reflects, Wishlisted, Inv, Progress, Written,
      Holds, Ended
<1>11. ASSUME Backstop(r) PROVE CompleteIsTrue'
  BY Closes, <1>11 DEF Backstop, CompleteIsTrue, Reflects, Wishlisted, Inv, Progress, Written,
      Holds, Ended
<1>12. ASSUME Restore(r) PROVE CompleteIsTrue'
  BY <1>12 DEF Restore, tables, CompleteIsTrue, Reflects, Wishlisted, Inv
<1>13. ASSUME MatchChunk(r) PROVE CompleteIsTrue'
  BY <1>13 DEF MatchChunk, Beat, local, CompleteIsTrue, Reflects, Wishlisted, Inv
<1>14. ASSUME MatchEnds(r) PROVE CompleteIsTrue'
  BY <1>14 DEF MatchEnds, tables, CompleteIsTrue, Reflects, Wishlisted, Inv
<1>15. ASSUME ReleasePlexPhase(r) PROVE CompleteIsTrue'
  BY Closes, <1>15 DEF ReleasePlexPhase, CompleteIsTrue, Reflects, Wishlisted, Inv, Progress,
      Written, Holds, Ended
<1>16. ASSUME StepFails(r) PROVE CompleteIsTrue'
  <2>1. CASE Failed(r, "early_error")
    BY <1>16, <2>1 DEF StepFails, Failed, tables, CompleteIsTrue, Reflects, Wishlisted, Inv
  <2>2. CASE Failed(r, "error")
    BY <1>16, <2>2 DEF StepFails, Failed, tables, CompleteIsTrue, Reflects, Wishlisted, Inv
  <2> QED BY <1>16, <2>1, <2>2 DEF StepFails
<1>17. ASSUME CommitUnanswered(r) PROVE CompleteIsTrue'
  BY <1>17 DEF CommitUnanswered, CheckpointDue, At, Holds, Claimed, Committed, Beat, CleanedUp,
      Open, HandedOver, Failed, CompleteIsTrue, Reflects, Wishlisted, Inv, RunShape, Shape,
      Progress, Written, Walking
<1>18. ASSUME CloseUnanswered(r) PROVE CompleteIsTrue'
  BY Closes, <1>18 DEF CloseUnanswered, tables, CompleteIsTrue, Reflects, Wishlisted, Inv,
      Progress, Written, Holds, Ended
<1>19. ASSUME ReleaseUnanswered(r) PROVE CompleteIsTrue'
  BY Closes, <1>19 DEF ReleaseUnanswered, tables, CompleteIsTrue, Reflects, Wishlisted, Inv,
      Progress, Written, Holds, Ended
<1> QED BY <1>1, <1>2, <1>3, <1>4, <1>5, <1>6, <1>7, <1>8, <1>9, <1>10, <1>11, <1>12, <1>13,
    <1>14, <1>15, <1>16, <1>17, <1>18, <1>19 DEF WorkerStep, Works

\* A step that is no worker's: starts, matches, edits, crashes and time.
OtherStep ==
    \/ \E m \in Machine : Starts(m) \/ ClaimUnanswered(m) \/ Crash(m)
    \/ \E x \in Release, flags \in SUBSET Flag : ListsChange(x, flags)
    \/ RunExpires \/ RunStalls

\* A claim is granted to the next token, and the user's row is its own.
LEMMA Granting ==
    ASSUME TypeOK, NEW m \in Machine, Granted(m)
    PROVE  /\ granted + 1 \in Run /\ granted' = granted + 1
           /\ run' = [status |-> "running", token |-> granted + 1, stale |-> FALSE]
           /\ home' = [home EXCEPT ![granted + 1] = m]
           /\ starting[m] = "claiming" /\ Claimable
BY SyncAssumption DEF Granted, TypeOK, Run
\* A granted claim keeps the types.
LEMMA GrantType == ASSUME TypeOK, NEW m \in Machine, Granted(m)
 PROVE  /\ granted' \in 0..MaxRuns
        /\ run' \in [status : Status, token : 0..MaxRuns, stale : BOOLEAN]
        /\ home' \in [Run -> Machine \cup {NULL}]
<1>1. granted + 1 \in 0..MaxRuns /\ granted' = granted + 1
  BY Granting, SyncAssumption DEF Run, TypeOK
<1>2. run' \in [status : Status, token : 0..MaxRuns, stale : BOOLEAN]
  BY <1>1, SyncAssumption DEF Granted, Status
<1>3. home' \in [Run -> Machine \cup {NULL}]
  BY Granting DEF TypeOK
<1> QED BY <1>1, <1>2, <1>3

\* A claim that waits to be registered while another is granted on its Machine: there is
\* none, the start lock is held by one start.
LEMMA GrantStart == ASSUME Inv, NEW m \in Machine, Granted(m), NEW q \in Machine, UNCHANGED pc,
    claim[q] # NoRun
 PROVE  /\ claim[q] <= granted' /\ home'[claim[q]] = q /\ pc'[claim[q]] = "unborn"
              /\ \A r \in Run : home'[r] = q => r <= claim[q]
<1>1. q # m
  BY Granting DEF Inv, StartShape
<1>2. claim[q] <= granted /\ claim[q] \in Run /\ claim[q] # granted + 1
  BY SyncAssumption DEF Inv, StartShape, TypeOK, Run, NoRun
<1>3. home'[claim[q]] = q
  BY <1>2, Granting DEF Inv, StartShape, TypeOK
<1>4. ASSUME NEW r \in Run, home'[r] = q PROVE r <= claim[q]
  BY <1>1, <1>4, Granting DEF Inv, StartShape, TypeOK
<1> QED BY <1>2, <1>3, <1>4, Granting, SyncAssumption DEF Inv, StartShape, TypeOK

\* The granted claim is the newest.
LEMMA GrantRow == ASSUME Inv, NEW m \in Machine, Granted(m) PROVE RowShape'
BY Granting DEF RowShape, Inv
\* The granted claim has no worker, and the run it replaces may not write any more.
LEMMA GrantKnown == ASSUME Inv, NEW m \in Machine, Granted(m), UNCHANGED <<pc, task>>
    PROVE \A r \in Run : Known(r)'
<1> SUFFICES ASSUME NEW r \in Run PROVE Known(r)'
  OBVIOUS
<1>1. run'.token = granted + 1 /\ granted' = granted + 1 /\ pc[granted+1] = "unborn"
  BY Granting, SyncAssumption DEF Inv, RunShape, Known, TypeOK
<1>2. r > granted' => pc'[r] = "unborn" /\ home'[r] = NULL
  BY Granting, SyncAssumption DEF Inv, RunShape, Known, TypeOK, Run
<1>3. Holds(r)' => r = granted + 1
  BY <1>1 DEF Holds
<1> QED BY <1>1, <1>2, <1>3 DEF Known, Working
\* The granted claim leaves every worker in its place.
LEMMA GrantShape == ASSUME Inv, NEW m \in Machine, Granted(m), UNCHANGED local
    PROVE \A r \in Run : Shape(r)'
BY Granting DEF Inv, RunShape, Shape, local

\* Every step that is no worker's keeps the types.
LEMMA TypeOther == ASSUME TypeOK, OtherStep PROVE TypeOK'
<1>1. ASSUME NEW m \in Machine, RequestSync(m) PROVE TypeOK'
  BY SyncAssumption, <1>1 DEF RequestSync, tables, local, bounds, TypeOK
<1>2. ASSUME NEW m \in Machine, ClaimRun(m) PROVE TypeOK'
  BY SyncAssumption, <1>2 DEF ClaimRun, Granted, local, bounds, TypeOK, Run, Status
<1>3. ASSUME NEW m \in Machine, ClaimRefused(m) PROVE TypeOK'
  BY SyncAssumption, <1>3 DEF ClaimRefused, tables, local, bounds, TypeOK
<1>4. ASSUME NEW m \in Machine, RegisterTask(m) PROVE TypeOK'
  BY SyncAssumption, <1>4 DEF RegisterTask, tables, bounds, TypeOK, NoRun, Place
<1>5. ASSUME NEW m \in Machine, StartMatch(m) PROVE TypeOK'
  BY SyncAssumption, <1>5 DEF StartMatch, tables, local, bounds, TypeOK
<1>6. ASSUME NEW m \in Machine, MatchOver(m) PROVE TypeOK'
  BY SyncAssumption, <1>6 DEF MatchOver, tables, local, bounds, TypeOK
<1>7. ASSUME NEW x \in Release, NEW flags \in SUBSET Flag, ListsChange(x, flags) PROVE TypeOK'
  BY SyncAssumption, <1>7 DEF ListsChange, process, local, TypeOK
<1>8. ASSUME RunExpires PROVE TypeOK'
  BY SyncAssumption, <1>8 DEF RunExpires, Claimed, Attended, Working, process, local, bounds,
      TypeOK, Run, NoRun, Place, Status
<1>9. ASSUME RunStalls PROVE TypeOK'
  <2>1. run' \in [status : Status, token : 0..MaxRuns, stale : BOOLEAN]
    BY <1>9 DEF RunStalls, TypeOK
  <2>2. stalls' \in 0..MaxStalls
    BY <1>9, SyncAssumption DEF RunStalls, TypeOK
  <2> QED BY <1>9, <2>1, <2>2 DEF RunStalls, process, local, TypeOK
<1>10. ASSUME NEW m \in Machine, ClaimUnanswered(m) PROVE TypeOK'
  <2>1. faults' \in 0..MaxFaults /\ UNCHANGED <<changes, stalls>>
    BY <1>10, SyncAssumption DEF ClaimUnanswered, Fault, TypeOK
  <2>2. CASE UNCHANGED <<run, granted, home>>
    BY <1>10, <2>1, <2>2 DEF ClaimUnanswered, local, TypeOK
  <2>3. CASE Granted(m)
    BY <1>10, <2>1, <2>3, GrantType DEF ClaimUnanswered, local, TypeOK
  <2> QED BY <1>10, <2>2, <2>3 DEF ClaimUnanswered
<1>11. ASSUME NEW m \in Machine, Crash(m) PROVE TypeOK'
  BY SyncAssumption, <1>11 DEF Crash, Fault, tables, TypeOK, NoRun, Place
<1> QED BY <1>1, <1>2, <1>3, <1>4, <1>5, <1>6, <1>7, <1>8, <1>9, <1>10, <1>11 DEF OtherStep,
    Starts

\* Every step that is no worker's keeps the inductive invariant.
LEMMA OtherKept == ASSUME Inv, TypeOK', OtherStep PROVE Inv'
<1>1. ASSUME NEW m \in Machine, RequestSync(m) PROVE Inv'
  <2>1. RowShape' /\ StartShape'
    BY SyncAssumption, <1>1 DEF RequestSync, Unlocked, tables, local, RowShape, Claimed,
        StartShape, Inv
  <2>2. RunShape'
    BY SyncAssumption, <1>1 DEF RequestSync, tables, local, RunShape, Known, Holds, Claimed,
        Working, Shape, Inv
  <2>3. Progress' /\ CompleteIsTrue'
    BY SyncAssumption, <1>1 DEF RequestSync, tables, local, Progress, Holds, Claimed, Written,
        Wishlisted, Reflects, CompleteIsTrue, Inv
  <2>4. MatchExcludesSync'
    BY SyncAssumption, <1>1 DEF RequestSync, tables, local, MatchExcludesSync, Holds, Claimed,
        Working, Inv
  <2> QED BY <2>1, <2>2, <2>3, <2>4 DEF Inv
<1>2. ASSUME NEW m \in Machine, ClaimRun(m) PROVE Inv'
  <2>1. RowShape' /\ StartShape'
    <3>1. Granted(m) /\ RowShape'
      BY <1>2, GrantRow DEF ClaimRun
    <3>2. ASSUME NEW q \in Machine, q # m, claim[q] # NoRun
          PROVE  /\ claim[q] <= granted' /\ home'[claim[q]] = q /\ pc'[claim[q]] = "unborn"
                 /\ \A r \in Run : home'[r] = q => r <= claim[q]
      BY <1>2, <3>1, <3>2, GrantStart DEF ClaimRun, local
    <3>3. /\ ~match[m] /\ granted + 1 > granted /\ granted \in Nat
          /\ Run \subseteq Nat
      BY <1>2, <3>1, Granting, SyncAssumption DEF Inv, StartShape, TypeOK, Run
    <3>4. pc[granted + 1] = "unborn"
      BY <3>1, <3>3, Granting DEF Inv, RunShape, Known
    <3>5. ASSUME NEW r \in Run, home'[r] = m PROVE r <= granted + 1
      <4>1. r # granted + 1 => home[r] = m
        BY <3>1, <3>5, Granting DEF Inv, TypeOK
      <4>2. r > granted + 1 => home[r] = NULL
        BY <3>3 DEF Inv, RunShape, Known
      <4> QED BY <3>3, <4>1, <4>2, SyncAssumption
    <3>6. /\ claim'[m] = granted + 1 /\ home'[granted + 1] = m
          /\ granted' = granted + 1 /\ granted + 1 # NoRun
      BY <1>2, <3>1, <3>3, Granting DEF ClaimRun, Inv, TypeOK, NoRun
    <3>7. StartShape'
      <4> SUFFICES ASSUME NEW q \in Machine
                   PROVE  /\ starting'[q] # "no" => ~match'[q]
                          /\ claim'[q] # NoRun <=> starting'[q] = "claimed"
                          /\ claim'[q] # NoRun =>
                                /\ claim'[q] <= granted' /\ home'[claim'[q]] = q
                                /\ pc'[claim'[q]] = "unborn"
                                /\ \A r \in Run : home'[r] = q => r <= claim'[q]
        BY DEF StartShape
      <4>1. CASE q = m
        BY <1>2, <3>3, <3>4, <3>5, <3>6, <4>1 DEF ClaimRun, local, TypeOK
      <4>2. CASE q # m
        BY <1>2, <3>2, <4>2 DEF ClaimRun, StartShape, Inv
      <4> QED BY <4>1, <4>2
    <3> QED BY <3>1, <3>7
  <2>2. RunShape'
    BY SyncAssumption, <1>2 DEF ClaimRun, Granted, Claimed, local, RunShape, Known, Holds,
        Working, Shape, Inv, TypeOK, Run
  <2>3. Progress' /\ CompleteIsTrue'
    BY SyncAssumption, <1>2 DEF ClaimRun, Granted, local, Progress, Holds, Written,
        CompleteIsTrue, Inv, TypeOK, RunShape, Shape, Known, RowShape
  <2>4. MatchExcludesSync'
    BY SyncAssumption, <1>2 DEF ClaimRun, Granted, MatchExcludesSync, Holds, Inv, TypeOK,
        StartShape
  <2> QED BY <2>1, <2>2, <2>3, <2>4 DEF Inv
<1>3. ASSUME NEW m \in Machine, ClaimRefused(m) PROVE Inv'
  <2>1. RowShape' /\ StartShape'
    BY <1>3, SyncAssumption DEF ClaimRefused, tables, local, RowShape, StartShape, Inv, Claimed
  <2>2. RunShape'
    BY SyncAssumption, <1>3 DEF ClaimRefused, Claimed, tables, local, RunShape, Known, Holds,
        Working, Shape, Inv
  <2>3. Progress' /\ CompleteIsTrue'
    BY SyncAssumption, <1>3 DEF ClaimRefused, Claimed, tables, local, Progress, Holds, Written,
        Wishlisted, Reflects, CompleteIsTrue, Inv
  <2>4. MatchExcludesSync'
    BY SyncAssumption, <1>3 DEF ClaimRefused, Claimed, tables, local, MatchExcludesSync, Holds,
        Working, Inv
  <2> QED BY <2>1, <2>2, <2>3, <2>4 DEF Inv
<1>4. ASSUME NEW m \in Machine, RegisterTask(m) PROVE Inv'
  <2>1. RowShape' /\ StartShape'
    BY SyncAssumption, <1>4 DEF RegisterTask, tables, RowShape, Claimed, StartShape, Inv, TypeOK,
        Run, NoRun
  <2>2. RunShape'
    BY SyncAssumption, <1>4 DEF RegisterTask, tables, RunShape, Known, Holds, Claimed, Working,
        Shape, Inv, TypeOK, Walking, StartShape, RowShape
  <2>3. Progress' /\ CompleteIsTrue'
    BY SyncAssumption, <1>4 DEF RegisterTask, tables, Progress, Holds, Claimed, Written,
        Wishlisted, Reflects, CompleteIsTrue, Inv
  <2>4. MatchExcludesSync'
    <3>1. ~match[m] /\ match' = match
      BY <1>4 DEF RegisterTask, Inv, StartShape
    <3>2. \A r \in Run : home[r] # m => (Working(r)' <=> Working(r))
      BY <1>4, SyncAssumption DEF RegisterTask, Working, Inv, StartShape
    <3> QED BY <1>4, <3>1, <3>2 DEF RegisterTask, tables, MatchExcludesSync, Holds, Claimed, Inv
  <2> QED BY <2>1, <2>2, <2>3, <2>4 DEF Inv
<1>5. ASSUME NEW m \in Machine, StartMatch(m) PROVE Inv'
  <2>1. RowShape' /\ StartShape'
    BY SyncAssumption, <1>5 DEF StartMatch, Unlocked, tables, local, RowShape, Claimed,
        StartShape, Inv
  <2>2. RunShape'
    BY SyncAssumption, <1>5 DEF StartMatch, Working, tables, local, RunShape, Known, Holds,
        Claimed, Shape, Inv
  <2>3. Progress' /\ CompleteIsTrue'
    BY SyncAssumption, <1>5 DEF StartMatch, tables, local, Progress, Holds, Claimed, Written,
        Wishlisted, Reflects, CompleteIsTrue, Inv
  <2>4. MatchExcludesSync'
    BY SyncAssumption, <1>5 DEF StartMatch, SyncRunning, Working, tables, local,
        MatchExcludesSync, Holds, Claimed, Inv, RunShape, Known, Run, NoRun
  <2> QED BY <2>1, <2>2, <2>3, <2>4 DEF Inv
<1>6. ASSUME NEW m \in Machine, MatchOver(m) PROVE Inv'
  <2>1. RowShape' /\ StartShape'
    BY SyncAssumption, <1>6 DEF MatchOver, tables, local, RowShape, Claimed, StartShape, Inv
  <2>2. RunShape'
    BY SyncAssumption, <1>6 DEF MatchOver, tables, local, RunShape, Known, Holds, Claimed,
        Working, Shape, Inv
  <2>3. Progress' /\ CompleteIsTrue'
    BY SyncAssumption, <1>6 DEF MatchOver, tables, local, Progress, Holds, Claimed, Written,
        Wishlisted, Reflects, CompleteIsTrue, Inv
  <2>4. MatchExcludesSync'
    BY SyncAssumption, <1>6 DEF MatchOver, tables, local, MatchExcludesSync, Holds, Claimed,
        Working, Inv
  <2> QED BY <2>1, <2>2, <2>3, <2>4 DEF Inv
<1>7. ASSUME NEW x \in Release, NEW flags \in SUBSET Flag, ListsChange(x, flags) PROVE Inv'
  <2>1. RowShape' /\ StartShape'
    BY SyncAssumption, <1>7 DEF ListsChange, process, local, RowShape, Claimed, StartShape, Inv
  <2>2. RunShape'
    BY SyncAssumption, <1>7 DEF ListsChange, process, local, RunShape, Known, Holds, Claimed,
        Working, Shape, Inv
  <2>3. Progress' /\ CompleteIsTrue'
    BY SyncAssumption, <1>7 DEF ListsChange, local, Progress, Holds, Claimed, Written,
        Wishlisted, Reflects, CompleteIsTrue, Inv
  <2>4. MatchExcludesSync'
    BY SyncAssumption, <1>7 DEF ListsChange, process, local, MatchExcludesSync, Holds, Claimed,
        Working, Inv
  <2> QED BY <2>1, <2>2, <2>3, <2>4 DEF Inv
<1>8. ASSUME RunExpires PROVE Inv'
  <2>1. RowShape' /\ StartShape'
    BY SyncAssumption, <1>8 DEF RunExpires, Claimed, process, local, RowShape, StartShape, Inv
  <2>2. RunShape'
    BY SyncAssumption, <1>8 DEF RunExpires, process, local, RunShape, Known, Holds, Shape, Inv
  <2>3. Progress' /\ CompleteIsTrue'
    BY SyncAssumption, <1>8 DEF RunExpires, local, Progress, Holds, Wishlisted, Reflects,
        CompleteIsTrue, Inv
  <2>4. MatchExcludesSync'
    BY SyncAssumption, <1>8 DEF RunExpires, MatchExcludesSync, Holds
  <2> QED BY <2>1, <2>2, <2>3, <2>4 DEF Inv
<1>9. ASSUME RunStalls PROVE Inv'
  <2>1. RowShape' /\ StartShape'
    BY SyncAssumption, <1>9 DEF RunStalls, Claimed, process, local, RowShape, StartShape, Inv
  <2>2. RunShape'
    BY SyncAssumption, <1>9 DEF RunStalls, process, local, RunShape, Known, Holds, Shape, Inv
  <2>3. Progress' /\ CompleteIsTrue'
    BY SyncAssumption, <1>9 DEF RunStalls, local, Progress, Holds, Wishlisted, Reflects,
        CompleteIsTrue, Inv
  <2>4. MatchExcludesSync'
    BY SyncAssumption, <1>9 DEF RunStalls, MatchExcludesSync, Holds
  <2> QED BY <2>1, <2>2, <2>3, <2>4 DEF Inv
<1>10. ASSUME NEW m \in Machine, ClaimUnanswered(m) PROVE Inv'
  <2>1. RowShape' /\ StartShape'
    <3>1. CASE starting[m] = "claiming" /\ UNCHANGED <<run, granted, home>>
      <4>1. RowShape'
        BY <3>1 DEF RowShape, Inv, Claimed
      <4>2. StartShape'
        BY <1>10, <3>1, SyncAssumption DEF ClaimUnanswered, local, StartShape, Inv
      <4> QED BY <4>1, <4>2
    <3>2. CASE Granted(m)
      <4>1. ASSUME NEW q \in Machine, claim[q] # NoRun
            PROVE  /\ claim[q] <= granted' /\ home'[claim[q]] = q /\ pc'[claim[q]] = "unborn"
                   /\ \A r \in Run : home'[r] = q => r <= claim[q]
        BY <1>10, <3>2, <4>1, GrantStart DEF ClaimUnanswered, local
      <4>2. StartShape'
        BY <1>10, <3>2, <4>1, Granting DEF ClaimUnanswered, StartShape, Inv
      <4> QED BY <3>2, <4>2, GrantRow
    <3> QED BY <1>10, <3>1, <3>2 DEF ClaimUnanswered
  <2>2. RunShape'
    <3>1. CASE UNCHANGED <<run, granted, home>>
      BY <1>10, <3>1 DEF ClaimUnanswered, local, RunShape, Known, Shape, Holds, Claimed, Working,
          Inv
    <3>2. CASE Granted(m)
      BY <1>10, <3>2, GrantKnown, GrantShape DEF ClaimUnanswered, local, RunShape
    <3> QED BY <1>10, <3>1, <3>2 DEF ClaimUnanswered
  <2>3. Progress' /\ CompleteIsTrue'
    BY SyncAssumption, <1>10 DEF ClaimUnanswered, Granted, Claimed, local, Progress, Holds,
        Written, Wishlisted, Reflects, CompleteIsTrue, Inv, TypeOK, RunShape, Shape, Known
  <2>4. MatchExcludesSync'
    BY SyncAssumption, <1>10 DEF ClaimUnanswered, Granted, Claimed, local, MatchExcludesSync,
        Holds, Working, Inv, TypeOK, StartShape
  <2> QED BY <2>1, <2>2, <2>3, <2>4 DEF Inv
<1>11. ASSUME NEW m \in Machine, Crash(m) PROVE Inv'
  <2>1. RowShape' /\ StartShape'
    BY SyncAssumption, <1>11 DEF Crash, tables, RowShape, Claimed, StartShape, Inv, TypeOK, Run,
        NoRun
  <2>2. RunShape'
    BY SyncAssumption, <1>11 DEF Crash, Working, tables, RunShape, Known, Holds, Claimed, Shape,
        Inv, Walking
  <2>3. Progress' /\ CompleteIsTrue'
    BY SyncAssumption, <1>11 DEF Crash, Working, tables, Progress, Holds, Claimed, Written,
        Wishlisted, Reflects, CompleteIsTrue, Inv
  <2>4. MatchExcludesSync'
    BY SyncAssumption, <1>11 DEF Crash, Working, tables, MatchExcludesSync, Holds, Claimed, Inv
  <2> QED BY <2>1, <2>2, <2>3, <2>4 DEF Inv
<1> QED BY <1>1, <1>2, <1>3, <1>4, <1>5, <1>6, <1>7, <1>8, <1>9, <1>10, <1>11 DEF OtherStep,
    Starts

-----------------------------------------------------------------------------

\* The inductive invariant holds when no sync has run yet.
LEMMA InitInv == Init => Inv
<1> SUFFICES ASSUME Init PROVE Inv
  OBVIOUS
<1>1. TypeOK
  BY SyncAssumption DEF Init, TypeOK, NoRun, Place, Status
<1>2. RowShape /\ StartShape /\ RunShape
  BY DEF Init, RowShape, StartShape, RunShape, Known, Shape, Holds, Run, NoRun
<1>3. Progress /\ CompleteIsTrue /\ MatchExcludesSync
  BY DEF Init, Progress, CompleteIsTrue, MatchExcludesSync, Holds, Claimed
<1> QED BY <1>1, <1>2, <1>3 DEF Inv

\* It holds through a stuttering step.
LEMMA StutterInv == Inv /\ UNCHANGED vars => Inv'
BY DEF Inv, TypeOK, RowShape, StartShape, RunShape, Known, Shape, Progress, Written, Reflects,
       Wishlisted, CompleteIsTrue, MatchExcludesSync, Holds, Claimed, Working, vars, tables,
           process,
       local, bounds

\* It holds after every step of a worker.
LEMMA WorkerInv == ASSUME Inv, NEW r \in Run, WorkerStep(r) PROVE Inv'
<1>1. Moves(r)
  BY Moving DEF Inv
<1>2. TypeOK'
  BY TypeSteps DEF Inv
<1>3. RowShape' /\ StartShape' /\ MatchExcludesSync'
  BY <1>1, RowKept, StartKept, MatchKept
<1>4. RunShape'
  BY <1>1, ShapeSteps, ShapeKept
<1>5. Progress'
  BY <1>1, WrittenSteps, ProgressKept
<1>6. CompleteIsTrue'
  BY CompleteSteps
<1> QED BY <1>2, <1>3, <1>4, <1>5, <1>6 DEF Inv

\* It holds after every step.
LEMMA StepInv == Inv /\ [Next]_vars => Inv'
<1> SUFFICES ASSUME Inv, [Next]_vars PROVE Inv'
  OBVIOUS
<1>1. ASSUME NEW r \in Run, WorkerStep(r) PROVE Inv'
  BY <1>1, WorkerInv
<1>2. CASE OtherStep
  BY <1>2, TypeOther, OtherKept DEF Inv
<1>3. CASE UNCHANGED vars
  BY <1>3, StutterInv
<1> QED BY <1>1, <1>2, <1>3 DEF Next, Failures, WorkerStep, OtherStep

\* The inductive invariant of the library sync holds in every reachable state.
THEOREM SyncInvariant == Spec => []Inv
BY InitInv, StepInv, PTL DEF Spec

\* Every variable stays in its set.
THEOREM SyncTypeCorrect == Spec => []TypeOK
<1>1. Inv => TypeOK
  BY DEF Inv
<1> QED BY <1>1, SyncInvariant, PTL

\* While library_sync_runs says that the sync completed or matches, the library is what
\* that sync saw, whatever workers it replaced.
THEOREM CompletionIsTrue == Spec => []CompleteIsTrue
<1>1. Inv => CompleteIsTrue
  BY DEF Inv
<1> QED BY <1>1, SyncInvariant, PTL

\* No Machine runs a Plex match of its own beside a sync of its own that may write.
THEOREM MatchAndSyncExclude == Spec => []MatchExcludesSync
<1>1. Inv => MatchExcludesSync
  BY DEF Inv
<1> QED BY <1>1, SyncInvariant, PTL

\* No step revives an expired run or rewrites a recorded end.
THEOREM EndsStand == Spec => EndIsFinal
<1>1. Inv /\ [Next]_vars => [EndStands]_vars
  <2> SUFFICES ASSUME Inv, [Next]_vars PROVE EndStands \/ UNCHANGED vars
    OBVIOUS
  <2>1. ASSUME NEW r \in Run, WorkerStep(r) PROVE EndStands
    <3>1. Moves(r)
      BY <2>1, Moving DEF Inv
    <3> QED BY <3>1 DEF Moves, EndStands, Holds, Claimed
  <2>2. ASSUME NEW m \in Machine, Granted(m) PROVE EndStands
    BY <2>2, Granting, SyncAssumption DEF EndStands, Inv, RowShape, TypeOK
  <2>3. CASE RunExpires \/ RunStalls
    BY <2>3 DEF RunExpires, RunStalls, EndStands, Claimed, Inv, TypeOK
  <2>4. ASSUME NEW m \in Machine, Starts(m) \/ ClaimUnanswered(m) \/ Crash(m) PROVE EndStands
    <3>1. run' = run \/ Granted(m)
      BY <2>4 DEF Starts, RequestSync, ClaimRun, ClaimRefused, RegisterTask, StartMatch,
          MatchOver,
                  ClaimUnanswered, Crash, tables
    <3>2. CASE run' = run
      BY <3>2 DEF EndStands
    <3> QED BY <3>1, <3>2, <2>2
  <2>5. ASSUME NEW x \in Release, NEW flags \in SUBSET Flag, ListsChange(x, flags) PROVE EndStands
    BY <2>5 DEF ListsChange, EndStands
  <2> QED BY <2>1, <2>3, <2>4, <2>5 DEF Next, Failures, WorkerStep
<1> QED BY <1>1, SyncInvariant, PTL DEF Spec, EndIsFinal

\* The holder of the lease, as the row tells it.
Holder == IF Claimed /\ ~run.stale THEN run.token ELSE NoRun

\* The library sync implements RunLease: its tokens and heartbeats grant the runs one
\* after the other, and only the holder commits.
THEOREM SyncIsALease == Spec => ImplementsLease
<1>1. Init => Lease!Init
  BY DEF Init, Lease!Init, Lease!NoRun, NoRun
<1>2. Inv /\ [Next]_vars => [Lease!Next]_(Lease!lease)
  <2> SUFFICES ASSUME Inv, [Next]_vars PROVE Lease!Next \/ UNCHANGED <<granted, Holder, writer>>
    BY DEF Lease!lease, Holder
  <2>1. ASSUME NEW r \in Run, WorkerStep(r)
      PROVE Lease!Next \/ UNCHANGED <<granted, Holder, writer>>
    <3>1. Moves(r)
      BY <2>1, Moving DEF Inv
    <3>2. CASE UNCHANGED writer
      <4>1. CASE UNCHANGED run
        BY <3>1, <3>2, <4>1 DEF Moves, Holder, Claimed
      <4>2. CASE Holds(r) /\ ~run'.stale
        <5>1. CASE Claimed'
          BY <3>1, <3>2, <4>2, <5>1 DEF Moves, Holder, Holds
        <5>2. CASE ~Claimed'
          BY <3>1, <3>2, <4>2, <5>2 DEF Moves, Holds, Lease!Next, Lease!End, Lease!NoRun, NoRun,
              Run
        <5> QED BY <5>1, <5>2
      <4> QED BY <3>1, <4>1, <4>2 DEF Moves
    <3>3. CASE writer' = r /\ Holds(r) /\ Holds(r)'
      BY <3>1, <3>3 DEF Moves, Holds, Lease!Next, Lease!Write, Lease!Run, Run
    <3> QED BY <3>1, <3>2, <3>3 DEF Moves
  <2>2. ASSUME NEW m \in Machine, Granted(m), UNCHANGED writer PROVE Lease!Next
    <3>1. granted < MaxRuns /\ ~(Claimed /\ ~run.stale)
      BY <2>2, Granting DEF Granted, Claimable
    <3>2. run'.token = granted' /\ ~run'.stale /\ Claimed' /\ granted' = granted + 1
      BY <2>2, Granting DEF Claimed, Inv
    <3> QED BY <2>2, <3>1, <3>2 DEF Lease!Next, Lease!Grant, Lease!NoRun, NoRun
  <2>3. CASE RunExpires \/ RunStalls
    <3>1. Claimed /\ ~run.stale /\ run'.stale /\ UNCHANGED <<granted, writer>>
      BY <2>3 DEF RunExpires, RunStalls, Inv, TypeOK
    <3> QED BY <3>1 DEF Lease!Next, Lease!End, Lease!NoRun, NoRun, Holder
  <2>4. ASSUME NEW m \in Machine, Starts(m) \/ ClaimUnanswered(m) \/ Crash(m)
        PROVE  Lease!Next \/ UNCHANGED <<granted, Holder, writer>>
    <3>1. UNCHANGED writer /\ (UNCHANGED <<run, granted>> \/ Granted(m))
      BY <2>4 DEF Starts, RequestSync, ClaimRun, ClaimRefused, RegisterTask, StartMatch,
          MatchOver,
                  ClaimUnanswered, Crash, tables
    <3>2. CASE UNCHANGED <<run, granted>>
      BY <3>1, <3>2 DEF Holder, Claimed
    <3> QED BY <3>1, <3>2, <2>2
  <2>5. ASSUME NEW x \in Release, NEW flags \in SUBSET Flag, ListsChange(x, flags)
        PROVE  UNCHANGED <<granted, Holder, writer>>
    BY <2>5 DEF ListsChange, Holder, Claimed
  <2>6. CASE UNCHANGED vars
    BY <2>6 DEF vars, tables, Holder, Claimed
  <2> QED BY <2>1, <2>3, <2>4, <2>5, <2>6 DEF Next, Failures, WorkerStep
<1> QED BY <1>1, <1>2, SyncInvariant, PTL DEF Spec, ImplementsLease, Lease!Spec
=============================================================================
