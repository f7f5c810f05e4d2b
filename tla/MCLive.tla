------------------------------- MODULE MCLive -------------------------------
(* The two leased runs of a user under fairness: a behaviour is one of     *)
(* JudgmentRun (the variables as they are) or one of LibrarySyncRun (under *)
(* Sync, with variables of its own), whichever `part` says, while the      *)
(* other rests in an initial state, where fairness asks nothing of it.     *)
EXTENDS MCJudgmentRun

CONSTANTS
    Release,            \* of LibrarySyncRun, with bounds of its own
    MaxSyncChanges,
    MaxSyncFaults

VARIABLES
    part,
    syncRun, syncGranted, library, syncWriter, discogs,
    starting, claim, task, match, syncHome,
    syncPc, walk, seen, buffer, syncIntended, tries, phase, told,
    syncChanges, syncStalls, syncFaults

syncVars ==
    <<syncRun, syncGranted, library, syncWriter, discogs, starting, claim,
      task, match, syncHome, syncPc, walk, seen, buffer, syncIntended, tries,
      phase, told, syncChanges, syncStalls, syncFaults>>

Sync == INSTANCE LibrarySyncRun
    WITH MaxChanges <- MaxSyncChanges, MaxFaults <- MaxSyncFaults,
         run <- syncRun, granted <- syncGranted, writer <- syncWriter,
         home <- syncHome, pc <- syncPc, intended <- syncIntended,
         changes <- syncChanges, stalls <- syncStalls, faults <- syncFaults

\* What rests has one initial state.
LiveInit ==
    /\ part \in {"judgment", "sync"}
    /\ Init
    /\ part = "sync" => /\ stock = {Row(1, A), Row(2, B)}
                        /\ identity = [k \in Item |-> IF k = 1 THEN A ELSE B]
    /\ Sync!Init
    /\ part = "judgment" => \A r \in Release : discogs[r] = {}

LiveNext ==
    /\ UNCHANGED part
    /\ \/ part = "judgment" /\ Next /\ UNCHANGED syncVars
       \/ part = "sync" /\ Sync!Next /\ UNCHANGED vars

LiveSpec ==
    /\ LiveInit /\ [][LiveNext]_<<part, vars, syncVars>>
    /\ Fairness /\ Sync!Fairness

\* The user is never locked out of a library sync: UserCanSync of LibrarySyncRun, that a
\* stranded claim expires and a live worker ends.
UserCanSync == Sync!UserCanSync
=============================================================================
