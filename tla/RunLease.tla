------------------------------ MODULE RunLease ------------------------------
(***************************************************************************)
(* What a leased run promises, whatever the work: runs are granted one     *)
(* after the other, only the run that holds the lease writes, and a run    *)
(* that lost it, by ending or by falling silent, never gets it back.  The  *)
(* library sync keeps such a lease in library_sync_runs.                   *)
(***************************************************************************)
EXTENDS Naturals

CONSTANT MaxRuns            \* bound on the runs granted

Run == 1..MaxRuns
NoRun == 0

VARIABLES
    granted,    \* how many runs were granted: the name of the newest
    holder,     \* the run that holds the lease, or NoRun
    writer      \* the last run that wrote under the lease

lease == <<granted, holder, writer>>

Init == granted = 0 /\ holder = NoRun /\ writer = NoRun

\* A free lease goes to a run that never had it.
Grant ==
    /\ holder = NoRun /\ granted < MaxRuns
    /\ granted' = granted + 1 /\ holder' = granted'
    /\ UNCHANGED writer

\* The holder writes.
Write(r) ==
    /\ holder = r
    /\ writer' = r /\ UNCHANGED <<granted, holder>>

\* The holder ends, or it expires.
End ==
    /\ holder # NoRun
    /\ holder' = NoRun /\ UNCHANGED <<granted, writer>>

Next == Grant \/ (\E r \in Run : Write(r)) \/ End

Spec == Init /\ [][Next]_lease
=============================================================================
