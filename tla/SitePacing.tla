---------------------------- MODULE SitePacing ----------------------------
(***************************************************************************)
(* The pacing of one site (_paced_search): the workers of a process send   *)
(* it one search at a time, under its lock, and leave a gap between two.   *)
(* A bot interstitial resets the browser context and is answered by one    *)
(* more search under the same lock.  How the search went decides nothing:  *)
(* the gap is recorded on the way out, after a configuration read that is  *)
(* itself a failing, cancellable call.                                     *)
(***************************************************************************)
EXTENDS Naturals

CONSTANTS
    PaceWorker,     \* the workers of the process
    CrawlDelay,     \* crawl_delay_seconds, in ticks; the gap is between half and all of it
    MaxTime,        \* bound on the clock
    Nobody

ASSUME SitePacingAssumption ==
    /\ CrawlDelay \in Nat /\ MaxTime \in Nat
    /\ Nobody \notin PaceWorker

VARIABLES
    clock,          \* time.monotonic()
    siteLock,       \* who holds _site_locks[crawler_id]
    step,           \* per worker: where it stands in _paced_search
    nextAllowed,    \* _site_next_allowed_at
    lastSearch,     \* history: when the last search ended, or Nobody
    unpaced,        \* history: the last search's gap was not recorded
    hasty           \* history: a search began within the gap of the one before

paceVars == <<clock, siteLock, step, nextAllowed, lastSearch, unpaced, hasty>>

MinGap == CrawlDelay \div 2
Gaps == MinGap..CrawlDelay

To(w, s) == step' = [step EXCEPT ![w] = s]

Tick ==
    /\ clock < MaxTime /\ clock' = clock + 1
    /\ UNCHANGED <<siteLock, step, nextAllowed, lastSearch, unpaced, hasty>>

AskForSite(w) ==
    /\ step[w] = "idle"
    /\ To(w, "queued")
    /\ UNCHANGED <<clock, siteLock, nextAllowed, lastSearch, unpaced, hasty>>

EnterSite(w) ==
    /\ step[w] = "queued" /\ siteLock = Nobody
    /\ siteLock' = w
    /\ To(w, "pacing")
    /\ UNCHANGED <<clock, nextAllowed, lastSearch, unpaced, hasty>>

\* The sleep, if any, is over: the request goes out.
BeginSearch(w) ==
    /\ step[w] = "pacing" /\ clock >= nextAllowed
    /\ To(w, "searching")
    /\ hasty' = (hasty \/ (lastSearch # Nobody /\ ~unpaced /\ clock < lastSearch + MinGap))
    /\ UNCHANGED <<clock, siteLock, nextAllowed, lastSearch, unpaced>>

\* BotDetectedError, once: a fresh context and the same search again.
RetryAfterBot(w) ==
    /\ step[w] = "searching"
    /\ To(w, "retrying")
    /\ UNCHANGED <<clock, siteLock, nextAllowed, lastSearch, unpaced, hasty>>

\* Matches or an exception: the finally reads the configuration.
EndSearch(w, outcome) ==
    /\ step[w] \in {"searching", "retrying"}
    /\ lastSearch' = clock /\ unpaced' = FALSE
    /\ To(w, outcome)
    /\ UNCHANGED <<clock, siteLock, nextAllowed, hasty>>

\* Mutant of RecordGap: only a search that succeeded is paced.
RecordGapOfSuccess(w) ==
    /\ step[w] \in {"found", "failed"}
    /\ \E gap \in Gaps :
        nextAllowed' = IF step[w] = "found" THEN clock + gap ELSE nextAllowed
    /\ siteLock' = Nobody
    /\ To(w, "idle")
    /\ UNCHANGED <<clock, lastSearch, unpaced, hasty>>

RecordGap(w) ==
    /\ step[w] \in {"found", "failed"}
    /\ \E gap \in Gaps : nextAllowed' = clock + gap
    /\ siteLock' = Nobody
    /\ To(w, "idle")
    /\ UNCHANGED <<clock, lastSearch, unpaced, hasty>>

\* The configuration read fails, or the worker is cancelled in it.
GapLost(w) ==
    /\ step[w] \in {"found", "failed"}
    /\ unpaced' = TRUE /\ siteLock' = Nobody
    /\ To(w, "idle")
    /\ UNCHANGED <<clock, nextAllowed, lastSearch, hasty>>

PaceInit ==
    /\ clock = 0 /\ siteLock = Nobody /\ step = [w \in PaceWorker |-> "idle"]
    /\ nextAllowed = 0 /\ lastSearch = Nobody /\ unpaced = FALSE /\ hasty = FALSE

PaceNext ==
    \/ Tick
    \/ \E w \in PaceWorker :
        \/ AskForSite(w) \/ EnterSite(w) \/ BeginSearch(w) \/ RetryAfterBot(w)
        \/ EndSearch(w, "found") \/ EndSearch(w, "failed")
        \/ RecordGap(w) \/ GapLost(w)

PaceSpec == PaceInit /\ [][PaceNext]_paceVars

-----------------------------------------------------------------------------

\* Whatever became of the search before it and whichever worker sends it, a search of a
\* site does not begin within half the configured delay of the end of the last one, unless
\* the configuration could not be read after that one (_paced_search's finally).
SiteIsNotHammered == ~hasty
=============================================================================
