--------------------------- MODULE StrandedClaim ---------------------------
(***************************************************************************)
(* When a claim of crawl_queue counts as stranded.  Its age is the only    *)
(* evidence, and the age it may reach is derived anew by every reclaim     *)
(* from the crawlers enabled at that moment, while the pass works through  *)
(* the crawlers that were enabled when it began.                           *)
(***************************************************************************)
EXTENDS Naturals

CONSTANTS
    ClaimBatchSize,     \* QUEUE_CLAIM_BATCH_SIZE
    StrandedFloor,      \* QUEUE_STRANDED_FLOOR_SECONDS
    StrandedSlack,      \* QUEUE_STRANDED_SLACK
    PaceDelay,          \* crawl_delay_seconds
    MaxEnabled,         \* bound on the release crawlers enabled
    MaxAge              \* bound on the age of a claim

ASSUME StrandedAssumption ==
    {ClaimBatchSize, StrandedFloor, StrandedSlack, PaceDelay, MaxEnabled, MaxAge} \subseteq Nat

VARIABLES
    enabledNow,     \* how many release crawlers are enabled
    claim,          \* the batch: not "held", or held by a worker that lives or not
    age,            \* how old claimed_at is
    fanout,         \* how many crawlers the pass found eligible per row
    cutShort        \* history: a live pass within its time was reclaimed, and what it faced

strandVars == <<enabledNow, claim, age, fanout, cutShort>>

Greater(a, b) == IF a > b THEN a ELSE b

\* What a pass takes when each of its searches waits for the whole delay.
PassTime(n) == ClaimBatchSize * n * PaceDelay

\* Mutant of StrandedAfter: no slack.
StrandedAfterTight == Greater(StrandedFloor, PassTime(enabledNow))

\* _queue_stranded_after_seconds
StrandedAfter == Greater(StrandedFloor, PassTime(enabledNow) * StrandedSlack)

TakeClaim ==
    /\ claim = "none"
    /\ claim' = "live" /\ age' = 0 /\ fanout' = enabledNow
    /\ UNCHANGED <<enabledNow, cutShort>>

EndClaim ==
    /\ claim = "live"
    /\ claim' = "none" /\ age' = 0 /\ fanout' = 0
    /\ UNCHANGED <<enabledNow, cutShort>>

ClaimantDies ==
    /\ claim = "live" /\ claim' = "dead"
    /\ UNCHANGED <<enabledNow, age, fanout, cutShort>>

\* reclaim_stranded_crawl_queue_rows
ReclaimStranded ==
    /\ claim # "none" /\ age > StrandedAfter
    /\ cutShort' = IF claim = "live" /\ age <= PassTime(fanout)
                   THEN cutShort \cup {[began |-> fanout, left |-> enabledNow]} ELSE cutShort
    /\ claim' = "none" /\ age' = 0 /\ fanout' = 0
    /\ UNCHANGED enabledNow

ToggleRelease(n) ==
    /\ enabledNow' = n
    /\ UNCHANGED <<claim, age, fanout, cutShort>>

ClaimAges ==
    /\ claim # "none" /\ age < MaxAge /\ age' = age + 1
    /\ UNCHANGED <<enabledNow, claim, fanout, cutShort>>

StrandInit ==
    /\ enabledNow = MaxEnabled /\ claim = "none" /\ age = 0 /\ fanout = 0 /\ cutShort = {}

StrandNext ==
    \/ TakeClaim \/ EndClaim \/ ClaimantDies \/ ReclaimStranded \/ ClaimAges
    \/ \E n \in (1..MaxEnabled) \ {enabledNow} : ToggleRelease(n)

StrandSpec == StrandInit /\ [][StrandNext]_strandVars

-----------------------------------------------------------------------------

\* A live pass within the time its crawlers take when paced loses its rows only after the
\* crawlers enabled fell by more than the slack: QUEUE_STRANDED_SLACK is what keeps the
\* reclaim from taking live work, and a mass disabling in mid-pass is what it cannot absorb.
SlackKeepsLivePasses == \A c \in cutShort : c.left * StrandedSlack < c.began
=============================================================================
