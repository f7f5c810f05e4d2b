---------------------------- MODULE SiteBreaker ----------------------------
(***************************************************************************)
(* The circuit breaker of one process: consecutive failures per crawler,   *)
(* counted once for every crawler that shares the failure domain, and a    *)
(* cooldown when they reach the limit.                                     *)
(*                                                                         *)
(* The workers and the stock sync record a result each.  A recorder waits  *)
(* for the lock of the domain, reads the configuration in a thread while   *)
(* it holds the lock, and then updates all the peers without yielding.     *)
(* asyncio.Lock wakes its waiters in the order of their arrival.           *)
(***************************************************************************)
EXTENDS Naturals, Sequences, FiniteSets

CONSTANTS
    SiteCrawler,    \* the enabled crawlers
    Domain,         \* what crawlers fail together as
    DomainOf,       \* [SiteCrawler -> Domain]
    FailureLimit,   \* consecutive_failure_limit; 0 turns the breaker off
    MaxResults      \* bound on the results recorded

ASSUME SiteBreakerAssumption ==
    /\ DomainOf \in [SiteCrawler -> Domain]
    /\ FailureLimit \in Nat /\ MaxResults \in Nat

VARIABLES
    consecutiveFailures,    \* _site_consecutive_failures
    coolingDown,            \* the crawlers whose _site_cooldown_until is ahead
    resultLock,             \* per domain: the recorders, the first holds the lock
    configRead,             \* per domain: the holder's load_config has returned
    arrived,                \* history, per domain: the outcomes in order of arrival
    settled                 \* history, per domain: how many of them left the lock

siteVars == <<consecutiveFailures, coolingDown, resultLock, configRead, arrived, settled>>

\* _domain_peers of any crawler of d.
DomainPeers(d) == {c \in SiteCrawler : DomainOf[c] = d}

Without(s, i) == SubSeq(s, 1, i - 1) \o SubSeq(s, i + 1, Len(s))

Recorded == {r \in Domain \X (1..MaxResults) : r[2] <= Len(arrived[r[1]])}

\* A search or a catalog crawl of c ended: its result queues for the lock.
RecordSiteResult(c, outcome) ==
    LET d == DomainOf[c] IN
    /\ Cardinality(Recorded) < MaxResults
    /\ resultLock' = [resultLock EXCEPT ![d] = Append(@, outcome)]
    /\ arrived' = [arrived EXCEPT ![d] = Append(@, outcome)]
    /\ UNCHANGED <<consecutiveFailures, coolingDown, configRead, settled>>

\* The holder is back from load_config.
ReadConfig(d) ==
    /\ resultLock[d] # <<>> /\ ~configRead[d]
    /\ configRead' = [configRead EXCEPT ![d] = TRUE]
    /\ UNCHANGED <<consecutiveFailures, coolingDown, resultLock, arrived, settled>>

\* Its configuration read raises: the result is lost with it.
ConfigReadFails(d) ==
    /\ resultLock[d] # <<>> /\ ~configRead[d]
    /\ resultLock' = [resultLock EXCEPT ![d] = Tail(@)]
    /\ arrived' = [arrived EXCEPT ![d] = Without(@, settled[d] + 1)]
    /\ UNCHANGED <<consecutiveFailures, coolingDown, configRead, settled>>

\* A success resets the count; the failure that reaches the limit starts over, cooling.
Trips(count) == FailureLimit # 0 /\ count >= FailureLimit
Counted(count, outcome) ==
    IF outcome = "succeeded" \/ Trips(count + 1) THEN 0 ELSE count + 1

\* Mutant of Holder: without the lock, any recorder.
AnyRecorder(d) == 1..Len(resultLock[d])

\* Who is next to apply its result, by its place in the queue.
Holder(d) == IF resultLock[d] = <<>> THEN {} ELSE {1}

\* The body under the lock, for all the peers, and the release.
ApplyResult(d) ==
    /\ configRead[d]
    /\ \E i \in Holder(d) :
        LET outcome == resultLock[d][i]
            peers == DomainPeers(d)
        IN  /\ consecutiveFailures' =
                   [c \in SiteCrawler |->
                       IF c \in peers THEN Counted(consecutiveFailures[c], outcome)
                       ELSE consecutiveFailures[c]]
            /\ coolingDown' = coolingDown \cup
                   {c \in peers : outcome = "failed" /\ Trips(consecutiveFailures[c] + 1)}
            /\ resultLock' = [resultLock EXCEPT ![d] = Without(@, i)]
    /\ configRead' = [configRead EXCEPT ![d] = FALSE]
    /\ settled' = [settled EXCEPT ![d] = @ + 1]
    /\ UNCHANGED arrived

\* Half an hour later.
CooldownEnds(c) ==
    /\ c \in coolingDown /\ coolingDown' = coolingDown \ {c}
    /\ UNCHANGED <<consecutiveFailures, resultLock, configRead, arrived, settled>>

SiteInit ==
    /\ consecutiveFailures = [c \in SiteCrawler |-> 0] /\ coolingDown = {}
    /\ resultLock = [d \in Domain |-> <<>>] /\ configRead = [d \in Domain |-> FALSE]
    /\ arrived = [d \in Domain |-> <<>>] /\ settled = [d \in Domain |-> 0]

SiteNext ==
    \/ \E c \in SiteCrawler, outcome \in {"succeeded", "failed"} : RecordSiteResult(c, outcome)
    \/ \E d \in Domain : ReadConfig(d) \/ ConfigReadFails(d) \/ ApplyResult(d)
    \/ \E c \in SiteCrawler : CooldownEnds(c)

SiteSpec == SiteInit /\ [][SiteNext]_siteVars

-----------------------------------------------------------------------------

\* The outcomes that count for d: those that left the lock, in the order they happened.
History(d) == SubSeq(arrived[d], 1, settled[d])

\* How many failures end a sequence of outcomes.
TrailingFailures(s) ==
    Cardinality({i \in 1..Len(s) : \A j \in i..Len(s) : s[j] = "failed"})

Expected(d) ==
    LET n == TrailingFailures(History(d))
    IN  IF FailureLimit = 0 THEN n ELSE n % FailureLimit

\* A crawler's count is the run of failures that ended its domain's results, in the order
\* the searches ended and whichever peer each was for: no failure outlives a later success
\* (the comment in _record_site_result), and none is counted for one peer alone.
CountsFollowArrival ==
    \A c \in SiteCrawler : consecutiveFailures[c] = Expected(DomainOf[c])
=============================================================================
