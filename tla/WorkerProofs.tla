----------------------------- MODULE WorkerProofs -----------------------------
(*******************************************************************************)
(* The proofs about SiteBreaker, SitePacing, QueueLanes and StrandedClaim,    *)
(* for every set of crawlers, domains, workers and rows, and every bound,     *)
(* batch, pace, floor and slack.                                              *)
(*                                                                            *)
(* SiteBreaker: BreakerInv relates the queue of a domain's lock to the        *)
(* history of its results, and each count to the failures that end what has   *)
(* left the lock.  SitePacing: PaceInv keeps the gap of the last search in    *)
(* nextAllowed from the moment its search is over.                            *)
(*                                                                            *)
(* QueueLanes: LaneInv says that a row that waits or is held still tells      *)
(* when and how it was asked for.  From it the claim's order follows the      *)
(* turns (OrderFollowsTurn), and ranks follow the order, so that whoever      *)
(* should go before a row that is taken is taken too, and placed before it.   *)
(* StrandedClaim: the reclaim's age compared with the time of a pass.         *)
(*******************************************************************************)
EXTENDS SiteBreaker, SitePacing, QueueLanes, StrandedClaim, DataLemmas

-----------------------------------------------------------------------------
(* The circuit breaker. *)

Outcome == {"succeeded", "failed"}

\* The failures that end the first n outcomes of s.
LastFailures(s, n) == {i \in 1..n : \A j \in i..n : s[j] = "failed"}

\* What a count is after that many failures in a row.
Wrapped(n) == IF FailureLimit = 0 THEN n ELSE n % FailureLimit

SiteType ==
    /\ consecutiveFailures \in [SiteCrawler -> Nat]
    /\ resultLock \in [Domain -> Seq(Outcome)]
    /\ arrived \in [Domain -> Seq(Outcome)]
    /\ settled \in [Domain -> Nat]

\* Who queues for the lock of a domain: those that arrived and did not leave it yet, in
\* the order of their arrival.
InOrder(waiting, all, n) ==
    /\ Len(all) = n + Len(waiting)
    /\ \A i \in 1..Len(waiting) : waiting[i] = all[n + i]

BreakerInv ==
    /\ SiteType
    /\ \A d \in Domain : InOrder(resultLock[d], arrived[d], settled[d])
    /\ \A c \in SiteCrawler : LET d == DomainOf[c] IN
           consecutiveFailures[c] = Wrapped(Cardinality(LastFailures(arrived[d], settled[d])))

-----------------------------------------------------------------------------
(* Failures in a row. *)

\* There are finitely many.
LEMMA FailedIsFinite ==
    ASSUME NEW s, NEW n \in Nat
    PROVE  IsFiniteSet(LastFailures(s, n)) /\ Cardinality(LastFailures(s, n)) \in Nat
<1>1. LastFailures(s, n) \subseteq 1..n /\ IsFiniteSet(1..n)
  BY FS_Interval DEF LastFailures
<1> QED BY <1>1, FS_Subset, FS_CardinalityType

\* A failure makes one more.
LEMMA OneMoreFailure ==
    ASSUME NEW s, NEW n \in Nat, s[n + 1] = "failed"
    PROVE  Cardinality(LastFailures(s, n + 1)) = Cardinality(LastFailures(s, n)) + 1
<1>1. LastFailures(s, n + 1) = LastFailures(s, n) \cup {n + 1}
  <2>1. ASSUME NEW i \in LastFailures(s, n + 1) PROVE i \in LastFailures(s, n) \cup {n + 1}
    BY <2>1 DEF LastFailures
  <2>2. ASSUME NEW i \in LastFailures(s, n) PROVE i \in LastFailures(s, n + 1)
    <3>1. i \in 1..(n + 1)
      BY <2>2 DEF LastFailures
    <3>2. ASSUME NEW j \in i..(n + 1) PROVE s[j] = "failed"
      <4>1. j \in i..n \/ j = n + 1
        BY <3>1, <3>2
      <4> QED BY <4>1, <2>2 DEF LastFailures
    <3> QED BY <3>1, <3>2 DEF LastFailures
  <2>3. n + 1 \in LastFailures(s, n + 1)
    <3>1. n + 1 \in 1..(n + 1) /\ \A j \in (n + 1)..(n + 1) : j = n + 1
      OBVIOUS
    <3> QED BY <3>1 DEF LastFailures
  <2> QED BY <2>1, <2>2, <2>3
<1>2. n + 1 \notin LastFailures(s, n)
  BY DEF LastFailures
<1> QED BY <1>1, <1>2, FailedIsFinite, FS_AddElement

\* A success, or nothing yet, makes none.
LEMMA NoFailure ==
    ASSUME NEW s, NEW n \in Nat, n = 0 \/ s[n] # "failed"
    PROVE  Cardinality(LastFailures(s, n)) = 0
<1>1. LastFailures(s, n) = {}
  BY DEF LastFailures
<1> QED BY <1>1, FS_EmptySet

\* What arrives later, or is taken out later, does not count.
LEMMA SameFailures ==
    ASSUME NEW s, NEW t, NEW n \in Nat, \A i \in 1..n : s[i] = t[i]
    PROVE  LastFailures(s, n) = LastFailures(t, n)
<1>1. ASSUME NEW i \in 1..n, NEW j \in i..n PROVE s[j] = t[j]
  OBVIOUS
<1> QED BY <1>1 DEF LastFailures

\* The history's trailing failures, without taking it apart.
LEMMA TrailingAreFailed ==
    ASSUME NEW s \in Seq(Outcome), NEW n \in Nat, n <= Len(s)
    PROVE  TrailingFailures(SubSeq(s, 1, n)) = Cardinality(LastFailures(s, n))
<1> DEFINE h == SubSeq(s, 1, n)
<1>1. Len(h) = n /\ \A i \in 1..n : h[i] = s[i]
  OBVIOUS
<1>2. LastFailures(h, n) = LastFailures(s, n)
  <2> HIDE DEF h
  <2> QED BY <1>1, SameFailures
<1>3. TrailingFailures(h) = Cardinality(LastFailures(h, n))
  <2> HIDE DEF h
  <2> QED BY <1>1 DEF TrailingFailures, LastFailures
<1> QED BY <1>2, <1>3

\* What a result makes of the count: back to none at the limit or on a success.
LEMMA CountFollows ==
    ASSUME NEW n \in Nat
    PROVE  /\ Wrapped(n) \in Nat
           /\ Counted(Wrapped(n), "failed") = Wrapped(n + 1)
           /\ Counted(Wrapped(n), "succeeded") = 0
           /\ Wrapped(0) = 0
<1>1. CASE FailureLimit = 0
  BY <1>1 DEF Wrapped, Counted, Trips
<1>2. CASE FailureLimit # 0
  <2>1. FailureLimit \in Nat \ {0}
    BY <1>2, SiteBreakerAssumption
  <2>2. /\ n % FailureLimit \in 0..(FailureLimit - 1)
        /\ (n + 1) % FailureLimit = IF (n % FailureLimit) + 1 >= FailureLimit THEN 0
                                    ELSE (n % FailureLimit) + 1
    BY <2>1, NextRemainder
  <2>3. 0 % FailureLimit = 0
    <3>1. 0 = FailureLimit * (0 \div FailureLimit) + (0 % FailureLimit)
          /\ 0 \div FailureLimit \in Int /\ 0 % FailureLimit \in 0..(FailureLimit - 1)
      BY <2>1
    <3>2. 0 = FailureLimit * 0 + 0 /\ 0 \in 0..(FailureLimit - 1)
      BY <2>1
    <3> QED BY <2>1, <3>1, <3>2, SameRemainder
  <2> QED BY <1>2, <2>1, <2>2, <2>3 DEF Wrapped, Counted, Trips
<1> QED BY <1>1, <1>2

-----------------------------------------------------------------------------
(* One lemma per action. *)

\* What holds of one domain.
LEMMA DomainFacts ==
    ASSUME BreakerInv, NEW d \in Domain
    PROVE  /\ resultLock[d] \in Seq(Outcome) /\ arrived[d] \in Seq(Outcome) /\ settled[d] \in Nat
           /\ InOrder(resultLock[d], arrived[d], settled[d])
           /\ settled[d] <= Len(arrived[d]) /\ Len(arrived[d]) = settled[d] + Len(resultLock[d])
<1>1. /\ resultLock[d] \in Seq(Outcome) /\ arrived[d] \in Seq(Outcome) /\ settled[d] \in Nat
      /\ InOrder(resultLock[d], arrived[d], settled[d])
  BY DEF BreakerInv, SiteType
<1>2. Len(arrived[d]) = settled[d] + Len(resultLock[d]) /\ Len(resultLock[d]) \in Nat
  BY <1>1 DEF InOrder
<1> QED BY <1>1, <1>2

\* The outcomes of one domain change, and the counts stay.
LEMMA OneDomain ==
    ASSUME BreakerInv, NEW d \in Domain, consecutiveFailures' = consecutiveFailures,
           settled' = settled,
           NEW waiting \in Seq(Outcome), resultLock' = [resultLock EXCEPT ![d] = waiting],
           NEW all \in Seq(Outcome), arrived' = [arrived EXCEPT ![d] = all],
           InOrder(waiting, all, settled[d]),
           \A i \in 1..settled[d] : all[i] = arrived[d][i]
    PROVE  BreakerInv'
<1>1. SiteType
  BY DEF BreakerInv
<1>2. /\ arrived' \in [Domain -> Seq(Outcome)] /\ arrived'[d] = all
      /\ \A e \in Domain : e # d => arrived'[e] = arrived[e]
  BY <1>1 DEF SiteType
<1>3. /\ resultLock' \in [Domain -> Seq(Outcome)] /\ resultLock'[d] = waiting
      /\ \A e \in Domain : e # d => resultLock'[e] = resultLock[e]
  BY <1>1 DEF SiteType
<1>4. SiteType'
  BY <1>1, <1>2, <1>3 DEF SiteType
<1>5. ASSUME NEW e \in Domain PROVE InOrder(resultLock'[e], arrived'[e], settled'[e])
  <2>1. CASE e = d
    BY <2>1, <1>2, <1>3
  <2>2. CASE e # d
    BY <2>2, <1>2, <1>3, DomainFacts
  <2> QED BY <2>1, <2>2
<1>6. ASSUME NEW e \in Domain
      PROVE  LastFailures(arrived'[e], settled'[e]) = LastFailures(arrived[e], settled[e])
  <2>1. CASE e = d
    <3>1. settled[d] \in Nat
      BY DomainFacts
    <3>2. LastFailures(all, settled[d]) = LastFailures(arrived[d], settled[d])
      BY <3>1, SameFailures
    <3> QED BY <2>1, <3>2, <1>2
  <2>2. CASE e # d
    BY <2>2, <1>2
  <2> QED BY <2>1, <2>2
<1>7. ASSUME NEW c \in SiteCrawler
      PROVE  consecutiveFailures'[c]
             = Wrapped(Cardinality(LastFailures(arrived'[DomainOf[c]], settled'[DomainOf[c]])))
  <2>1. DomainOf[c] \in Domain
    BY SiteBreakerAssumption
  <2>2. LastFailures(arrived'[DomainOf[c]], settled'[DomainOf[c]])
        = LastFailures(arrived[DomainOf[c]], settled[DomainOf[c]])
    BY <1>6, <2>1
  <2>3. consecutiveFailures[c]
        = Wrapped(Cardinality(LastFailures(arrived[DomainOf[c]], settled[DomainOf[c]])))
    BY DEF BreakerInv
  <2> QED BY <2>2, <2>3
<1> QED BY <1>4, <1>5, <1>7 DEF BreakerInv

\* The result queues behind those that arrived before it.
LEMMA ResultArrives ==
    ASSUME BreakerInv, NEW c \in SiteCrawler, NEW outcome \in Outcome,
           RecordSiteResult(c, outcome)
    PROVE  BreakerInv'
<1> DEFINE d == DomainOf[c]
           waiting == Append(resultLock[d], outcome)
           all == Append(arrived[d], outcome)
<1>1. d \in Domain
  BY SiteBreakerAssumption
<1>2. /\ resultLock' = [resultLock EXCEPT ![d] = waiting]
      /\ arrived' = [arrived EXCEPT ![d] = all]
      /\ consecutiveFailures' = consecutiveFailures /\ settled' = settled
  BY DEF RecordSiteResult
<1> HIDE DEF d
<1>3. /\ waiting \in Seq(Outcome) /\ Len(waiting) = Len(resultLock[d]) + 1
      /\ \A i \in 1..Len(resultLock[d]) : waiting[i] = resultLock[d][i]
      /\ waiting[Len(resultLock[d]) + 1] = outcome
  BY <1>1, DomainFacts
<1>4. /\ all \in Seq(Outcome) /\ Len(all) = Len(arrived[d]) + 1
      /\ \A i \in 1..Len(arrived[d]) : all[i] = arrived[d][i]
      /\ all[Len(arrived[d]) + 1] = outcome
  BY <1>1, DomainFacts
<1> HIDE DEF waiting, all
<1>5. /\ Len(arrived[d]) = settled[d] + Len(resultLock[d]) /\ settled[d] \in Nat
      /\ Len(resultLock[d]) \in Nat
  BY <1>1, DomainFacts
<1>6. InOrder(waiting, all, settled[d])
  <2>1. ASSUME NEW i \in 1..Len(waiting) PROVE waiting[i] = all[settled[d] + i]
    <3>1. CASE i = Len(resultLock[d]) + 1
      <4>1. settled[d] + i = Len(arrived[d]) + 1
        BY <3>1, <1>5
      <4> QED BY <3>1, <4>1, <1>3, <1>4
    <3>2. CASE i \in 1..Len(resultLock[d])
      <4>1. resultLock[d][i] = arrived[d][settled[d] + i]
        BY <1>1, <3>2, DomainFacts DEF InOrder
      <4>2. settled[d] + i \in 1..Len(arrived[d])
        BY <3>2, <1>5
      <4> QED BY <3>2, <4>1, <4>2, <1>3, <1>4
    <3> QED BY <1>3, <1>5, <2>1, <3>1, <3>2
  <2> QED BY <1>3, <1>4, <1>5, <2>1 DEF InOrder
<1>7. \A i \in 1..settled[d] : all[i] = arrived[d][i]
  BY <1>4, <1>5
<1> QED BY <1>1, <1>2, <1>3, <1>4, <1>6, <1>7, OneDomain

\* The configuration read fails: the result at the head is taken out of the history.
LEMMA ResultLost ==
    ASSUME BreakerInv, NEW d \in Domain, ConfigReadFails(d)
    PROVE  BreakerInv'
<1> DEFINE waiting == Tail(resultLock[d])
           all == Without(arrived[d], settled[d] + 1)
<1>1. /\ resultLock' = [resultLock EXCEPT ![d] = waiting]
      /\ arrived' = [arrived EXCEPT ![d] = all]
      /\ consecutiveFailures' = consecutiveFailures /\ settled' = settled
      /\ resultLock[d] # <<>>
  BY DEF ConfigReadFails
<1>2. /\ waiting \in Seq(Outcome) /\ Len(waiting) = Len(resultLock[d]) - 1
      /\ \A i \in 1..(Len(resultLock[d]) - 1) : waiting[i] = resultLock[d][i + 1]
      /\ Len(resultLock[d]) >= 1
  BY <1>1, DomainFacts
<1>3. /\ Len(arrived[d]) = settled[d] + Len(resultLock[d]) /\ settled[d] \in Nat
      /\ Len(resultLock[d]) \in Nat /\ arrived[d] \in Seq(Outcome)
  BY DomainFacts
<1>4. settled[d] + 1 \in 1..Len(arrived[d])
  BY <1>2, <1>3
<1>5. /\ all \in Seq(Outcome) /\ Len(all) = Len(arrived[d]) - 1
      /\ \A j \in 1..(Len(arrived[d]) - 1) :
             all[j] = IF j < settled[d] + 1 THEN arrived[d][j] ELSE arrived[d][j + 1]
  BY <1>3, <1>4, OneTakenOut DEF Without
<1> HIDE DEF waiting, all
<1>6. InOrder(waiting, all, settled[d])
  <2>1. ASSUME NEW i \in 1..Len(waiting) PROVE waiting[i] = all[settled[d] + i]
    <3>1. i + 1 \in 1..Len(resultLock[d]) /\ settled[d] + i \in 1..(Len(arrived[d]) - 1)
          /\ ~(settled[d] + i < settled[d] + 1) /\ i \in 1..(Len(resultLock[d]) - 1)
      BY <1>2, <1>3
    <3>2. resultLock[d][i + 1] = arrived[d][settled[d] + (i + 1)]
      BY <3>1, DomainFacts DEF InOrder
    <3>3. settled[d] + (i + 1) = (settled[d] + i) + 1
      BY <1>3
    <3> QED BY <1>2, <1>5, <3>1, <3>2, <3>3
  <2> QED BY <1>2, <1>3, <1>5, <2>1 DEF InOrder
<1>7. \A i \in 1..settled[d] : all[i] = arrived[d][i]
  <2>1. ASSUME NEW i \in 1..settled[d] PROVE all[i] = arrived[d][i]
    <3>1. i \in 1..(Len(arrived[d]) - 1) /\ i < settled[d] + 1
      BY <1>2, <1>3
    <3> QED BY <1>5, <3>1
  <2> QED BY <2>1
<1> QED BY <1>1, <1>2, <1>5, <1>6, <1>7, OneDomain

\* The result at the head is applied to every crawler of its domain.
LEMMA ResultApplied ==
    ASSUME BreakerInv, NEW d \in Domain, ApplyResult(d)
    PROVE  BreakerInv'
<1> DEFINE outcome == resultLock[d][1]
           waiting == Tail(resultLock[d])
<1>1. SiteType
  BY DEF BreakerInv
<1>2. resultLock[d] # <<>>
  BY DEF ApplyResult, Holder
<1>3. /\ consecutiveFailures' = [c \in SiteCrawler |->
             IF c \in DomainPeers(d) THEN Counted(consecutiveFailures[c], outcome)
             ELSE consecutiveFailures[c]]
      /\ resultLock' = [resultLock EXCEPT ![d] = Without(@, 1)]
      /\ settled' = [settled EXCEPT ![d] = @ + 1] /\ arrived' = arrived
  BY <1>2 DEF ApplyResult, Holder
<1>4. /\ waiting \in Seq(Outcome) /\ Len(waiting) = Len(resultLock[d]) - 1
      /\ \A i \in 1..(Len(resultLock[d]) - 1) : waiting[i] = resultLock[d][i + 1]
      /\ Len(resultLock[d]) >= 1 /\ Without(resultLock[d], 1) = waiting
      /\ outcome \in Outcome
  <2>1. resultLock[d] \in Seq(Outcome)
    BY DomainFacts
  <2> QED BY <1>2, <2>1 DEF Without
<1>5. /\ Len(arrived[d]) = settled[d] + Len(resultLock[d]) /\ settled[d] \in Nat
      /\ Len(resultLock[d]) \in Nat /\ outcome = arrived[d][settled[d] + 1]
  <2>1. 1 \in 1..Len(resultLock[d])
    BY <1>4, DomainFacts
  <2> QED BY <2>1, DomainFacts DEF InOrder
<1> HIDE DEF waiting, outcome
<1>6. /\ resultLock' \in [Domain -> Seq(Outcome)] /\ resultLock'[d] = waiting
      /\ \A e \in Domain : e # d => resultLock'[e] = resultLock[e]
  <2>1. resultLock' = [resultLock EXCEPT ![d] = waiting]
    BY <1>3, <1>4
  <2> QED BY <1>1, <1>4, <2>1 DEF SiteType
<1>7. /\ settled' \in [Domain -> Nat] /\ settled'[d] = settled[d] + 1
      /\ \A e \in Domain : e # d => settled'[e] = settled[e]
  BY <1>1, <1>3 DEF SiteType
<1>8. ASSUME NEW e \in Domain PROVE InOrder(resultLock'[e], arrived'[e], settled'[e])
  <2>1. CASE e = d
    <3>1. ASSUME NEW i \in 1..Len(waiting) PROVE waiting[i] = arrived[d][(settled[d] + 1) + i]
      <4>1. i + 1 \in 1..Len(resultLock[d]) /\ i \in 1..(Len(resultLock[d]) - 1)
            /\ (settled[d] + 1) + i = settled[d] + (i + 1)
        <5>1. Len(waiting) = Len(resultLock[d]) - 1
          BY <1>4
        <5>2. Len(resultLock[d]) \in Nat /\ settled[d] \in Nat
          BY <1>5
        <5>3. \A n, k \in Nat : \A j \in 1..(n - 1) :
                 j + 1 \in 1..n /\ (k + 1) + j = k + (j + 1)
          OBVIOUS
        <5> QED BY <5>1, <5>2, <5>3
      <4>2. resultLock[d][i + 1] = arrived[d][settled[d] + (i + 1)]
        BY <4>1, DomainFacts DEF InOrder
      <4> QED BY <1>4, <4>1, <4>2
    <3>2. Len(arrived[d]) = (settled[d] + 1) + Len(waiting)
      <4>1. Len(waiting) = Len(resultLock[d]) - 1
        BY <1>4
      <4>2. \A n, k \in Nat : n + k = (n + 1) + (k - 1)
        OBVIOUS
      <4>3. Len(arrived[d]) = settled[d] + Len(resultLock[d])
            /\ settled[d] \in Nat /\ Len(resultLock[d]) \in Nat
        BY <1>5
      <4> QED BY <4>1, <4>2, <4>3
    <3> QED BY <2>1, <1>3, <1>6, <1>7, <3>1, <3>2 DEF InOrder
  <2>2. CASE e # d
    BY <2>2, <1>3, <1>6, <1>7, DomainFacts
  <2> QED BY <2>1, <2>2
<1>9. ASSUME NEW c \in SiteCrawler
      PROVE  /\ consecutiveFailures'[c] \in Nat
             /\ consecutiveFailures'[c]
                = Wrapped(Cardinality(LastFailures(arrived'[DomainOf[c]], settled'[DomainOf[c]])))
  <2>1. DomainOf[c] \in Domain /\ consecutiveFailures[c] \in Nat
    BY <1>1, SiteBreakerAssumption DEF SiteType
  <2>2. consecutiveFailures[c]
        = Wrapped(Cardinality(LastFailures(arrived[DomainOf[c]], settled[DomainOf[c]])))
    BY DEF BreakerInv
  <2>3. CASE DomainOf[c] # d
    BY <2>1, <2>2, <2>3, <1>3, <1>7 DEF DomainPeers
  <2>4. CASE DomainOf[c] = d
    <3> DEFINE n == Cardinality(LastFailures(arrived[d], settled[d]))
               n1 == Cardinality(LastFailures(arrived[d], settled[d] + 1))
    <3>1. n \in Nat /\ n1 \in Nat
      BY <1>5, FailedIsFinite
    <3>2. consecutiveFailures'[c] = Counted(Wrapped(n), outcome)
      BY <2>2, <2>4, <1>3 DEF DomainPeers
    <3>3. CASE outcome = "failed"
      <4>1. n1 = n + 1
        BY <1>5, <3>3, OneMoreFailure
      <4>2. Counted(Wrapped(n), outcome) = Wrapped(n1)
        <5> HIDE DEF n, n1
        <5> QED BY <3>1, <3>3, <4>1, CountFollows
      <4> HIDE DEF n, n1
      <4>3. Wrapped(n1) \in Nat
        BY <3>1, CountFollows
      <4> QED BY <2>4, <3>2, <4>2, <4>3, <1>3, <1>7 DEF n1
    <3>4. CASE outcome = "succeeded"
      <4>1. n1 = 0
        <5>1. settled[d] + 1 \in Nat /\ arrived[d][settled[d] + 1] # "failed"
          BY <1>5, <3>4
        <5> QED BY <5>1, NoFailure
      <4>2. Counted(Wrapped(n), outcome) = 0 /\ Wrapped(0) = 0
        <5> HIDE DEF n, n1
        <5> QED BY <3>1, <3>4, CountFollows
      <4> HIDE DEF n
      <4> QED BY <2>4, <3>2, <4>1, <4>2, <1>3, <1>7
    <3> QED BY <3>3, <3>4, <1>4 DEF Outcome
  <2> QED BY <2>3, <2>4
<1>10. SiteType'
  <2>1. consecutiveFailures' = [c \in SiteCrawler |-> consecutiveFailures'[c]]
    BY <1>3
  <2> QED BY <1>1, <1>3, <1>6, <1>7, <1>9, <2>1 DEF SiteType
<1> QED BY <1>8, <1>9, <1>10 DEF BreakerInv

-----------------------------------------------------------------------------

\* Every count of _record_site_result is the run of failures that ends its domain's results
\* in the order they arrived, modulo the limit: the lock hands the results through first come
\* first served, and one that waits for the configuration lets none overtake it.
THEOREM CountsAreTheLastFailures == SiteSpec => []CountsFollowArrival
<1>1. SiteInit => BreakerInv
  <2> SUFFICES ASSUME SiteInit PROVE BreakerInv
    OBVIOUS
  <2>1. SiteType
    BY DEF SiteInit, SiteType
  <2>2. ASSUME NEW d \in Domain PROVE InOrder(resultLock[d], arrived[d], settled[d])
    BY DEF SiteInit, InOrder
  <2>3. ASSUME NEW c \in SiteCrawler
        PROVE  consecutiveFailures[c]
               = Wrapped(Cardinality(LastFailures(arrived[DomainOf[c]], settled[DomainOf[c]])))
    <3>1. DomainOf[c] \in Domain
      BY SiteBreakerAssumption
    <3>2. settled[DomainOf[c]] = 0 /\ consecutiveFailures[c] = 0
      BY <3>1 DEF SiteInit
    <3>3. Cardinality(LastFailures(arrived[DomainOf[c]], 0)) = 0
      BY NoFailure
    <3>4. Wrapped(0) = 0
      BY CountFollows
    <3> QED BY <3>2, <3>3, <3>4
  <2> QED BY <2>1, <2>2, <2>3 DEF BreakerInv
<1>2. BreakerInv /\ [SiteNext]_siteVars => BreakerInv'
  <2> SUFFICES ASSUME BreakerInv, [SiteNext]_siteVars PROVE BreakerInv'
    OBVIOUS
  <2>1. CASE UNCHANGED <<consecutiveFailures, resultLock, arrived, settled>>
    BY <2>1 DEF BreakerInv, SiteType
  <2>2. ASSUME NEW c \in SiteCrawler, NEW outcome \in {"succeeded", "failed"},
               RecordSiteResult(c, outcome)
        PROVE  BreakerInv'
    BY <2>2, ResultArrives DEF Outcome
  <2>3. ASSUME NEW d \in Domain, ReadConfig(d) PROVE BreakerInv'
    BY <2>1, <2>3 DEF ReadConfig
  <2>4. ASSUME NEW c \in SiteCrawler, CooldownEnds(c) PROVE BreakerInv'
    BY <2>1, <2>4 DEF CooldownEnds
  <2>5. CASE UNCHANGED siteVars
    BY <2>1, <2>5 DEF siteVars
  <2> QED BY <2>2, <2>3, <2>4, <2>5, ResultLost, ResultApplied DEF SiteNext
<1>3. BreakerInv => CountsFollowArrival
  <2> SUFFICES ASSUME BreakerInv, NEW c \in SiteCrawler
               PROVE  consecutiveFailures[c] = Expected(DomainOf[c])
    BY DEF CountsFollowArrival
  <2>1. DomainOf[c] \in Domain
    BY SiteBreakerAssumption
  <2>2. TrailingFailures(History(DomainOf[c]))
        = Cardinality(LastFailures(arrived[DomainOf[c]], settled[DomainOf[c]]))
    BY <2>1, DomainFacts, TrailingAreFailed DEF History
  <2>3. consecutiveFailures[c]
        = Wrapped(Cardinality(LastFailures(arrived[DomainOf[c]], settled[DomainOf[c]])))
    BY DEF BreakerInv
  <2> QED BY <2>2, <2>3 DEF Expected, Wrapped
<1> QED BY <1>1, <1>2, <1>3, PTL DEF SiteSpec

-----------------------------------------------------------------------------
(* The pace of a site. *)

PaceType ==
    /\ clock \in Nat /\ nextAllowed \in Nat
    /\ siteLock \in PaceWorker \cup {Nobody}
    /\ step \in [PaceWorker -> {"idle", "queued", "pacing", "searching", "retrying",
                                "found", "failed"}]

\* Who is past the queue holds the lock.
LockHeld == \A w \in PaceWorker : step[w] \notin {"idle", "queued"} => siteLock = w

\* Is a search over whose gap is neither recorded nor lost yet?
Ending == \E w \in PaceWorker : step[w] \in {"found", "failed"}

\* The gap of the last search is in nextAllowed, unless it is still to be recorded or lost.
GapStands ==
    lastSearch # Nobody =>
        /\ lastSearch \in Nat /\ lastSearch <= clock
        /\ Ending \/ unpaced \/ lastSearch + MinGap <= nextAllowed

PaceInv == PaceType /\ LockHeld /\ GapStands /\ SiteIsNotHammered

\* The gap is a number.
LEMMA MinGapType == MinGap \in Nat /\ CrawlDelay \in Nat
BY SitePacingAssumption DEF MinGap

\* Every step keeps PaceInv.
LEMMA PaceStep == PaceInv /\ [PaceNext]_paceVars => PaceInv'
<1> SUFFICES ASSUME PaceInv, [PaceNext]_paceVars PROVE PaceInv'
  OBVIOUS
<1> USE SitePacingAssumption, MinGapType DEF PaceInv, PaceType, LockHeld, Ending, GapStands,
      SiteIsNotHammered
<1>1. CASE Tick
  BY <1>1 DEF Tick
<1>2. ASSUME NEW w \in PaceWorker, AskForSite(w) PROVE PaceInv'
  BY <1>2 DEF AskForSite, To
<1>3. ASSUME NEW w \in PaceWorker, EnterSite(w) PROVE PaceInv'
  BY <1>3 DEF EnterSite, To
<1>4. ASSUME NEW w \in PaceWorker, BeginSearch(w) PROVE PaceInv'
  <2>1. PaceType' /\ LockHeld'
    BY <1>4 DEF BeginSearch, To
  <2>2. ~Ending
    BY <1>4 DEF BeginSearch
  <2>3. GapStands'
    BY <1>4, <2>2 DEF BeginSearch, To
  <2>4. ~(lastSearch # Nobody /\ ~unpaced /\ clock < lastSearch + MinGap)
    BY <1>4, <2>2 DEF BeginSearch
  <2>5. SiteIsNotHammered'
    BY <1>4, <2>4, Zenon DEF BeginSearch
  <2> QED BY <2>1, <2>3, <2>5
<1>5. ASSUME NEW w \in PaceWorker, RetryAfterBot(w) PROVE PaceInv'
  BY <1>5 DEF RetryAfterBot, To
<1>6. ASSUME NEW w \in PaceWorker, NEW o \in {"found", "failed"}, EndSearch(w, o) PROVE PaceInv'
  <2>1. PaceType'
    BY <1>6 DEF EndSearch, To
  <2>2. LockHeld'
    BY <1>6 DEF EndSearch, To
  <2>3. GapStands'
    BY <1>6 DEF EndSearch, To
  <2>4. SiteIsNotHammered'
    BY <1>6 DEF EndSearch
  <2> QED BY <2>1, <2>2, <2>3, <2>4
<1>7. ASSUME NEW w \in PaceWorker, RecordGap(w) PROVE PaceInv'
  BY <1>7 DEF RecordGap, To, Gaps
<1>8. ASSUME NEW w \in PaceWorker, GapLost(w) PROVE PaceInv'
  BY <1>8 DEF GapLost, To
<1>9. CASE UNCHANGED paceVars
  BY <1>9 DEF paceVars
<1> QED BY <1>1, <1>2, <1>3, <1>4, <1>5, <1>6, <1>7, <1>8, <1>9 DEF PaceNext

\* _paced_search leaves half the delay between the end of a search and the start of the
\* next one of the site, for every delay, number of workers and outcome, if the
\* configuration could be read.
THEOREM GapIsKept == PaceSpec => []SiteIsNotHammered
<1>1. PaceInit => PaceInv
  <2>1. PaceInit => PaceType
    BY DEF PaceInit, PaceType
  <2>2. PaceInit => LockHeld /\ GapStands
    BY DEF PaceInit, LockHeld, GapStands
  <2>3. PaceInit => SiteIsNotHammered
    BY DEF PaceInit, SiteIsNotHammered
  <2> QED BY <2>1, <2>2, <2>3 DEF PaceInv
<1>2. PaceInv => SiteIsNotHammered
  BY DEF PaceInv
<1> QED BY <1>1, <1>2, PaceStep, PTL DEF PaceSpec

-----------------------------------------------------------------------------
(* The order of the queue. *)

Row == [status : {"none", "pending", "in_progress", "done"}, priority : {0, 1},
        requested : Nat, due : BOOLEAN, place : Nat]
Asked == [at : Nat, click : BOOLEAN, late : BOOLEAN]

LaneType ==
    /\ lane \in [LaneRow -> Row]
    /\ turn \in [LaneRow -> Asked]
    /\ now \in Nat

\* A row that waits or is held still says when it was asked for and whether by a click,
\* but for one that was saved while a worker held it; no release is in the lane.
TurnKept(r, row, asked) ==
    /\ row.status \in {"pending", "in_progress"} /\ ~asked.late
       => /\ row.priority = IF asked.click THEN 1 ELSE 0
          /\ row.requested = asked.at
    /\ row.priority = 1 \/ asked.click => r \notin ReleaseRow

LaneInv ==
    /\ LaneType
    /\ \A r \in LaneRow : TurnKept(r, lane[r], turn[r])

-----------------------------------------------------------------------------
(* The rows the statements write. *)

\* A row put in the lane is a row.
LEMMA WaitingRow ==
    ASSUME NEW p \in {0, 1}, NEW at \in Nat, NEW due \in BOOLEAN
    PROVE  Waiting(p, at, due) \in Row
BY DEF Waiting, Row

\* It says when it was asked for, and how.
LEMMA WaitingFields ==
    ASSUME NEW p, NEW at, NEW due
    PROVE  /\ Waiting(p, at, due).status = "pending"
           /\ Waiting(p, at, due).priority = p
           /\ Waiting(p, at, due).requested = at
BY DEF Waiting

\* The other steps change the status and the place of a row, its priority, or that it is due.
LEMMA RowChanges ==
    ASSUME NEW row \in Row, NEW status \in {"pending", "in_progress", "done"}, NEW place \in Nat
    PROVE  [row EXCEPT !.status = status, !.place = place]
           = [status |-> status, priority |-> row.priority, requested |-> row.requested,
              due |-> row.due, place |-> place]
<1> DEFINE r1 == [row EXCEPT !.status = status]
<1>1. r1 = [status |-> status, priority |-> row.priority, requested |-> row.requested,
            due |-> row.due, place |-> row.place]
  BY DEF Row
<1>2. [r1 EXCEPT !.place = place]
      = [status |-> status, priority |-> row.priority, requested |-> row.requested,
         due |-> row.due, place |-> place]
  <2> HIDE DEF r1
  <2> QED BY <1>1
<1> QED BY <1>2

\* A save of a row that is there raises its priority alone.
LEMMA RowSaved ==
    ASSUME NEW row \in Row
    PROVE  /\ [row EXCEPT !.priority = 1] \in Row
           /\ [row EXCEPT !.priority = 1].priority = 1
           /\ [row EXCEPT !.priority = 1].status = row.status
           /\ [row EXCEPT !.priority = 1].requested = row.requested
BY DEF Row

\* The end of a cooldown makes it due again and changes nothing else.
LEMMA RowDue ==
    ASSUME NEW row \in Row
    PROVE  /\ [row EXCEPT !.due = TRUE] \in Row
           /\ [row EXCEPT !.due = TRUE].priority = row.priority
           /\ [row EXCEPT !.due = TRUE].status = row.status
           /\ [row EXCEPT !.due = TRUE].requested = row.requested
BY DEF Row

-----------------------------------------------------------------------------
(* The invariant, statement by statement. *)

\* What holds of one row.
LEMMA RowFacts ==
    ASSUME LaneInv, NEW r \in LaneRow
    PROVE  /\ lane[r] \in Row /\ turn[r] \in Asked /\ now \in Nat
           /\ TurnKept(r, lane[r], turn[r])
           /\ lane[r].status \in {"none", "pending", "in_progress", "done"}
           /\ lane[r].priority \in {0, 1} /\ lane[r].requested \in Nat
           /\ turn = [turn EXCEPT ![r] = turn[r]]
<1>1. /\ lane[r] \in Row /\ turn[r] \in Asked /\ now \in Nat
      /\ turn = [turn EXCEPT ![r] = turn[r]]
  BY DEF LaneInv, LaneType
<1>2. TurnKept(r, lane[r], turn[r])
  BY DEF LaneInv
<1> QED BY <1>1, <1>2 DEF Row

\* A statement about one row leaves the others as they are.
LEMMA OneRow ==
    ASSUME LaneInv, NEW r \in LaneRow, NEW row \in Row, Put(r, row),
           NEW asked \in Asked, turn' = [turn EXCEPT ![r] = asked], now' = now,
           TurnKept(r, row, asked)
    PROVE  LaneInv'
<1>1. LaneType
  BY DEF LaneInv
<1>2. lane' \in [LaneRow -> Row] /\ lane'[r] = row
      /\ \A s \in LaneRow : s # r => lane'[s] = lane[s]
  BY <1>1 DEF LaneType, Put
<1>3. turn' \in [LaneRow -> Asked] /\ turn'[r] = asked
      /\ \A s \in LaneRow : s # r => turn'[s] = turn[s]
  BY <1>1 DEF LaneType
<1>4. ASSUME NEW s \in LaneRow PROVE TurnKept(s, lane'[s], turn'[s])
  <2>1. CASE s = r
    BY <2>1, <1>2, <1>3
  <2>2. CASE s # r
    <3>1. lane'[s] = lane[s] /\ turn'[s] = turn[s]
      BY <2>2, <1>2, <1>3
    <3> QED BY <3>1, RowFacts
  <2> QED BY <2>1, <2>2
<1>5. LaneType'
  BY <1>1, <1>2, <1>3 DEF LaneType
<1> QED BY <1>4, <1>5 DEF LaneInv

\* A routine enqueue: ON CONFLICT leaves what waits or is held as it is.
LEMMA Enqueued ==
    ASSUME LaneInv, NEW r \in LaneRow, Enqueue(r)
    PROVE  LaneInv'
<1> DEFINE asked == [at |-> now, click |-> FALSE, late |-> FALSE]
<1>1. Put(r, Fresh(0)) /\ turn' = [turn EXCEPT ![r] = asked] /\ now' = now
  BY DEF Enqueue, AskedNow
<1>2. Fresh(0) \in Row /\ asked \in Asked
  BY RowFacts, WaitingRow DEF Fresh, Asked
<1>3. TurnKept(r, Fresh(0), asked)
  <2>1. asked.click = FALSE /\ asked.late = FALSE
    OBVIOUS
  <2>2. asked.at = now
    OBVIOUS
  <2>3. /\ Fresh(0).status = "pending" /\ Fresh(0).priority = 0
        /\ Fresh(0).requested = now
    BY DEF Fresh, Waiting
  <2>4. Fresh(0).priority = IF asked.click THEN 1 ELSE 0
    BY <2>1, <2>3
  <2>5. ~(Fresh(0).priority = 1 \/ asked.click)
    BY <2>1, <2>3
  <2> HIDE DEF asked
  <2> QED BY <2>2, <2>3, <2>4, <2>5 DEF TurnKept
<1> HIDE DEF asked
<1> QED BY <1>1, <1>2, <1>3, OneRow

\* A click: a new row, a raised one, or one that is held and keeps its place.
LEMMA SavedRow ==
    ASSUME LaneInv, NEW r \in LaneRow, Save(r)
    PROVE  LaneInv'
<1>1. Put(r, Saved(r)) /\ r \notin ReleaseRow /\ now' = now
  BY DEF Save
<1>2. CASE Held(r)
  <2> DEFINE asked == [at |-> turn[r].at, click |-> turn[r].click,
                       late |-> turn[r].late \/ lane[r].priority = 0]
             row == [lane[r] EXCEPT !.priority = 1]
  <2>1. Saved(r) = row
    BY <1>2 DEF Saved
  <2>2. turn' = [turn EXCEPT ![r] = asked]
    <3>1. turn' = [turn EXCEPT ![r].late = (@ \/ lane[r].priority = 0)]
      BY <1>2 DEF Save
    <3>2. PICK old \in Asked : old = turn[r]
      BY RowFacts
    <3>3. PICK late \in BOOLEAN : late = (turn[r].late \/ lane[r].priority = 0)
      OBVIOUS
    <3>4. [old EXCEPT !.late = late] = [at |-> old.at, click |-> old.click, late |-> late]
      BY DEF Asked
    <3>5. turn' = [turn EXCEPT ![r] = [old EXCEPT !.late = late]]
      BY <3>1, <3>2, <3>3
    <3> QED BY <3>2, <3>3, <3>4, <3>5
  <2>3. row \in Row /\ asked \in Asked
    BY RowFacts, RowSaved DEF Asked
  <2>4. row.priority = 1 /\ row.requested = lane[r].requested
    BY RowFacts, RowSaved
  <2>5. asked.at = turn[r].at /\ asked.click = turn[r].click
        /\ (~asked.late => ~turn[r].late /\ lane[r].priority = 1)
    BY RowFacts
  <2>6. TurnKept(r, row, asked)
    <3>1. TurnKept(r, lane[r], turn[r]) /\ lane[r].status = "in_progress"
      BY <1>2, RowFacts DEF Held
    <3> HIDE DEF row, asked
    <3> QED BY <1>1, <2>4, <2>5, <3>1 DEF TurnKept
  <2> HIDE DEF asked, row
  <2> QED BY <1>1, <2>1, <2>2, <2>3, <2>6, OneRow
<1>3. CASE InLane(r)
  <2> DEFINE row == Waiting(1, lane[r].requested, lane[r].due)
  <2>1. /\ ~Held(r) /\ lane[r].status = "pending" /\ lane[r].priority = 1
        /\ lane[r].due \in BOOLEAN
    BY <1>3, RowFacts DEF InLane, Pending, Held, Row
  <2>2. Saved(r) = row /\ turn' = turn
    BY <1>3, <2>1 DEF Saved, Save, Pending
  <2>3. row \in Row
    BY <2>1, RowFacts, WaitingRow
  <2>4. TurnKept(r, row, turn[r])
    BY <1>1, <2>1, RowFacts, WaitingFields DEF TurnKept
  <2> HIDE DEF row
  <2> QED BY <1>1, <2>2, <2>3, <2>4, RowFacts, OneRow
<1>4. CASE ~Held(r) /\ ~InLane(r)
  <2> DEFINE asked == [at |-> now, click |-> TRUE, late |-> FALSE]
  <2>1. turn' = [turn EXCEPT ![r] = asked]
    BY <1>4 DEF Save, AskedNow
  <2>2. PICK due \in BOOLEAN : Saved(r) = Waiting(1, now, due)
    BY <1>4, RowFacts DEF Saved, Fresh, Row
  <2>3. Waiting(1, now, due) \in Row /\ asked \in Asked
    BY RowFacts, WaitingRow DEF Asked
  <2>4. TurnKept(r, Waiting(1, now, due), asked)
    BY <1>1, WaitingFields DEF TurnKept
  <2> HIDE DEF asked
  <2> QED BY <1>1, <2>1, <2>2, <2>3, <2>4, OneRow
<1> QED BY <1>2, <1>3, <1>4 DEF InLane, Held, Pending

\* A search is over.
LEMMA RowDone ==
    ASSUME LaneInv, NEW r \in LaneRow, Done(r)
    PROVE  LaneInv'
<1> DEFINE row == [status |-> "done", priority |-> lane[r].priority,
                   requested |-> lane[r].requested, due |-> lane[r].due, place |-> 0]
<1>1. Put(r, row) /\ turn' = turn /\ now' = now
  <2>1. PICK old \in Row : old = lane[r]
    BY RowFacts
  <2>2. [old EXCEPT !.status = "done", !.place = 0]
        = [status |-> "done", priority |-> old.priority,
           requested |-> old.requested, due |-> old.due, place |-> 0]
    BY RowChanges
  <2> QED BY <2>1, <2>2 DEF Done
<1>2. row \in Row
  BY RowFacts DEF Row
<1>3. TurnKept(r, row, turn[r])
  BY RowFacts DEF TurnKept
<1> HIDE DEF row
<1> QED BY <1>1, <1>2, <1>3, RowFacts, OneRow

\* A deferral or a revert puts the row back with its own time.
LEMMA RowHandedBack ==
    ASSUME LaneInv, NEW r \in LaneRow, NEW due \in BOOLEAN, HandBack(r, due)
    PROVE  LaneInv'
<1>1. Put(r, HandedBack(r, due)) /\ turn' = turn /\ now' = now /\ lane[r].status = "in_progress"
  BY DEF HandBack, Held
<1>2. HandedBack(r, due) \in Row
  BY RowFacts, WaitingRow DEF HandedBack
<1>3. TurnKept(r, HandedBack(r, due), turn[r])
  BY <1>1, RowFacts, WaitingFields DEF TurnKept, HandedBack
<1> QED BY <1>1, <1>2, <1>3, RowFacts, OneRow

\* The cooldown of a deferred row is over.
LEMMA RowCooled ==
    ASSUME LaneInv, NEW r \in LaneRow, CooldownOver(r)
    PROVE  LaneInv'
<1> DEFINE row == [lane[r] EXCEPT !.due = TRUE]
<1>1. Put(r, row) /\ turn' = turn /\ now' = now
  BY DEF CooldownOver
<1>2. /\ row \in Row /\ row.priority = lane[r].priority /\ row.status = lane[r].status
      /\ row.requested = lane[r].requested
  BY RowFacts, RowDue
<1> HIDE DEF row
<1>3. TurnKept(r, row, turn[r])
  BY <1>2, RowFacts DEF TurnKept
<1> QED BY <1>1, <1>2, <1>3, RowFacts, OneRow

-----------------------------------------------------------------------------
(* The claim. *)

Rank(r) == Cardinality({s \in ClaimableRows : Before(s, r)}) + 1
Taken(r) == r \in ClaimableRows /\ Rank(r) <= BatchSize

\* Finitely many go before a row.
LEMMA AheadIsFinite ==
    ASSUME NEW r
    PROVE  /\ IsFiniteSet({s \in ClaimableRows : Before(s, r)})
           /\ Rank(r) \in Nat
<1>1. {s \in ClaimableRows : Before(s, r)} \subseteq LaneRow /\ IsFiniteSet(LaneRow)
  BY QueueLanesAssumption DEF ClaimableRows
<1>2. IsFiniteSet({s \in ClaimableRows : Before(s, r)})
  BY <1>1, FS_Subset
<1> QED BY <1>2, FS_CardinalityType DEF Rank

\* What the claim makes of a row.
LEMMA ClaimedRow ==
    ASSUME LaneInv, ClaimBatch, NEW r \in LaneRow
    PROVE  /\ ~Taken(r) => lane'[r] = lane[r]
           /\ Taken(r) => /\ lane[r].status = "pending"
                          /\ lane'[r] = [status |-> "in_progress", priority |-> lane[r].priority,
                                         requested |-> lane[r].requested, due |-> lane[r].due,
                                         place |-> Rank(r)]
<1>1. lane' = [s \in LaneRow |->
                 IF Taken(s) THEN [lane[s] EXCEPT !.status = "in_progress", !.place = Rank(s)]
                 ELSE lane[s]]
  BY DEF ClaimBatch, Rank, Taken
<1>2. PICK row \in Row : row = lane[r]
  BY RowFacts
<1>3. PICK place \in Nat : place = Rank(r)
  BY AheadIsFinite
<1>4. [row EXCEPT !.status = "in_progress", !.place = place]
      = [status |-> "in_progress", priority |-> row.priority, requested |-> row.requested,
         due |-> row.due, place |-> place]
  BY RowChanges
<1>5. Taken(r) => lane[r].status = "pending"
  BY DEF Taken, ClaimableRows, Pending
<1> QED BY <1>1, <1>2, <1>3, <1>4, <1>5

\* A claim changes the status and the place of what it takes.
LEMMA BatchClaimed ==
    ASSUME LaneInv, ClaimBatch
    PROVE  LaneInv'
<1>1. turn' = turn /\ now' = now
  BY DEF ClaimBatch
<1>2. ASSUME NEW r \in LaneRow PROVE lane'[r] \in Row /\ TurnKept(r, lane'[r], turn[r])
  <2>1. CASE ~Taken(r)
    BY <2>1, ClaimedRow, RowFacts
  <2>2. CASE Taken(r)
    <3> DEFINE row == [status |-> "in_progress", priority |-> lane[r].priority,
                       requested |-> lane[r].requested, due |-> lane[r].due, place |-> Rank(r)]
    <3>1. lane'[r] = row /\ lane[r].status = "pending"
      BY <2>2, ClaimedRow
    <3>2. lane[r] \in Row /\ Rank(r) \in Nat
      BY RowFacts, AheadIsFinite
    <3>3. row \in Row
      BY <3>2 DEF Row
    <3>4. /\ row.status = "in_progress" /\ row.priority = lane[r].priority
          /\ row.requested = lane[r].requested
      OBVIOUS
    <3> HIDE DEF row
    <3>5. TurnKept(r, row, turn[r])
      BY <3>1, <3>4, RowFacts DEF TurnKept
    <3> QED BY <3>1, <3>3, <3>5
  <2> QED BY <2>1, <2>2
<1>3. lane' \in [LaneRow -> Row]
  <2>1. lane' = [r \in LaneRow |-> lane'[r]]
    BY DEF ClaimBatch
  <2> QED BY <2>1, <1>2
<1>4. LaneType'
  BY <1>1, <1>3 DEF LaneInv, LaneType
<1> QED BY <1>1, <1>2, <1>4 DEF LaneInv

\* LaneInv is inductive.
LEMMA LaneInvHolds == LaneSpec => []LaneInv
<1>1. LaneInit => LaneInv
  <2> SUFFICES ASSUME LaneInit PROVE LaneInv
    OBVIOUS
  <2> DEFINE asked == [at |-> 0, click |-> FALSE, late |-> FALSE]
  <2>1. lane = [r \in LaneRow |-> NoRow] /\ turn = [r \in LaneRow |-> asked] /\ now = 0
    BY DEF LaneInit
  <2>2. NoRow \in Row /\ asked \in Asked
    BY DEF NoRow, Row, Asked
  <2>3. NoRow.status = "none" /\ NoRow.priority = 0 /\ asked.click = FALSE
    BY DEF NoRow
  <2> HIDE DEF asked
  <2>4. ASSUME NEW r \in LaneRow PROVE TurnKept(r, NoRow, asked)
    BY <2>3 DEF TurnKept
  <2>5. LaneType
    BY <2>1, <2>2 DEF LaneType
  <2> QED BY <2>1, <2>4, <2>5 DEF LaneInv
<1>2. LaneInv /\ [LaneNext]_laneVars => LaneInv'
  <2> SUFFICES ASSUME LaneInv, [LaneNext]_laneVars PROVE LaneInv'
    OBVIOUS
  <2>1. ASSUME NEW r \in LaneRow,
               \/ Enqueue(r) \/ Save(r) \/ Done(r) \/ HandBack(r, TRUE) \/ HandBack(r, FALSE)
               \/ CooldownOver(r)
        PROVE  LaneInv'
    <3>1. TRUE \in BOOLEAN /\ FALSE \in BOOLEAN
      OBVIOUS
    <3>2. ASSUME NEW due \in BOOLEAN, HandBack(r, due) PROVE LaneInv'
      BY <3>2, RowHandedBack
    <3>3. CASE HandBack(r, TRUE) \/ HandBack(r, FALSE)
      BY <3>1, <3>2, <3>3, Zenon
    <3> QED BY <2>1, <3>3, Enqueued, SavedRow, RowDone, RowCooled
  <2>2. CASE TimePasses
    BY <2>2 DEF TimePasses, LaneInv, LaneType
  <2>3. CASE UNCHANGED laneVars
    BY <2>3 DEF laneVars, LaneInv, LaneType
  <2> QED BY <2>1, <2>2, <2>3, BatchClaimed DEF LaneNext
<1> QED BY <1>1, <1>2, PTL DEF LaneSpec

-----------------------------------------------------------------------------
(* The order. *)

\* Who should go first does so in the ORDER BY of the claim.
LEMMA OrderFollowsTurn ==
    ASSUME LaneInv, NEW r \in ClaimableRows, NEW s \in ClaimableRows, ShouldPrecede(r, s)
    PROVE  Before(r, s)
<1>1. /\ r \in LaneRow /\ s \in LaneRow
      /\ lane[r].status = "pending" /\ lane[s].status = "pending"
  BY DEF ClaimableRows, Pending
<1>2. /\ TurnKept(r, lane[r], turn[r]) /\ TurnKept(s, lane[s], turn[s])
      /\ turn[r] \in Asked /\ turn[s] \in Asked
  BY <1>1, RowFacts
<1>3. /\ lane[r].priority = IF turn[r].click THEN 1 ELSE 0
      /\ lane[s].priority = IF turn[s].click THEN 1 ELSE 0
      /\ lane[r].requested = turn[r].at /\ lane[s].requested = turn[s].at
      /\ turn[r].click => r \notin ReleaseRow
      /\ turn[s].click => s \notin ReleaseRow
  BY <1>1, <1>2 DEF TurnKept, ShouldPrecede
<1>4. CASE turn[r].click /\ ~turn[s].click
  BY <1>3, <1>4 DEF Before
<1>5. CASE turn[r].click /\ turn[s].click /\ turn[r].at < turn[s].at
  BY <1>3, <1>5 DEF Before
<1>6. CASE ~turn[r].click /\ ~turn[s].click
  BY <1>3, <1>6 DEF Before, ShouldPrecede
<1> QED BY <1>4, <1>5, <1>6 DEF ShouldPrecede

\* That order is a strict one.
LEMMA BeforeIsStrict ==
    ASSUME LaneInv, NEW q \in ClaimableRows, NEW r \in ClaimableRows, NEW s \in ClaimableRows
    PROVE  /\ ~Before(r, r)
           /\ Before(q, r) /\ Before(r, s) => Before(q, s)
<1>1. /\ q \in LaneRow /\ r \in LaneRow /\ s \in LaneRow
      /\ q \in Nat /\ r \in Nat /\ s \in Nat
  BY QueueLanesAssumption DEF ClaimableRows
<1>2. /\ lane[q].priority \in Nat /\ lane[r].priority \in Nat /\ lane[s].priority \in Nat
      /\ lane[q].requested \in Nat /\ lane[r].requested \in Nat /\ lane[s].requested \in Nat
  BY <1>1, RowFacts
<1> QED BY <1>1, <1>2 DEF Before

\* Ranks grow along it.
LEMMA RankFollowsOrder ==
    ASSUME LaneInv, NEW r \in ClaimableRows, NEW s \in ClaimableRows, Before(r, s)
    PROVE  Rank(r) < Rank(s)
<1> DEFINE A == {q \in ClaimableRows : Before(q, r)}
           B == {q \in ClaimableRows : Before(q, s)}
<1>1. A \subseteq B
  BY BeforeIsStrict
<1>2. r \in B /\ r \notin A
  BY BeforeIsStrict
<1>3. IsFiniteSet(A) /\ IsFiniteSet(B) /\ Cardinality(A) \in Nat /\ Cardinality(B) \in Nat
  BY AheadIsFinite, FS_CardinalityType
<1>4. Cardinality(A) < Cardinality(B)
  <2> HIDE DEF A, B
  <2> QED BY <1>1, <1>2, <1>3, FS_Subset
<1> QED BY <1>3, <1>4 DEF Rank

\* Nothing but a claim hands a row that waits to a worker.
LEMMA OnlyAClaimTakes ==
    ASSUME LaneInv, [LaneNext]_laneVars, ~ClaimBatch, NEW s \in ClaimableRows
    PROVE  lane'[s].status # "in_progress"
<1>1. s \in LaneRow /\ lane[s].status = "pending" /\ lane \in [LaneRow -> Row]
  BY DEF ClaimableRows, Pending, LaneInv, LaneType
<1>2. ASSUME NEW r \in LaneRow, NEW row, Put(r, row), r = s => row.status = "pending"
      PROVE  lane'[s].status # "in_progress"
  BY <1>1, <1>2 DEF Put
<1>3. ASSUME NEW r \in LaneRow, Enqueue(r) PROVE lane'[s].status # "in_progress"
  BY <1>1, <1>2, <1>3 DEF Enqueue
<1>4. ASSUME NEW r \in LaneRow, Save(r) PROVE lane'[s].status # "in_progress"
  <2>1. r = s => Saved(r).status = "pending"
    BY <1>1, WaitingFields DEF Saved, Held, Pending, Fresh
  <2> QED BY <1>2, <1>4, <2>1 DEF Save
<1>6. ASSUME NEW r \in LaneRow, CooldownOver(r) PROVE lane'[s].status # "in_progress"
  <2>1. r = s => [lane[r] EXCEPT !.due = TRUE].status = "pending"
    BY <1>1, RowDue
  <2> QED BY <1>2, <1>6, <2>1 DEF CooldownOver
<1>7. CASE UNCHANGED lane
  BY <1>1, <1>7
<1>8. ASSUME NEW r \in LaneRow, HandBack(r, TRUE) \/ HandBack(r,
   FALSE) PROVE lane'[s].status # "in_progress"
  <2>1. r # s
    BY <1>1, <1>8 DEF HandBack, Held
  <2> QED BY <1>2, <1>8, <2>1 DEF HandBack
<1>9. ASSUME NEW r \in LaneRow, Done(r) PROVE lane'[s].status # "in_progress"
  <2>1. r # s
    BY <1>1, <1>9 DEF Done, Held
  <2> QED BY <1>2, <1>9, <2>1 DEF Done
<1> QED BY <1>3, <1>4, <1>6, <1>7, <1>8, <1>9 DEF LaneNext, laneVars, TimePasses

\* claim_crawl_queue_batch takes from the front, and hands out what it takes in that order:
\* none of the statements that re-queue a row costs it its turn.
THEOREM ClaimsGoInTurn == LaneSpec => ServedInTurn
<1>1. ASSUME LaneInv, [LaneNext]_laneVars, NEW r \in ClaimableRows, NEW s \in ClaimableRows,
             lane'[s].status = "in_progress", ShouldPrecede(r, s)
      PROVE  /\ lane'[r].status = "in_progress"
             /\ lane'[r].place < lane'[s].place
  <2>1. ClaimBatch
    BY <1>1, OnlyAClaimTakes
  <2>2. r \in LaneRow /\ s \in LaneRow /\ lane[s].status = "pending"
    BY DEF ClaimableRows, Pending
  <2>3. Taken(s)
    BY <1>1, <2>1, <2>2, ClaimedRow
  <2>4. Rank(r) < Rank(s)
    BY <1>1, OrderFollowsTurn, RankFollowsOrder
  <2>5. Rank(r) \in Nat /\ Rank(s) \in Nat /\ BatchSize \in Nat
    BY AheadIsFinite, QueueLanesAssumption
  <2>6. Taken(r)
    BY <2>3, <2>4, <2>5 DEF Taken
  <2>7. /\ lane'[r] = [status |-> "in_progress", priority |-> lane[r].priority,
                       requested |-> lane[r].requested, due |-> lane[r].due, place |-> Rank(r)]
        /\ lane'[s] = [status |-> "in_progress", priority |-> lane[s].priority,
                       requested |-> lane[s].requested, due |-> lane[s].due, place |-> Rank(s)]
    BY <1>1, <2>1, <2>2, <2>3, <2>6, ClaimedRow
  <2> QED BY <2>4, <2>7
<1>2. LaneInv /\ [LaneNext]_laneVars
      => [\A r, s \in ClaimableRows :
             (lane'[s].status = "in_progress" /\ ShouldPrecede(r, s))
             => /\ lane'[r].status = "in_progress"
                /\ lane'[r].place < lane'[s].place]_laneVars
  BY <1>1
<1> QED BY <1>2, LaneInvHolds, PTL DEF LaneSpec, ServedInTurn

-----------------------------------------------------------------------------
(* Stranded claims. *)

\* Products grow with their factors.
LEMMA TimesMonotone == ASSUME NEW k \in Nat, NEW a \in Nat, NEW b \in Nat, a <= b
                       PROVE  k * a <= k * b
BY SMTT(30)

StrandType ==
    /\ enabledNow \in Nat /\ age \in Nat /\ fanout \in Nat
    /\ cutShort \subseteq [began : Nat, left : Nat]

StrandInv == StrandType /\ SlackKeepsLivePasses

\* A pass no older than its crawlers take, and reclaimed, had more crawlers than the slack
\* times those enabled when it was.
LEMMA ReclaimedTooSoon ==
    ASSUME StrandType, age <= PassTime(fanout), age > StrandedAfter
    PROVE  enabledNow * StrandedSlack < fanout
<1> DEFINE k == ClaimBatchSize * PaceDelay
<1>1. /\ {ClaimBatchSize, StrandedFloor, StrandedSlack, PaceDelay} \subseteq Nat
      /\ enabledNow \in Nat /\ fanout \in Nat /\ age \in Nat
  BY StrandedAssumption DEF StrandType
<1>2. k \in Nat /\ enabledNow * StrandedSlack \in Nat
  BY <1>1, SMTT(30)
<1>3. PassTime(fanout) = k * fanout
  BY <1>1, SMTT(30) DEF PassTime
<1>4. PassTime(enabledNow) * StrandedSlack = k * (enabledNow * StrandedSlack)
  BY <1>1, SMTT(30) DEF PassTime
<1>5. k * (enabledNow * StrandedSlack) \in Nat /\ k * fanout \in Nat
  BY <1>1, <1>2, SMTT(30)
<1>6. age > k * (enabledNow * StrandedSlack)
  <2>1. StrandedAfter >= PassTime(enabledNow) * StrandedSlack
    BY <1>1, <1>4, <1>5 DEF StrandedAfter, Greater
  <2>2. StrandedAfter \in Nat
    BY <1>1, <1>4, <1>5 DEF StrandedAfter, Greater
  <2> HIDE DEF k
  <2> QED BY <2>1, <2>2, <1>1, <1>4, <1>5
<1> HIDE DEF k
<1>7. k * (enabledNow * StrandedSlack) < k * fanout
  BY <1>1, <1>3, <1>5, <1>6
<1> QED BY <1>1, <1>2, <1>5, <1>7, TimesMonotone

\* Every step keeps StrandInv.
LEMMA StrandStep == StrandInv /\ [StrandNext]_strandVars => StrandInv'
<1> SUFFICES ASSUME StrandInv, [StrandNext]_strandVars PROVE StrandInv'
  OBVIOUS
<1>1. CASE TakeClaim \/ EndClaim \/ ClaimantDies \/ ClaimAges
  BY <1>1 DEF TakeClaim, EndClaim, ClaimantDies, ClaimAges, StrandInv, StrandType,
      SlackKeepsLivePasses
<1>2. CASE ReclaimStranded
  <2>1. StrandType'
    BY <1>2 DEF ReclaimStranded, StrandInv, StrandType
  <2>2. ASSUME NEW c \in cutShort' PROVE c.left * StrandedSlack < c.began
    <3>1. CASE c \in cutShort
      BY <3>1 DEF StrandInv, SlackKeepsLivePasses
    <3>2. CASE c \notin cutShort
      <4>1. /\ c = [began |-> fanout, left |-> enabledNow]
            /\ age <= PassTime(fanout) /\ age > StrandedAfter
        BY <1>2, <2>2, <3>2 DEF ReclaimStranded
      <4> QED BY <4>1, ReclaimedTooSoon DEF StrandInv
    <3> QED BY <3>1, <3>2
  <2> QED BY <2>1, <2>2 DEF StrandInv, SlackKeepsLivePasses
<1>3. ASSUME NEW n \in 1..MaxEnabled, ToggleRelease(n) PROVE StrandInv'
  BY <1>3, StrandedAssumption DEF ToggleRelease, StrandInv, StrandType, SlackKeepsLivePasses
<1>4. CASE UNCHANGED strandVars
  BY <1>4 DEF strandVars, StrandInv, StrandType, SlackKeepsLivePasses
<1> QED BY <1>1, <1>2, <1>3, <1>4 DEF StrandNext

\* For every pace, batch, floor and slack: the reclaim takes a live pass of the expected
\* length only after the enabled crawlers fell by more than the slack.
THEOREM SlackIsEnough == StrandSpec => []SlackKeepsLivePasses
<1>1. StrandInit => StrandInv
  BY StrandedAssumption DEF StrandInit, StrandInv, StrandType, SlackKeepsLivePasses
<1>2. StrandInv => SlackKeepsLivePasses
  BY DEF StrandInv
<1> QED BY <1>1, <1>2, StrandStep, PTL DEF StrandSpec

===============================================================================
