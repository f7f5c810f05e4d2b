---------------------------- MODULE ServiceProofs -----------------------------
(*******************************************************************************)
(* The proofs about PriceDrops, ConfigCache, EventStream, SignIn and          *)
(* LogQueue, for every set of sources, tabs, processes, clients and           *)
(* redemptions, and every bound.                                              *)
(*                                                                            *)
(* One inductive invariant for each: DropInv (ids are drawn once, and         *)
(* whatever is read or will be when a tab marks its feed was delivered or     *)
(* overtaken), ConfigInv (a cache and the reads under way against the writes  *)
(* of their process), EventInv (per client: sent, backlog and queue are in    *)
(* order, one before the other, and together what is owed), SignInInv (whose  *)
(* sign-up and account is in whose hands), LogInv (where a record may be).    *)
(*******************************************************************************)
EXTENDS PriceDrops, ConfigCache, EventStream, SignIn, LogQueue, DataLemmas

-----------------------------------------------------------------------------
(* Price drops. *)

Writing == [at : {"idle", "write", "commit"}, floor : Price \cup {NoPrice},
            new : Price \cup {NoPrice}, id : Nat, known : BOOLEAN, seen : SUBSET Price]

DropType ==
    /\ price \in [Source -> Price \cup {NoPrice}]
    /\ writer \in [Source -> Writing]
    /\ nextDrop \in Nat \ {0}
    /\ drops \subseteq Nat \ {0}
    /\ watermark \in Nat /\ tab \in [Tab -> Nat]

\* The floor a transaction read is a price it saw; what it does not record is not below it.
WriterSound(w) ==
    /\ w.at # "idle" /\ w.known => w.floor \in w.seen
    /\ w.at = "commit" /\ w.id = 0 => ~Undercuts(w.new, w.floor)
    /\ w.at # "commit" => w.id = 0

\* Ids are drawn once, from below the sequence.
IdsDrawn ==
    /\ \A s \in Source : writer[s].id < nextDrop /\ writer[s].id \notin drops
    /\ \A s, t \in Source : s # t /\ writer[s].id # 0 => writer[s].id # writer[t].id
    /\ \A i \in drops : i < nextDrop
    /\ watermark < nextDrop /\ \A t \in Tab : tab[t] < nextDrop

\* What counts as read, or will once a tab marks its feed.
UpTo(i) == i <= watermark \/ \E t \in Tab : i <= tab[t]

ReadInv ==
    /\ \A i \in Visible : UpTo(i) => i \in delivered \/ i \in overtaken
    /\ \A s \in Source : writer[s].id # 0 /\ UpTo(writer[s].id) => writer[s].id \in overtaken

DropInv ==
    /\ DropType
    /\ \A s \in Source : WriterSound(writer[s])
    /\ IdsDrawn
    /\ ReadInv
    /\ AllTimeLowIsReported

\* No transaction is a sound one.
LEMMA NobodyWrites == NoWriter \in Writing /\ WriterSound(NoWriter) /\ NoWriter.id = 0
<1>1. /\ NoWriter.at = "idle" /\ NoWriter.floor = NoPrice /\ NoWriter.new = NoPrice
      /\ NoWriter.id = 0 /\ NoWriter.known = FALSE /\ NoWriter.seen = {}
  BY DEF NoWriter
<1>2. NoWriter \in Writing
  BY DEF NoWriter, Writing
<1> QED BY <1>1, <1>2 DEF WriterSound

\* A floor is a price that stands, if one does.
LEMMA PricedIsPrices ==
    ASSUME price \in [Source -> Price \cup {NoPrice}]
    PROVE  /\ Priced(price) \subseteq Price
           /\ \A s \in Source : FloorNow(s) \in Price \cup {NoPrice}
           /\ \A s \in Source : Priced(price) # {} => FloorNow(s) \in Priced(price)
<1>1. Priced(price) \subseteq Price
  BY DEF Priced
<1>2. Priced(price) # {} => Min(Priced(price)) \in Priced(price)
  BY <1>1, MinOfNats, PriceDropsAssumption
<1> QED BY <1>1, <1>2 DEF FloorNow

\* A step that changes the transaction of s alone.
LEMMA OneWriter ==
    ASSUME DropInv, NEW s \in Source, NEW w \in Writing, writer' = [writer EXCEPT ![s] = w],
           WriterSound(w),
           \/ w.id = 0 /\ nextDrop' = nextDrop
           \/ w.id = nextDrop /\ nextDrop' = nextDrop + 1,
           UNCHANGED <<price, drops, saved, before, watermark, tab, delivered, overtaken,
                       undercut>>
    PROVE  DropInv'
<1>1. DropType
  BY DEF DropInv
<1>2. /\ writer' \in [Source -> Writing] /\ writer'[s] = w
      /\ \A t \in Source : t # s => writer'[t] = writer[t]
  BY <1>1 DEF DropType
<1>3. nextDrop' \in Nat \ {0} /\ nextDrop <= nextDrop' /\ w.id < nextDrop'
  BY <1>1 DEF DropType
<1>4. DropType'
  BY <1>1, <1>2, <1>3 DEF DropType
<1>5. ASSUME NEW t \in Source PROVE WriterSound(writer'[t])
  BY <1>2 DEF DropInv
<1>6. \A t \in Source : writer[t].id \in Nat /\ writer[t].id < nextDrop
  BY <1>1 DEF DropType, Writing, DropInv, IdsDrawn
<1>7. w.id \notin drops
  BY <1>1 DEF DropType, DropInv, IdsDrawn
<1>8. IdsDrawn'
  <2>1. ASSUME NEW t \in Source PROVE writer'[t].id < nextDrop' /\ writer'[t].id \notin drops'
    <3>1. CASE t = s
      BY <3>1, <1>2, <1>3, <1>7
    <3>2. CASE t # s
      <4>1. writer'[t].id = writer[t].id /\ writer[t].id \notin drops
        BY <3>2, <1>2 DEF DropInv, IdsDrawn
      <4> QED BY <4>1, <1>1, <1>3, <1>6 DEF DropType
    <3> QED BY <3>1, <3>2
  <2>2. ASSUME NEW t \in Source, NEW u \in Source, t # u, writer'[t].id # 0
        PROVE  writer'[t].id # writer'[u].id
    <3>1. CASE t = s
      <4>1. writer'[t].id = nextDrop /\ writer'[u].id = writer[u].id
        BY <2>2, <3>1, <1>2
      <4> QED BY <4>1, <1>1, <1>6 DEF DropType
    <3>2. CASE u = s
      <4>1. writer'[u].id \in {0, nextDrop} /\ writer'[t].id = writer[t].id
        BY <2>2, <3>2, <1>2
      <4> QED BY <2>2, <4>1, <1>1, <1>6 DEF DropType
    <3>3. CASE t # s /\ u # s
      BY <2>2, <3>3, <1>2 DEF DropInv, IdsDrawn
    <3> QED BY <3>1, <3>2, <3>3
  <2>3. /\ \A i \in drops' : i < nextDrop'
        /\ watermark' < nextDrop' /\ \A t \in Tab : tab'[t] < nextDrop'
    BY <1>1, <1>3 DEF DropType, DropInv, IdsDrawn
  <2> QED BY <2>1, <2>2, <2>3 DEF IdsDrawn
<1>9. ReadInv'
  <2>1. \A i : UpTo(i)' <=> UpTo(i)
    BY DEF UpTo
  <2>2. ~UpTo(nextDrop)
    BY <1>1 DEF UpTo, DropType, DropInv, IdsDrawn
  <2>3. ASSUME NEW i \in Visible', UpTo(i) PROVE i \in delivered' \/ i \in overtaken'
    BY <2>3 DEF Visible, DropInv, ReadInv
  <2>4. ASSUME NEW t \in Source, writer'[t].id # 0, UpTo(writer'[t].id)
        PROVE  writer'[t].id \in overtaken'
    <3>1. CASE t = s
      BY <2>2, <2>4, <3>1, <1>2
    <3>2. CASE t # s
      BY <2>4, <3>2, <1>2 DEF DropInv, ReadInv
    <3> QED BY <3>1, <3>2
  <2> QED BY <2>1, <2>3, <2>4 DEF ReadInv, UpTo
<1>10. AllTimeLowIsReported'
  BY DEF DropInv, AllTimeLowIsReported
<1> QED BY <1>4, <1>5, <1>8, <1>9, <1>10 DEF DropInv

\* A transaction begins: its floor is the least price committed by then.
LEMMA FloorRead ==
    ASSUME DropInv, NEW s \in Source, ReadFloor(s)
    PROVE  DropInv'
<1> DEFINE w == [at |-> "write", floor |-> FloorNow(s), new |-> NoPrice, id |-> 0,
                 known |-> Priced(price) # {}, seen |-> Priced(price)]
<1>1. writer' = [writer EXCEPT ![s] = w] /\ nextDrop' = nextDrop
  BY DEF ReadFloor
<1>2. /\ FloorNow(s) \in Price \cup {NoPrice} /\ Priced(price) \subseteq Price
      /\ Priced(price) # {} => FloorNow(s) \in Priced(price)
  BY PricedIsPrices DEF DropInv, DropType
<1>3. w \in Writing
  BY <1>2 DEF Writing
<1>4. /\ w.at = "write" /\ w.floor = FloorNow(s) /\ w.id = 0 /\ w.seen = Priced(price)
      /\ (w.known <=> Priced(price) # {})
  OBVIOUS
<1> HIDE DEF w
<1>5. WriterSound(w)
  BY <1>2, <1>4 DEF WriterSound
<1> QED BY <1>1, <1>3, <1>4, <1>5, OneWriter DEF ReadFloor

\* It writes, and draws an id from the sequence if the price undercuts its floor.
LEMMA PriceWritten ==
    ASSUME DropInv, NEW s \in Source, NEW new \in Price \cup {NoPrice}, WritePrice(s, new)
    PROVE  DropInv'
<1> DEFINE old == writer[s]
           id == IF Undercuts(new, old.floor) THEN nextDrop ELSE 0
           w == Written(old, new, id)
<1>1. /\ writer' = [writer EXCEPT ![s] = w]
      /\ nextDrop' = IF Undercuts(new, old.floor) THEN nextDrop + 1 ELSE nextDrop
      /\ old.at = "write"
  BY DEF WritePrice
<1>2. old \in Writing /\ nextDrop \in Nat \ {0} /\ WriterSound(old)
  BY DEF DropInv, DropType
<1>3. id \in Nat
  BY <1>2
<1> HIDE DEF old
<1>4. /\ w.at = "commit" /\ w.floor = old.floor /\ w.new = new /\ w.id = id
      /\ w.known = old.known /\ w.seen = old.seen
  BY DEF Written
<1>5. w \in Writing
  <2> HIDE DEF id
  <2> QED BY <1>2, <1>3 DEF Writing, Written
<1>6. WriterSound(w)
  <2>1. w.id = 0 => ~Undercuts(w.new, w.floor)
    BY <1>2, <1>4
  <2>2. w.known => w.floor \in w.seen
    BY <1>1, <1>2, <1>4 DEF WriterSound
  <2> HIDE DEF w, id
  <2> QED BY <1>4, <2>1, <2>2 DEF WriterSound
<1>7. \/ w.id = 0 /\ nextDrop' = nextDrop
      \/ w.id = nextDrop /\ nextDrop' = nextDrop + 1
  BY <1>1, <1>4
<1> HIDE DEF w, id
<1> QED BY <1>1, <1>5, <1>6, <1>7, OneWriter DEF WritePrice

\* It rolls back: its id is never used.
LEMMA WriteFailed ==
    ASSUME DropInv, NEW s \in Source, WriteFails(s)
    PROVE  DropInv'
BY NobodyWrites, OneWriter DEF WriteFails

\* A commit ends its transaction, and the others see its price.
LEMMA CommitSeen ==
    ASSUME DropInv, NEW s \in Source, CommitPrice(s)
    PROVE  /\ writer' \in [Source -> Writing] /\ writer'[s] = NoWriter
           /\ \A t \in Source : t # s =>
                  /\ writer'[t].at = writer[t].at /\ writer'[t].floor = writer[t].floor
                  /\ writer'[t].new = writer[t].new /\ writer'[t].id = writer[t].id
                  /\ writer'[t].known = writer[t].known
                  /\ writer[t].seen \subseteq writer'[t].seen
           /\ price' \in [Source -> Price \cup {NoPrice}]
<1>1. DropType
  BY DEF DropInv
<1>2. writer[s] \in Writing /\ writer[s].new \in Price \cup {NoPrice}
  BY <1>1 DEF DropType, Writing
<1>3. price' \in [Source -> Price \cup {NoPrice}]
  BY <1>1, <1>2 DEF CommitPrice, DropType
<1> DEFINE P == Priced(price')
<1>4. P \subseteq Price
  BY <1>3 DEF Priced
<1> HIDE DEF P
<1>5. writer' = [t \in Source |->
           IF t = s THEN NoWriter
           ELSE IF writer[t].at = "idle" THEN writer[t]
           ELSE [writer[t] EXCEPT !.seen = @ \cup P]]
  BY DEF CommitPrice, P
<1>6. ASSUME NEW t \in Source, t # s
      PROVE  /\ writer'[t] \in Writing
             /\ writer'[t].at = writer[t].at /\ writer'[t].floor = writer[t].floor
             /\ writer'[t].new = writer[t].new /\ writer'[t].id = writer[t].id
             /\ writer'[t].known = writer[t].known
             /\ writer[t].seen \subseteq writer'[t].seen
  <2>1. PICK w \in Writing : w = writer[t]
    BY <1>1 DEF DropType
  <2>2. PICK seen \in SUBSET Price : seen = w.seen \cup P
    BY <1>4 DEF Writing
  <2>3. /\ [w EXCEPT !.seen = seen] \in Writing
        /\ [w EXCEPT !.seen = seen].at = w.at /\ [w EXCEPT !.seen = seen].floor = w.floor
        /\ [w EXCEPT !.seen = seen].new = w.new /\ [w EXCEPT !.seen = seen].id = w.id
        /\ [w EXCEPT !.seen = seen].known = w.known /\ [w EXCEPT !.seen = seen].seen = seen
    BY DEF Writing
  <2>4. CASE writer[t].at = "idle"
    BY <1>5, <1>6, <2>1, <2>4
  <2>5. CASE writer[t].at # "idle"
    <3>1. writer'[t] = [w EXCEPT !.seen = seen]
      BY <1>5, <1>6, <2>1, <2>2, <2>5
    <3> QED BY <3>1, <2>1, <2>2, <2>3
  <2> QED BY <2>4, <2>5
<1>7. writer'[s] = NoWriter
  BY <1>5
<1>8. writer' \in [Source -> Writing]
  <2>1. \A t \in Source : writer'[t] \in Writing
    BY <1>6, <1>7, NobodyWrites
  <2>2. writer' = [t \in Source |-> writer'[t]]
    BY <1>5
  <2> QED BY <2>1, <2>2
<1> QED BY <1>3, <1>6, <1>7, <1>8

\* It commits: the price stands, and its drop may be read.
LEMMA PriceCommitted ==
    ASSUME DropInv, NEW s \in Source, CommitPrice(s)
    PROVE  DropInv'
<1> DEFINE w == writer[s]
<1>1. /\ w.at = "commit" /\ drops' = IF w.id # 0 THEN drops \cup {w.id} ELSE drops
      /\ undercut' = (undercut \/ (Cheapest(w) /\ w.id = 0))
      /\ UNCHANGED <<nextDrop, saved, before, watermark, tab, delivered, overtaken>>
  BY DEF CommitPrice
<1>2. DropType /\ w \in Writing /\ w.id \in Nat /\ WriterSound(w) /\ w.id < nextDrop
  BY DEF DropInv, DropType, Writing, IdsDrawn
<1> HIDE DEF w
<1>3. DropType'
  BY <1>1, <1>2, CommitSeen DEF DropType
<1>4. ASSUME NEW t \in Source PROVE WriterSound(writer'[t])
  <2>1. CASE t = s
    BY <2>1, CommitSeen, NobodyWrites
  <2>2. CASE t # s
    <3>1. WriterSound(writer[t])
      BY DEF DropInv
    <3>2. /\ writer'[t].at = writer[t].at /\ writer'[t].floor = writer[t].floor
          /\ writer'[t].new = writer[t].new /\ writer'[t].id = writer[t].id
          /\ writer'[t].known = writer[t].known
          /\ writer[t].seen \subseteq writer'[t].seen
      BY <2>2, CommitSeen
    <3>3. writer'[t].at # "idle" /\ writer'[t].known => writer'[t].floor \in writer'[t].seen
      BY <3>1, <3>2 DEF WriterSound
    <3> QED BY <3>1, <3>2, <3>3 DEF WriterSound
  <2> QED BY <2>1, <2>2
<1>5. \A t \in Source : t # s => writer'[t].id = writer[t].id
  BY CommitSeen
<1>6. writer'[s].id = 0
  BY CommitSeen, NobodyWrites
<1>7. IdsDrawn'
  <2>1. ASSUME NEW t \in Source PROVE writer'[t].id < nextDrop' /\ writer'[t].id \notin drops'
    <3>1. CASE t = s
      BY <3>1, <1>1, <1>2, <1>6 DEF DropType
    <3>2. CASE t # s
      <4>1. writer[t].id < nextDrop /\ writer[t].id \notin drops
        BY DEF DropInv, IdsDrawn
      <4>2. w.id # 0 => writer[t].id # w.id
        BY <3>2 DEF DropInv, IdsDrawn, w
      <4> QED BY <3>2, <4>1, <4>2, <1>1, <1>5
    <3> QED BY <3>1, <3>2
  <2>2. ASSUME NEW t \in Source, NEW u \in Source, t # u, writer'[t].id # 0
        PROVE  writer'[t].id # writer'[u].id
    <3>1. t # s
      BY <2>2, <1>6
    <3>2. CASE u = s
      BY <2>2, <3>2, <1>6
    <3>3. CASE u # s
      BY <2>2, <3>1, <3>3, <1>5 DEF DropInv, IdsDrawn
    <3> QED BY <3>2, <3>3
  <2>3. /\ \A i \in drops' : i < nextDrop'
        /\ watermark' < nextDrop' /\ \A t \in Tab : tab'[t] < nextDrop'
    BY <1>1, <1>2 DEF DropInv, IdsDrawn
  <2> QED BY <2>1, <2>2, <2>3 DEF IdsDrawn
<1>8. ReadInv'
  <2>1. \A i : UpTo(i)' <=> UpTo(i)
    BY <1>1 DEF UpTo
  <2>2. ASSUME NEW i \in Visible', UpTo(i) PROVE i \in delivered' \/ i \in overtaken'
    <3>1. CASE i \in Visible
      BY <3>1, <2>2, <1>1 DEF DropInv, ReadInv
    <3>2. CASE i \notin Visible
      <4>1. w.id # 0 /\ i = w.id
        BY <2>2, <3>2, <1>1 DEF Visible
      <4>2. w.id \in overtaken
        BY <2>2, <4>1 DEF DropInv, ReadInv, w
      <4> QED BY <4>1, <4>2, <1>1
    <3> QED BY <3>1, <3>2
  <2>3. ASSUME NEW t \in Source, writer'[t].id # 0, UpTo(writer'[t].id)
        PROVE  writer'[t].id \in overtaken'
    <3>1. t # s
      BY <2>3, <1>6
    <3> QED BY <2>3, <3>1, <1>1, <1>5 DEF DropInv, ReadInv
  <2> QED BY <2>1, <2>2, <2>3 DEF ReadInv, UpTo
<1>9. AllTimeLowIsReported'
  <2>1. ~(Cheapest(w) /\ w.id = 0)
    <3> SUFFICES ASSUME w.new # NoPrice, w.known, \A p \in w.seen : w.new < p, w.id = 0
                 PROVE  FALSE
      BY DEF Cheapest
    <3>1. w.floor \in w.seen /\ ~Undercuts(w.new, w.floor)
      BY <1>1, <1>2 DEF WriterSound
    <3>2. w.floor # NoPrice
      BY <1>2, <3>1, PriceDropsAssumption DEF Writing
    <3> QED BY <3>1, <3>2 DEF Undercuts
  <2> QED BY <1>1, <2>1 DEF DropInv, AllTimeLowIsReported
<1> QED BY <1>3, <1>4, <1>7, <1>8, <1>9 DEF DropInv

-----------------------------------------------------------------------------
(* The user. *)

\* A step of the user's or of the sweep's leaves the writers alone.
LEMMA UserStep ==
    ASSUME DropInv, UNCHANGED <<price, writer, nextDrop, undercut>>, DropType', IdsDrawn',
       ReadInv'
    PROVE  DropInv'
BY DEF DropInv, AllTimeLowIsReported

\* A feed of something visible holds the unread, and has a newest.
LEMMA FeedFacts ==
    ASSUME DropInv, Visible # {}
    PROVE  /\ Feed(Visible) \subseteq Visible
           /\ \A i \in Visible : i > watermark => i \in Feed(Visible)
           /\ Max(Feed(Visible)) \in Visible
<1>1. Visible \subseteq drops /\ drops \subseteq Nat /\ nextDrop \in Nat /\ watermark \in Nat
      /\ \A i \in drops : i < nextDrop
  BY DEF Visible, DropInv, DropType, IdsDrawn
<1>2. Visible \in SUBSET Nat /\ \A i \in Visible : i <= nextDrop
  BY <1>1
<1>3. PICK top \in Visible : \A i \in Visible : i <= top
  BY <1>1, <1>2, MaxOfNats
<1>4. top \in Feed(Visible)
  <2>1. CASE top > watermark
    BY <2>1, <1>3 DEF Feed
  <2>2. CASE ~(top > watermark)
    <3> DEFINE unread == {i \in Visible : i > watermark}
    <3>1. unread = {}
      <4>1. ASSUME NEW i \in Visible PROVE ~(i > watermark)
        BY <2>2, <1>1, <1>2, <1>3
      <4> QED BY <4>1
    <3>2. {j \in Visible : j > top} = {}
      <4>1. ASSUME NEW i \in Visible PROVE ~(i > top)
        BY <1>2, <1>3
      <4> QED BY <4>1
    <3>3. Cardinality({j \in Visible : j > top}) < FeedLimit
      BY <3>2, FS_EmptySet, PriceDropsAssumption
    <3>4. Visible \ unread = Visible
      BY <3>1
    <3>5. top \in Newest(Visible, FeedLimit)
      BY <1>3, <3>3 DEF Newest
    <3> QED BY <3>4, <3>5 DEF Feed
  <2> QED BY <2>1, <2>2
<1>5. Feed(Visible) \subseteq Visible
  BY DEF Feed, Newest
<1>6. Max(Feed(Visible)) \in Feed(Visible)
  BY <1>1, <1>2, <1>4, <1>5, MaxOfNats
<1>7. \A i \in Visible : i > watermark => i \in Feed(Visible)
  BY DEF Feed
<1> QED BY <1>5, <1>6, <1>7

\* A tab is handed a feed: what it will mark read is in it, or came too late for it.
LEMMA FeedRead ==
    ASSUME DropInv, NEW t \in Tab, ReadFeed(t)
    PROVE  DropInv'
<1> DEFINE newest == Max(Feed(Visible))
<1>1. /\ Visible # {} /\ tab' = [tab EXCEPT ![t] = newest]
      /\ delivered' = delivered \cup Feed(Visible)
      /\ overtaken' = overtaken \cup {i \in Uncommitted : i < newest}
      /\ UNCHANGED <<price, writer, nextDrop, drops, saved, before, watermark, undercut>>
  BY DEF ReadFeed
<1>2. /\ newest \in Visible /\ \A i \in Visible : i > watermark => i \in Feed(Visible)
  BY <1>1, FeedFacts
<1>3. /\ DropType /\ newest \in drops /\ newest \in Nat /\ newest < nextDrop
      /\ Visible \subseteq drops
  BY <1>2 DEF Visible, DropInv, DropType, IdsDrawn
<1> HIDE DEF newest
<1>4. DropType'
  BY <1>1, <1>3 DEF DropType
<1>5. \A u \in Tab : tab'[u] = IF u = t THEN newest ELSE tab[u]
  BY <1>1, <1>3 DEF DropType
<1>6. IdsDrawn'
  BY <1>1, <1>3, <1>5 DEF DropInv, IdsDrawn
<1>7. \A i : UpTo(i)' => UpTo(i) \/ i <= newest
  BY <1>1, <1>5 DEF UpTo
<1>8. ASSUME NEW i \in Visible', UpTo(i)' PROVE i \in delivered' \/ i \in overtaken'
  <2>1. i \in Visible /\ i \in Nat /\ watermark \in Nat
    BY <1>1, <1>3, <1>8 DEF Visible, DropType
  <2>2. CASE i > watermark
    BY <2>1, <2>2, <1>1, <1>2
  <2>3. CASE ~(i > watermark)
    <3>1. UpTo(i)
      BY <2>1, <2>3 DEF UpTo
    <3> QED BY <2>1, <3>1, <1>1 DEF DropInv, ReadInv
  <2> QED BY <2>2, <2>3
<1>9. ASSUME NEW s \in Source, writer'[s].id # 0, UpTo(writer[s].id)'
      PROVE  writer'[s].id \in overtaken'
  <2> DEFINE id == writer[s].id
  <2>1. /\ id # 0 /\ id \in Uncommitted /\ id \in Nat /\ id \notin drops /\ writer' = writer
    BY <1>1, <1>3, <1>9 DEF Uncommitted, DropType, Writing, DropInv, IdsDrawn
  <2>2. CASE UpTo(id)
    BY <2>1, <2>2, <1>1 DEF DropInv, ReadInv
  <2>3. CASE ~UpTo(id)
    <3>1. id <= newest
      BY <1>7, <1>9, <2>1, <2>3
    <3>2. id < newest
      BY <3>1, <2>1, <1>3
    <3> QED BY <3>2, <2>1, <1>1
  <2> QED BY <2>2, <2>3
<1> QED BY <1>1, <1>4, <1>6, <1>8, <1>9, UserStep DEF ReadInv

\* A tab marks its feed read, up to the clamp.
LEMMA MarkedRead ==
    ASSUME DropInv, NEW t \in Tab, MarkRead(t)
    PROVE  DropInv'
<1>1. /\ tab' = [tab EXCEPT ![t] = 0]
      /\ watermark' = IF Visible = {} THEN watermark
                      ELSE Max({watermark, Min({tab[t], Max(Visible)})})
      /\ UNCHANGED <<price, writer, nextDrop, drops, saved, before, delivered, overtaken,
                     undercut>>
  BY DEF MarkRead
<1>2. DropType /\ tab[t] \in Nat /\ watermark \in Nat
  BY DEF DropInv, DropType
<1>3. \/ watermark' = watermark
      \/ watermark' \in Nat /\ watermark' <= tab[t]
  <2>1. CASE Visible = {}
    BY <1>1, <2>1
  <2>2. CASE Visible # {}
    <3>1. Max(Visible) \in Nat
      <4>1. Visible \in SUBSET Nat /\ nextDrop \in Nat /\ \A i \in Visible : i <= nextDrop
        <5>1. Visible \subseteq drops /\ nextDrop \in Nat /\ drops \subseteq Nat
          BY <1>2 DEF Visible, DropType
        <5>2. \A i \in drops : i < nextDrop
          BY DEF DropInv, IdsDrawn
        <5> QED BY <5>1, <5>2
      <4> QED BY <2>2, <4>1, MaxOfNats
    <3> DEFINE low == Min({tab[t], Max(Visible)})
    <3>2. low \in Nat /\ low <= tab[t]
      <4>1. {tab[t], Max(Visible)} \in SUBSET Nat
        BY <3>1, <1>2
      <4>2. low \in {tab[t], Max(Visible)} /\ \A y \in {tab[t], Max(Visible)} : low <= y
        BY <4>1, MinOfNats
      <4> QED BY <4>1, <4>2
    <3> HIDE DEF low
    <3>3. Max({watermark, low}) \in {watermark, low}
      <4>1. {watermark, low} \in SUBSET Nat /\ watermark + low \in Nat
            /\ \A y \in {watermark, low} : y <= watermark + low
        BY <3>2, <1>2
      <4> QED BY <4>1, MaxOfNats
    <3>4. watermark' = Max({watermark, low})
      BY <1>1, <2>2 DEF low
    <3> QED BY <3>2, <3>3, <3>4
  <2> QED BY <2>1, <2>2
<1>4. DropType'
  BY <1>1, <1>2, <1>3 DEF DropType
<1>5. \A u \in Tab : tab'[u] = IF u = t THEN 0 ELSE tab[u]
  BY <1>1, <1>2 DEF DropType
<1>6. IdsDrawn'
  <2>1. tab[t] < nextDrop /\ watermark < nextDrop /\ nextDrop \in Nat \ {0}
    BY DEF DropInv, DropType, IdsDrawn
  <2>2. watermark' < nextDrop'
    BY <1>1, <1>2, <1>3, <2>1
  <2>3. \A u \in Tab : tab'[u] < nextDrop'
    BY <1>1, <1>5, <2>1 DEF DropInv, IdsDrawn
  <2> QED BY <1>1, <2>2, <2>3 DEF DropInv, IdsDrawn
<1>7. ASSUME NEW i \in Nat \ {0}, UpTo(i)' PROVE UpTo(i)
  <2>1. CASE i <= watermark'
    BY <1>2, <1>3, <2>1 DEF UpTo
  <2>2. ASSUME NEW u \in Tab, i <= tab'[u] PROVE UpTo(i)
    BY <1>5, <2>2 DEF UpTo
  <2> QED BY <1>7, <2>1, <2>2 DEF UpTo
<1>8. ASSUME NEW i \in Visible', UpTo(i)' PROVE i \in delivered' \/ i \in overtaken'
  <2>1. i \in Visible /\ i \in Nat \ {0}
    BY <1>1, <1>2, <1>8 DEF Visible, DropType
  <2> QED BY <2>1, <1>1, <1>7, <1>8 DEF DropInv, ReadInv
<1>9. ASSUME NEW s \in Source, writer'[s].id # 0, UpTo(writer[s].id)'
      PROVE  writer'[s].id \in overtaken'
  <2>1. writer[s].id \in Nat \ {0} /\ writer' = writer
    BY <1>1, <1>2, <1>9 DEF DropType, Writing
  <2> QED BY <2>1, <1>1, <1>7, <1>9 DEF DropInv, ReadInv
<1> QED BY <1>1, <1>4, <1>6, <1>8, <1>9, UserStep DEF ReadInv

\* A record is saved or unsaved.
LEMMA SaveToggled ==
    ASSUME DropInv, SaveRecord
    PROVE  DropInv'
<1>1. /\ saved' = ~saved /\ before' = IF saved THEN before ELSE 1 .. nextDrop - 1
      /\ UNCHANGED <<price, writer, nextDrop, drops, watermark, tab, delivered, overtaken,
                     undercut>>
  BY DEF SaveRecord
<1>2. DropType /\ IdsDrawn /\ ReadInv
  BY DEF DropInv
<1>3. Visible' = {}
  <2>1. drops \subseteq 1 .. nextDrop - 1
    BY <1>2 DEF DropType, IdsDrawn
  <2> QED BY <1>1, <2>1 DEF Visible
<1>4. DropType' /\ IdsDrawn'
  BY <1>1, <1>2 DEF DropType, IdsDrawn
<1>5. ReadInv'
  BY <1>1, <1>2, <1>3 DEF ReadInv, UpTo
<1> QED BY <1>1, <1>4, <1>5, UserStep

\* The sweep deletes a drop.
LEMMA Expired ==
    ASSUME DropInv, ExpireDrop
    PROVE  DropInv'
<1>1. /\ drops' \subseteq drops
      /\ UNCHANGED <<price, writer, nextDrop, saved, before, watermark, tab, delivered,
                     overtaken, undercut>>
  BY DEF ExpireDrop
<1>2. DropType /\ IdsDrawn /\ ReadInv
  BY DEF DropInv
<1>3. Visible' \subseteq Visible
  BY <1>1 DEF Visible
<1>4. DropType' /\ IdsDrawn'
  BY <1>1, <1>2 DEF DropType, IdsDrawn
<1>5. ReadInv'
  BY <1>1, <1>2, <1>3 DEF ReadInv, UpTo
<1> QED BY <1>1, <1>4, <1>5, UserStep

-----------------------------------------------------------------------------

\* DropInv is inductive.
LEMMA DropInvHolds == DropSpec => []DropInv
<1>1. DropInit => DropInv
  <2> SUFFICES ASSUME DropInit PROVE DropInv
    OBVIOUS
  <2>1. DropType
    BY NobodyWrites DEF DropInit, DropType
  <2>2. \A s \in Source : WriterSound(writer[s]) /\ writer[s].id = 0
    BY NobodyWrites DEF DropInit
  <2>3. IdsDrawn
    BY <2>2 DEF DropInit, IdsDrawn
  <2>4. ReadInv
    BY <2>2 DEF DropInit, ReadInv, Visible
  <2> QED BY <2>1, <2>2, <2>3, <2>4 DEF DropInv, DropInit, AllTimeLowIsReported
<1>2. DropInv /\ [DropNext]_dropVars => DropInv'
  <2> SUFFICES ASSUME DropInv, [DropNext]_dropVars PROVE DropInv'
    OBVIOUS
  <2>1. ASSUME NEW s \in Source, NEW new \in Price \cup {NoPrice}, WritePrice(s, new)
        PROVE  DropInv'
    BY <2>1, PriceWritten
  <2>2. ASSUME NEW s \in Source, ReadFloor(s) \/ CommitPrice(s) \/ WriteFails(s) PROVE DropInv'
    BY <2>2, FloorRead, PriceCommitted, WriteFailed
  <2>3. ASSUME NEW t \in Tab, ReadFeed(t) \/ MarkRead(t) PROVE DropInv'
    BY <2>3, FeedRead, MarkedRead
  <2>4. CASE UNCHANGED dropVars
    BY <2>4 DEF dropVars, DropInv, DropType, WriterSound, IdsDrawn, ReadInv, UpTo, Visible,
       AllTimeLowIsReported
  <2> QED BY <2>1, <2>2, <2>3, <2>4, SaveToggled, Expired DEF DropNext
<1> QED BY <1>1, <1>2, PTL DEF DropSpec

\* For every set of sources and prices: a price that undercuts every price of its record that
\* stood while it was written leaves a drop, whatever transactions overlap it.
THEOREM NoAllTimeLowIsMissed == DropSpec => []AllTimeLowIsReported
<1>1. DropInv => AllTimeLowIsReported
  BY DEF DropInv
<1> QED BY <1>1, DropInvHolds, PTL

\* A drop that counts as read was in a feed, or was uncommitted when a later id was: the
\* feed's limit, other tabs, the clamp of mark_price_drops_read, unsaves and the sweep lose
\* none.
THEOREM DropsAreReadOrOvertaken == DropSpec => []LostOnlyToOvertaking
<1>1. DropInv => LostOnlyToOvertaking
  BY DEF DropInv, ReadInv, UpTo, LostOnlyToOvertaking
<1> QED BY <1>1, DropInvHolds, PTL

-----------------------------------------------------------------------------
(* The configuration cache. *)

Version == Nat \cup {Empty}
CallState == [at : {"idle", "select", "publish", "returned", "invalidate"},
              captured : Nat, got : Version, due : Nat]

ConfigType ==
    /\ row \in Nat
    /\ configCache \in [ConfigMachine -> Version]
    /\ generation \in [ConfigMachine -> Nat]
    /\ call \in [ConfigMachine -> [ConfigCall -> CallState]]
    /\ legacy \in [ConfigMachine -> {"none", "file", "waiting", "locked", "writing", "done"}]
    /\ ownWrites \in [ConfigMachine -> Nat]
    /\ migrations \in Nat

\* A cached version is no older than what its process has written, and a process has
\* written nothing the row does not hold.
CacheIsCurrent ==
    \A m \in ConfigMachine :
        /\ ownWrites[m] <= row
        /\ configCache[m] # Empty => configCache[m] >= ownWrites[m]

\* A call under way began when its process had written no more than now.  What it selected is
\* what it owes, and what the process has written by now if no invalidation came between.
CallsAreCurrent ==
    \A m \in ConfigMachine, c \in ConfigCall :
        LET k == call[m][c] IN
        /\ k.at \in {"select", "publish", "returned"} =>
               k.due <= ownWrites[m] /\ k.captured <= generation[m]
        /\ k.at \in {"publish", "returned", "invalidate"} => k.got \in Nat
        /\ k.at \in {"publish", "returned"} => k.got >= k.due
        /\ k.at = "publish" /\ k.captured = generation[m] => k.got >= ownWrites[m]
        /\ k.at = "invalidate" => k.got <= row

\* The lock has one holder, which found no migration before it; a migration leaves a row.
MigrationShape ==
    /\ \A m \in ConfigMachine : legacy[m] \in {"locked", "writing"} => legacyLock = m
    /\ \A m \in ConfigMachine : legacy[m] = "writing" => migrations = 0
    /\ migrations > 0 => row > 0

ConfigInv ==
    ConfigType /\ CacheIsCurrent /\ CallsAreCurrent /\ MigrationShape /\ MigratedOnce

CallStep(m, c) ==
    \/ \E fresh \in BOOLEAN : BeginLoad(m, c, fresh)
    \/ SelectRow(m, c) \/ Publish(m, c) \/ EndLoad(m, c)
    \/ CommitConfig(m, c) \/ Invalidate(m, c)

\* The steps of one call.
LEMMA ConfigCallSteps ==
    ASSUME ConfigInv, NEW m \in ConfigMachine, NEW c \in ConfigCall, CallStep(m, c)
    PROVE  ConfigInv'
<1>0. call[m][c] \in CallState /\ row \in Nat /\ Empty \in Version /\ Nat \subseteq Version
  BY DEF ConfigInv, ConfigType, Version
<1>1. ASSUME NEW fresh \in BOOLEAN, BeginLoad(m, c, fresh) PROVE ConfigInv'
  <2>1. Began(m, "returned", configCache[m]) \in CallState /\ Began(m, "select",
     Empty) \in CallState
    BY <1>0 DEF Began, CallState, Version, ConfigInv, ConfigType
  <2>2. ConfigType'
    BY <1>1, <2>1 DEF BeginLoad, SetCall, ConfigInv, ConfigType
  <2>3. CacheIsCurrent' /\ MigrationShape' /\ MigratedOnce'
    BY <1>1 DEF BeginLoad, ConfigInv, CacheIsCurrent, MigrationShape, MigratedOnce
  <2>4. CallsAreCurrent'
    BY <1>1, ConfigCacheAssumption DEF BeginLoad, SetCall, Began, ConfigInv, ConfigType,
       CacheIsCurrent,
        CallsAreCurrent, Version, CallState
  <2> QED BY <2>2, <2>3, <2>4 DEF ConfigInv
<1>2. CASE SelectRow(m, c)
  <2>1. [call[m][c] EXCEPT !.at = "publish", !.got = row] \in CallState
    BY <1>0 DEF CallState, Version
  <2>2. ConfigType'
    BY <1>2, <1>0, <2>1 DEF SelectRow, SetCall, ConfigInv, ConfigType
  <2>3. CacheIsCurrent' /\ MigrationShape' /\ MigratedOnce'
    BY <1>2, ConfigCacheAssumption DEF SelectRow, ConfigInv, ConfigType, Version, CacheIsCurrent,
        CallsAreCurrent, MigrationShape, MigratedOnce
  <2>4. CallsAreCurrent'
    BY <1>2, ConfigCacheAssumption DEF SelectRow, SetCall, ConfigInv, ConfigType, CacheIsCurrent,
        CallsAreCurrent, Version, CallState
  <2> QED BY <2>2, <2>3, <2>4 DEF ConfigInv
<1>3. CASE Publish(m, c)
  <2>1. [call[m][c] EXCEPT !.at = "returned"] \in CallState
    BY <1>0 DEF CallState, Version
  <2>2. ConfigType'
    <3>1. call[m][c].got \in Version
      BY <1>0 DEF CallState
    <3> QED BY <1>3, <2>1, <3>1 DEF Publish, SetCall, ConfigInv, ConfigType
  <2>3. CacheIsCurrent' /\ MigrationShape' /\ MigratedOnce'
    BY <1>3, ConfigCacheAssumption DEF Publish, MayPublish, ConfigInv, ConfigType, Version,
       CacheIsCurrent,
        CallsAreCurrent, MigrationShape, MigratedOnce
  <2>4. CallsAreCurrent'
    BY <1>3, ConfigCacheAssumption DEF Publish, MayPublish, SetCall, ConfigInv, ConfigType,
       CacheIsCurrent,
        CallsAreCurrent, Version, CallState
  <2> QED BY <2>2, <2>3, <2>4 DEF ConfigInv
<1>4. CASE EndLoad(m, c)
  <2>1. IdleCall \in CallState
    BY <1>0 DEF CallState, Version, IdleCall
  <2>2. ConfigType'
    BY <1>4, <1>0, <2>1 DEF EndLoad, SetCall, ConfigInv, ConfigType
  <2>3. CacheIsCurrent' /\ MigrationShape' /\ MigratedOnce'
    BY <1>4, ConfigCacheAssumption DEF EndLoad, ConfigInv, ConfigType, Version, CacheIsCurrent,
        CallsAreCurrent, MigrationShape, MigratedOnce
  <2>4. CallsAreCurrent'
    BY <1>4, ConfigCacheAssumption DEF EndLoad, SetCall, ConfigInv, ConfigType, CacheIsCurrent,
        CallsAreCurrent, Version, CallState, IdleCall
  <2> QED BY <2>2, <2>3, <2>4 DEF ConfigInv
<1>5. CASE CommitConfig(m, c)
  <2>1. [IdleCall EXCEPT !.at = "invalidate", !.got = row + 1] \in CallState
    <3>1. row + 1 \in Version
      BY <1>0
    <3> QED BY <3>1 DEF CallState, IdleCall
  <2>2. ConfigType'
    BY <1>5, <1>0, <2>1 DEF CommitConfig, SetCall, ConfigInv, ConfigType
  <2>3. CacheIsCurrent' /\ MigrationShape' /\ MigratedOnce'
    BY <1>5, ConfigCacheAssumption DEF CommitConfig, ConfigInv, ConfigType, Version,
       CacheIsCurrent,
        CallsAreCurrent, MigrationShape, MigratedOnce
  <2>4. CallsAreCurrent'
    BY <1>5, ConfigCacheAssumption DEF CommitConfig, SetCall, ConfigInv, ConfigType,
       CacheIsCurrent,
        CallsAreCurrent, Version, CallState, IdleCall
  <2> QED BY <2>2, <2>3, <2>4 DEF ConfigInv
<1>6. CASE Invalidate(m, c)
  <2>1. IdleCall \in CallState
    BY <1>0 DEF CallState, Version, IdleCall
  <2>2. ConfigType'
    <3>1. Newer(ownWrites[m], call[m][c].got) \in Nat
      BY <1>6 DEF Invalidate, Newer, ConfigInv, ConfigType, CallsAreCurrent
    <3> QED BY <1>6, <1>0, <2>1, <3>1 DEF Invalidate, SetCall, ConfigInv, ConfigType
  <2>3. CacheIsCurrent' /\ MigrationShape' /\ MigratedOnce'
    BY <1>6, ConfigCacheAssumption DEF Invalidate, Newer, ConfigInv, ConfigType, Version,
       CacheIsCurrent,
        CallsAreCurrent, MigrationShape, MigratedOnce
  <2>4. CallsAreCurrent'
    BY <1>6, ConfigCacheAssumption DEF Invalidate, Newer, SetCall, ConfigInv, ConfigType,
       CacheIsCurrent,
        CallsAreCurrent, Version, CallState, IdleCall
  <2> QED BY <2>2, <2>3, <2>4 DEF ConfigInv
<1> QED BY <1>1, <1>2, <1>3, <1>4, <1>5, <1>6 DEF CallStep

\* Every step keeps ConfigInv.
LEMMA ConfigStep == ConfigInv /\ [ConfigNext]_configVars => ConfigInv'
<1> SUFFICES ASSUME ConfigInv, [ConfigNext]_configVars PROVE ConfigInv'
  OBVIOUS
<1>1. ASSUME NEW m \in ConfigMachine, ConfigExpires(m) PROVE ConfigInv'
  <2>1. ConfigType'
    BY <1>1, ConfigCacheAssumption DEF ConfigExpires, ConfigInv, ConfigType, Version, CallState
  <2>2. CacheIsCurrent'
    BY <1>1, ConfigCacheAssumption DEF ConfigExpires, ConfigInv, ConfigType, Version, CallState,
       CacheIsCurrent, CallsAreCurrent
  <2>3. CallsAreCurrent'
    BY <1>1, ConfigCacheAssumption DEF ConfigExpires, ConfigInv, ConfigType, Version, CallState,
       CacheIsCurrent, CallsAreCurrent
  <2>4. MigrationShape' /\ MigratedOnce'
    BY <1>1, ConfigCacheAssumption DEF ConfigExpires, ConfigInv, ConfigType, Version, CallState,
       MigrationShape, MigratedOnce
  <2> QED BY <2>1, <2>2, <2>3, <2>4 DEF ConfigInv
<1>2. ASSUME NEW m \in ConfigMachine, CheckUnlocked(m) \/ LockMigration(m) \/ CheckLocked(m)
      PROVE  ConfigInv'
  <2>1. ConfigType'
    BY <1>2, ConfigCacheAssumption DEF CheckUnlocked, LockMigration, CheckLocked, SetLegacy,
       FoundEmpty, ConfigInv, ConfigType, Version, CallState
  <2>2. CacheIsCurrent'
    BY <1>2, ConfigCacheAssumption DEF CheckUnlocked, LockMigration, CheckLocked, SetLegacy,
       FoundEmpty, ConfigInv, ConfigType, Version, CallState, CacheIsCurrent, CallsAreCurrent
  <2>3. CallsAreCurrent'
    BY <1>2, ConfigCacheAssumption DEF CheckUnlocked, LockMigration, CheckLocked, SetLegacy,
       FoundEmpty, ConfigInv, ConfigType, Version, CallState, CacheIsCurrent, CallsAreCurrent
  <2>4. MigrationShape' /\ MigratedOnce'
    BY <1>2, ConfigCacheAssumption DEF CheckUnlocked, LockMigration, CheckLocked, SetLegacy,
       FoundEmpty, ConfigInv, ConfigType, Version, CallState, MigrationShape, MigratedOnce
  <2> QED BY <2>1, <2>2, <2>3, <2>4 DEF ConfigInv
<1>3. ASSUME NEW m \in ConfigMachine, Migrate(m) PROVE ConfigInv'
  <2>1. ConfigType'
    BY <1>3, ConfigCacheAssumption DEF Migrate, SetLegacy, ConfigInv, ConfigType, Version,
       CallState
  <2>2. CacheIsCurrent'
    BY <1>3, ConfigCacheAssumption DEF Migrate, SetLegacy, ConfigInv, ConfigType, Version,
       CallState, CacheIsCurrent, CallsAreCurrent
  <2>3. CallsAreCurrent'
    BY <1>3, ConfigCacheAssumption DEF Migrate, SetLegacy, ConfigInv, ConfigType, Version,
       CallState, CacheIsCurrent, CallsAreCurrent
  <2>4. MigrationShape' /\ MigratedOnce'
    BY <1>3, ConfigCacheAssumption DEF Migrate, SetLegacy, ConfigInv, ConfigType, Version,
       CallState, MigrationShape, MigratedOnce
  <2> QED BY <2>1, <2>2, <2>3, <2>4 DEF ConfigInv
<1>4. ASSUME NEW m \in ConfigMachine, Reboot(m) PROVE ConfigInv'
  <2>1. ConfigType'
    BY <1>4, ConfigCacheAssumption DEF Reboot, SetLegacy, IdleCall, SetCall, ConfigInv,
       ConfigType, Version, CallState
  <2>2. CacheIsCurrent'
    BY <1>4, ConfigCacheAssumption DEF Reboot, SetLegacy, IdleCall, SetCall, ConfigInv,
       ConfigType, Version, CallState, CacheIsCurrent, CallsAreCurrent
  <2>3. CallsAreCurrent'
    BY <1>4, ConfigCacheAssumption DEF Reboot, SetLegacy, IdleCall, SetCall, ConfigInv,
       ConfigType, Version, CallState, CacheIsCurrent, CallsAreCurrent
  <2>4. MigrationShape' /\ MigratedOnce'
    BY <1>4, ConfigCacheAssumption DEF Reboot, SetLegacy, IdleCall, SetCall, ConfigInv,
       ConfigType, Version, CallState, MigrationShape, MigratedOnce
  <2> QED BY <2>1, <2>2, <2>3, <2>4 DEF ConfigInv
<1>5. CASE UNCHANGED configVars
  <2>1. ConfigType'
    BY <1>5 DEF configVars, ConfigInv, ConfigType, Version, CallState
  <2>2. CacheIsCurrent'
    BY <1>5 DEF configVars, ConfigInv, ConfigType, Version, CallState, CacheIsCurrent,
       CallsAreCurrent
  <2>3. CallsAreCurrent'
    BY <1>5 DEF configVars, ConfigInv, ConfigType, Version, CallState, CacheIsCurrent,
       CallsAreCurrent
  <2>4. MigrationShape' /\ MigratedOnce'
    BY <1>5 DEF configVars, ConfigInv, ConfigType, Version, CallState, MigrationShape,
       MigratedOnce
  <2> QED BY <2>1, <2>2, <2>3, <2>4 DEF ConfigInv
<1> QED BY <1>1, <1>2, <1>3, <1>4, <1>5, ConfigCallSteps DEF ConfigNext, CallStep

\* ConfigInv is inductive.
LEMMA ConfigAlways == ConfigSpec => []ConfigInv
<1>1. ConfigInit => ConfigType
  <2>1. IdleCall \in CallState /\ Empty \in Version
    BY DEF IdleCall, CallState, Version
  <2> QED BY <2>1 DEF ConfigInit, ConfigType
<1>2. ConfigInit => CacheIsCurrent /\ CallsAreCurrent /\ MigrationShape /\ MigratedOnce
  BY ConfigCacheAssumption DEF ConfigInit, CacheIsCurrent, CallsAreCurrent, MigrationShape,
      MigratedOnce, IdleCall
<1> QED BY <1>1, <1>2, ConfigStep, PTL DEF ConfigSpec, ConfigInv

\* load_config never answers from before a save that had returned on its process: what a read
\* selected is published only if no invalidation came in between.
THEOREM OwnWritesAreRead == ConfigSpec => []ReadsItsWrites
<1>1. ConfigInv => ReadsItsWrites
  BY DEF ConfigInv, CallsAreCurrent, ReadsItsWrites
<1> QED BY <1>1, ConfigAlways, PTL

\* migrate_legacy_config_file folds the file in once, for any number of processes and
\* reboots: the check is repeated under the lock.
THEOREM OneMigration == ConfigSpec => []MigratedOnce
<1>1. ConfigInv => MigratedOnce
  BY DEF ConfigInv
<1> QED BY <1>1, ConfigAlways, PTL

-----------------------------------------------------------------------------
(* The event stream. *)

Event == [id : Nat, owner : User \cup {Everyone}]

Ascending(events) ==
    \A i, j \in 1..Len(events) : i < j => events[i].id < events[j].id

-----------------------------------------------------------------------------
(* Sequences of events. *)

\* What VisibleIn computes, step by step.
LEMMA VisibleSteps ==
    ASSUME NEW events \in Seq(Event), NEW c
    PROVE  \E upTo :
             /\ upTo = [n \in 0..Len(events) |->
                          IF n = 0 THEN <<>>
                          ELSE IF VisibleTo(events[n], c) THEN Append(upTo[n - 1], events[n])
                          ELSE upTo[n - 1]]
             /\ VisibleIn(events, c) = upTo[Len(events)]
<1> DEFINE Steps(f, k) ==
             f = [n \in 0..k |->
                    IF n = 0 THEN <<>>
                    ELSE IF VisibleTo(events[n], c) THEN Append(f[n - 1], events[n])
                    ELSE f[n - 1]]
           S == {k \in Nat : \E f : Steps(f, k)}
<1>1. 0 \in S
  <2> DEFINE f == [n \in 0..0 |-> <<>>]
  <2>1. Steps(f, 0)
    OBVIOUS
  <2> QED BY <2>1
<1>2. ASSUME NEW k \in Nat, k \in S PROVE k + 1 \in S
  <2>1. PICK f : Steps(f, k)
    BY <1>2
  <2> DEFINE last == IF VisibleTo(events[k + 1], c) THEN Append(f[k], events[k + 1]) ELSE f[k]
             g == [n \in 0..(k + 1) |-> IF n <= k THEN f[n] ELSE last]
             body == [n \in 0..(k + 1) |->
                        IF n = 0 THEN <<>>
                        ELSE IF VisibleTo(events[n], c) THEN Append(g[n - 1], events[n])
                        ELSE g[n - 1]]
  <2>2. ASSUME NEW n \in 0..(k + 1) PROVE g[n] = body[n]
    <3>1. CASE n = 0
      <4>1. f[0] = <<>>
        BY <2>1
      <4> QED BY <3>1, <4>1
    <3>2. CASE n \in 1..k
      <4>1. n - 1 \in 0..(k + 1) /\ n - 1 <= k /\ n <= k /\ n # 0 /\ n \in 0..k
        BY <3>2
      <4>2. f[n] = IF VisibleTo(events[n], c) THEN Append(f[n - 1], events[n]) ELSE f[n - 1]
        BY <2>1, <4>1
      <4>3. g[n] = f[n] /\ g[n - 1] = f[n - 1]
        BY <4>1
      <4> HIDE DEF g
      <4> QED BY <4>1, <4>2, <4>3
    <3>3. CASE n = k + 1
      <4>1. n - 1 = k /\ ~(n <= k) /\ k <= k /\ n # 0 /\ k \in 0..(k + 1)
        BY <3>3
      <4>2. g[n] = last /\ g[n - 1] = f[k]
        BY <4>1
      <4>3. body[n] = IF VisibleTo(events[n], c) THEN Append(g[n - 1], events[n]) ELSE g[n - 1]
        BY <4>1
      <4> HIDE DEF g, body
      <4> QED BY <3>3, <4>2, <4>3
    <3> QED BY <3>1, <3>2, <3>3
  <2>3. g = body
    <3>1. g = [n \in 0..(k + 1) |-> g[n]] /\ body = [n \in 0..(k + 1) |-> body[n]]
      OBVIOUS
    <3> HIDE DEF g, body
    <3> QED BY <2>2, <3>1
  <2>4. Steps(g, k + 1)
    BY <2>3
  <2>5. \E h : Steps(h, k + 1)
    <3> HIDE DEF g, Steps
    <3> QED BY <2>4
  <2> QED BY <2>5
<1>3. Nat \subseteq S
  <2> HIDE DEF S
  <2> QED BY <1>1, <1>2, NatInduct
<1>4. \E f : Steps(f, Len(events))
  <2>1. Len(events) \in Nat
    OBVIOUS
  <2>2. Len(events) \in S
    <3> HIDE DEF S
    <3> QED BY <1>3, <2>1
  <2> HIDE DEF Steps
  <2> QED BY <2>2
<1> QED BY <1>4 DEF VisibleIn

\* Nothing is out of order.
LEMMA AscendingEmpty == Ascending(<<>>)
BY DEF Ascending

\* A younger event goes last.
LEMMA AscendingAppend ==
    ASSUME NEW s \in Seq(Event), Ascending(s), NEW e \in Event, \A x \in ToSet(s) : x.id < e.id
    PROVE  Append(s, e) \in Seq(Event) /\ Ascending(Append(s, e))
<1>1. /\ Append(s, e) \in Seq(Event) /\ Len(Append(s, e)) = Len(s) + 1 /\ Len(s) \in Nat
      /\ \A i \in 1..Len(s) : Append(s, e)[i] = s[i]
      /\ Append(s, e)[Len(s) + 1] = e
  OBVIOUS
<1>2. \A i \in 1..Len(s) : s[i].id < e.id
  BY DEF ToSet
<1>3. ASSUME NEW i \in 1..(Len(s) + 1), NEW j \in 1..(Len(s) + 1), i < j
      PROVE  Append(s, e)[i].id < Append(s, e)[j].id
  <2>1. i \in 1..Len(s)
    BY <1>1, <1>3
  <2>2. CASE j = Len(s) + 1
    BY <1>1, <1>2, <2>1, <2>2
  <2>3. CASE j \in 1..Len(s)
    <3>1. s[i].id < s[j].id
      BY <1>3, <2>1, <2>3 DEF Ascending
    <3> QED BY <1>1, <2>1, <2>3, <3>1
  <2> QED BY <1>1, <2>2, <2>3
<1> QED BY <1>1, <1>3 DEF Ascending

\* What follows the head is younger.
LEMMA AscendingTail ==
    ASSUME NEW s \in Seq(Event), Ascending(s), s # <<>>
    PROVE  /\ Tail(s) \in Seq(Event) /\ Ascending(Tail(s))
           /\ \A x \in ToSet(Tail(s)) : Head(s).id < x.id
<1>1. /\ Tail(s) \in Seq(Event) /\ Head(s) = s[1]
      /\ Len(Tail(s)) = Len(s) - 1 /\ Len(s) \in Nat \ {0}
      /\ \A i \in 1..(Len(s) - 1) : Tail(s)[i] = s[i + 1]
      /\ DOMAIN Tail(s) = 1..(Len(s) - 1)
  OBVIOUS
<1>2. ASSUME NEW i \in 1..(Len(s) - 1), NEW j \in 1..(Len(s) - 1), i < j
      PROVE  Tail(s)[i].id < Tail(s)[j].id
  <2>1. i + 1 \in 1..Len(s) /\ j + 1 \in 1..Len(s) /\ i + 1 < j + 1
    BY <1>1, <1>2
  <2>2. s[i + 1].id < s[j + 1].id
    BY <2>1 DEF Ascending
  <2> QED BY <1>1, <2>2
<1>3. ASSUME NEW x \in ToSet(Tail(s)) PROVE Head(s).id < x.id
  <2>1. PICK i \in 1..(Len(s) - 1) : x = Tail(s)[i]
    BY <1>1 DEF ToSet
  <2>2. 1 \in 1..Len(s) /\ i + 1 \in 1..Len(s) /\ 1 < i + 1
    BY <1>1
  <2>3. s[1].id < s[i + 1].id
    BY <2>2 DEF Ascending
  <2> QED BY <1>1, <2>1, <2>3
<1> QED BY <1>1, <1>2, <1>3 DEF Ascending

\* Two orders, one before the other, are one.
LEMMA AscendingConcat ==
    ASSUME NEW s \in Seq(Event), Ascending(s), NEW t \in Seq(Event), Ascending(t),
           \A x \in ToSet(s), y \in ToSet(t) : x.id < y.id
    PROVE  s \o t \in Seq(Event) /\ Ascending(s \o t)
<1>1. /\ s \o t \in Seq(Event) /\ Len(s \o t) = Len(s) + Len(t)
      /\ Len(s) \in Nat /\ Len(t) \in Nat
      /\ \A i \in 1..(Len(s) + Len(t)) :
             (s \o t)[i] = IF i <= Len(s) THEN s[i] ELSE t[i - Len(s)]
  OBVIOUS
<1>2. \A i \in 1..Len(s), j \in 1..Len(t) : s[i].id < t[j].id
  BY DEF ToSet
<1>3. ASSUME NEW i \in 1..(Len(s) + Len(t)), NEW j \in 1..(Len(s) + Len(t)), i < j
      PROVE  (s \o t)[i].id < (s \o t)[j].id
  <2>1. CASE i <= Len(s) /\ j <= Len(s)
    <3>1. i \in 1..Len(s) /\ j \in 1..Len(s)
      BY <1>1, <2>1
    <3>2. s[i].id < s[j].id
      BY <1>3, <3>1 DEF Ascending
    <3> QED BY <1>1, <2>1, <3>2
  <2>2. CASE i <= Len(s) /\ ~(j <= Len(s))
    <3>1. i \in 1..Len(s) /\ j - Len(s) \in 1..Len(t)
      BY <1>1, <2>2
    <3> QED BY <1>1, <1>2, <2>2, <3>1
  <2>3. CASE ~(i <= Len(s)) /\ ~(j <= Len(s))
    <3>1. i - Len(s) \in 1..Len(t) /\ j - Len(s) \in 1..Len(t) /\ i - Len(s) < j - Len(s)
      BY <1>1, <1>3, <2>3
    <3>2. t[i - Len(s)].id < t[j - Len(s)].id
      BY <3>1 DEF Ascending
    <3> QED BY <1>1, <2>3, <3>2
  <2> QED BY <1>1, <1>3, <2>1, <2>2, <2>3
<1> QED BY <1>1, <1>3 DEF Ascending

\* VisibleIn yields the visible events, in their order.
LEMMA VisibleInOrder ==
    ASSUME NEW events \in Seq(Event), Ascending(events), NEW c
    PROVE  /\ VisibleIn(events, c) \in Seq(Event) /\ Ascending(VisibleIn(events, c))
           /\ ToSet(VisibleIn(events, c)) = {e \in ToSet(events) : VisibleTo(e, c)}
<1>1. PICK upTo :
          /\ upTo = [n \in 0..Len(events) |->
                       IF n = 0 THEN <<>>
                       ELSE IF VisibleTo(events[n], c) THEN Append(upTo[n - 1], events[n])
                       ELSE upTo[n - 1]]
          /\ VisibleIn(events, c) = upTo[Len(events)]
  BY VisibleSteps
<1> DEFINE First(k) == {events[i] : i \in 1..k}
           Right(k) == /\ upTo[k] \in Seq(Event) /\ Ascending(upTo[k])
                       /\ ToSet(upTo[k]) = {e \in First(k) : VisibleTo(e, c)}
           S == {k \in Nat : k <= Len(events) => Right(k)}
<1>2. Len(events) \in Nat
  OBVIOUS
<1>3. 0 \in S
  <2>1. upTo[0] = <<>>
    BY <1>1, <1>2
  <2>2. First(0) = {}
    OBVIOUS
  <2>3. upTo[0] \in Seq(Event) /\ Ascending(upTo[0]) /\ ToSet(upTo[0]) = {}
    BY <2>1, AscendingEmpty, ToSetEmpty
  <2>4. Right(0)
    <3> HIDE DEF First
    <3> QED BY <2>2, <2>3
  <2> HIDE DEF Right
  <2> QED BY <2>4
<1>4. ASSUME NEW k \in Nat, k \in S PROVE k + 1 \in S
  <2> SUFFICES ASSUME k + 1 <= Len(events) PROVE Right(k + 1)
    OBVIOUS
  <2>1. Right(k)
    BY <1>2, <1>4
  <2> DEFINE e == events[k + 1]
             s == upTo[k]
  <2>2. /\ k + 1 \in 0..Len(events) /\ k + 1 # 0 /\ (k + 1) - 1 = k /\ k + 1 \in 1..Len(events)
        /\ 1..(k + 1) = (1..k) \cup {k + 1}
    BY <1>2
  <2>3. upTo[k + 1] = IF VisibleTo(e, c) THEN Append(s, e) ELSE s
    BY <1>1, <2>2
  <2>4. e \in Event
    BY <2>2
  <2>5. First(k + 1) = First(k) \cup {e}
    BY <2>2
  <2>6. ASSUME NEW x \in ToSet(s) PROVE x.id < e.id
    <3>1. x \in First(k)
      BY <2>1
    <3>2. PICK i \in 1..k : x = events[i]
      BY <3>1
    <3>3. i \in 1..Len(events) /\ i < k + 1
      BY <1>2, <2>2
    <3> QED BY <2>2, <3>2, <3>3 DEF Ascending
  <2>7. s \in Seq(Event) /\ Ascending(s) /\ ToSet(s) = {x \in First(k) : VisibleTo(x, c)}
    BY <2>1
  <2> HIDE DEF e, s, First
  <2>8. CASE VisibleTo(e, c)
    <3>1. Append(s, e) \in Seq(Event) /\ Ascending(Append(s, e))
      BY <2>4, <2>6, <2>7, AscendingAppend
    <3>2. ToSet(Append(s, e)) = ToSet(s) \cup {e}
      BY <2>4, <2>7, ToSetAppend
    <3>3. ToSet(Append(s, e)) = {x \in First(k + 1) : VisibleTo(x, c)}
      BY <2>5, <2>7, <2>8, <3>2
    <3> QED BY <2>3, <2>8, <3>1, <3>3
  <2>9. CASE ~VisibleTo(e, c)
    <3>1. ToSet(s) = {x \in First(k + 1) : VisibleTo(x, c)}
      BY <2>5, <2>7, <2>9
    <3> QED BY <2>3, <2>7, <2>9, <3>1
  <2> QED BY <2>8, <2>9
<1>5. Nat \subseteq S
  <2> HIDE DEF S
  <2> QED BY <1>3, <1>4, NatInduct
<1>6. Right(Len(events))
  <2>1. Len(events) \in S
    BY <1>2, <1>5
  <2> HIDE DEF Right
  <2> QED BY <1>2, <2>1
<1>7. First(Len(events)) = ToSet(events)
  BY DEF ToSet
<1> QED BY <1>1, <1>6, <1>7

-----------------------------------------------------------------------------
(* One client: where it is, what was sent to it, its backlog, its queue, what it is owed,  *)
(* and the number of the last broadcast.                                                   *)

StreamOk(c, at, s, b, q, o, n) ==
    /\ Ascending(s) /\ Ascending(b) /\ Ascending(q)
    /\ \A x \in ToSet(s), y \in ToSet(b) : x.id < y.id
    /\ \A x \in ToSet(s), y \in ToSet(q) : x.id < y.id
    /\ \A x \in ToSet(b), y \in ToSet(q) : x.id < y.id
    /\ \A x \in ToSet(s) \cup ToSet(b) \cup ToSet(q) : x.id <= n
    /\ o = ToSet(s) \cup ToSet(b) \cup {e \in ToSet(q) : VisibleTo(e, c)}
    /\ at = "live" => b = <<>>

\* A connection begins with what it has to replay.
LEMMA StreamStarts ==
    ASSUME NEW c, NEW at, NEW b \in Seq(Event), Ascending(b), NEW n \in Nat,
           \A x \in ToSet(b) : x.id <= n, at = "live" => b = <<>>
    PROVE  StreamOk(c, at, <<>>, b, <<>>, ToSet(b), n)
BY ToSetEmpty, AscendingEmpty DEF StreamOk

\* The replay is over.
LEMMA StreamCatchesUp ==
    ASSUME NEW c, NEW at, NEW s \in Seq(Event), NEW q \in Seq(Event), NEW o, NEW n,
           StreamOk(c, at, s, <<>>, q, o, n)
    PROVE  StreamOk(c, "live", s, <<>>, q, o, n)
BY DEF StreamOk

\* One kept event is sent.
LEMMA StreamReplays ==
    ASSUME NEW c, NEW s \in Seq(Event), NEW b \in Seq(Event), NEW q \in Seq(Event), NEW o,
           NEW n \in Nat, b # <<>>, StreamOk(c, "replaying", s, b, q, o, n)
    PROVE  /\ Append(s, Head(b)) \in Seq(Event) /\ Tail(b) \in Seq(Event)
           /\ StreamOk(c, "replaying", Append(s, Head(b)), Tail(b), q, o, n)
<1> DEFINE e == Head(b)
           t == Tail(b)
           s2 == Append(s, e)
<1>1. e \in Event /\ t \in Seq(Event) /\ ToSet(b) = {e} \cup ToSet(t)
  BY ToSetHeadTail
<1>2. Ascending(t) /\ \A x \in ToSet(t) : e.id < x.id
  BY AscendingTail DEF StreamOk
<1> HIDE DEF e, t
<1>3. \A x \in ToSet(s) : x.id < e.id
  BY <1>1 DEF StreamOk
<1>4. s2 \in Seq(Event) /\ Ascending(s2)
  BY <1>1, <1>3, AscendingAppend DEF StreamOk
<1>5. ToSet(s2) = ToSet(s) \cup {e}
  BY <1>1, ToSetAppend
<1> HIDE DEF s2
<1>6. \A x \in ToSet(s2), y \in ToSet(t) : x.id < y.id
  BY <1>1, <1>2, <1>5 DEF StreamOk
<1>7. \A x \in ToSet(s2), y \in ToSet(q) : x.id < y.id
  BY <1>1, <1>5 DEF StreamOk
<1>8. \A x \in ToSet(t), y \in ToSet(q) : x.id < y.id
  BY <1>1 DEF StreamOk
<1>9. ToSet(s2) \cup ToSet(t) = ToSet(s) \cup ToSet(b)
  BY <1>1, <1>5
<1>10. StreamOk(c, "replaying", s2, t, q, o, n)
  BY <1>2, <1>4, <1>6, <1>7, <1>8, <1>9 DEF StreamOk
<1> QED BY <1>1, <1>4, <1>10 DEF e, t, s2

\* One event is taken off the queue, and sent if the user may see it.
LEMMA StreamDelivers ==
    ASSUME NEW c, NEW s \in Seq(Event), NEW b \in Seq(Event), NEW q \in Seq(Event), NEW o,
           NEW n \in Nat, q # <<>>, StreamOk(c, "live", s, b, q, o, n)
    PROVE  LET s2 == IF VisibleTo(Head(q), c) THEN Append(s, Head(q)) ELSE s
           IN  /\ s2 \in Seq(Event) /\ Tail(q) \in Seq(Event)
               /\ StreamOk(c, "live", s2, b, Tail(q), o, n)
<1> DEFINE e == Head(q)
           t == Tail(q)
           s2 == IF VisibleTo(e, c) THEN Append(s, e) ELSE s
<1>1. e \in Event /\ t \in Seq(Event) /\ ToSet(q) = {e} \cup ToSet(t)
  BY ToSetHeadTail
<1>2. Ascending(t) /\ \A x \in ToSet(t) : e.id < x.id
  BY AscendingTail DEF StreamOk
<1> HIDE DEF e, t
<1>3. \A x \in ToSet(s) : x.id < e.id
  BY <1>1 DEF StreamOk
<1>4. b = <<>> /\ ToSet(b) = {}
  BY ToSetEmpty DEF StreamOk
<1>5. CASE VisibleTo(e, c)
  <2>1. s2 \in Seq(Event) /\ Ascending(s2)
    BY <1>1, <1>3, <1>5, AscendingAppend DEF StreamOk
  <2>2. ToSet(s2) = ToSet(s) \cup {e}
    BY <1>1, <1>5, ToSetAppend
  <2> HIDE DEF s2
  <2>3. \A x \in ToSet(s2), y \in ToSet(t) : x.id < y.id
    BY <1>1, <1>2, <2>2 DEF StreamOk
  <2>4. \A x \in ToSet(s2) \cup ToSet(t) : x.id <= n
    BY <1>1, <2>2 DEF StreamOk
  <2>5. o = ToSet(s2) \cup {x \in ToSet(t) : VisibleTo(x, c)}
    BY <1>1, <1>4, <1>5, <2>2 DEF StreamOk
  <2>6. StreamOk(c, "live", s2, b, t, o, n)
    BY <1>2, <1>4, <2>1, <2>3, <2>4, <2>5 DEF StreamOk
  <2> QED BY <1>1, <2>1, <2>6 DEF e, t, s2
<1>6. CASE ~VisibleTo(e, c)
  <2>1. s2 = s
    BY <1>6
  <2> HIDE DEF s2
  <2>2. \A x \in ToSet(s), y \in ToSet(t) : x.id < y.id
    BY <1>1 DEF StreamOk
  <2>3. \A x \in ToSet(s) \cup ToSet(t) : x.id <= n
    BY <1>1 DEF StreamOk
  <2>4. o = ToSet(s) \cup {x \in ToSet(t) : VisibleTo(x, c)}
    BY <1>1, <1>4, <1>6 DEF StreamOk
  <2>5. StreamOk(c, "live", s2, b, t, o, n)
    BY <1>2, <1>4, <2>1, <2>2, <2>3, <2>4 DEF StreamOk
  <2> QED BY <1>1, <2>1, <2>5 DEF e, t, s2
<1> QED BY <1>5, <1>6

\* A broadcast reaches an open queue.
LEMMA StreamGrows ==
    ASSUME NEW c, NEW at, NEW s \in Seq(Event), NEW b \in Seq(Event), NEW q \in Seq(Event), NEW o,
           NEW n \in Nat, NEW e \in Event, e.id = n + 1, StreamOk(c, at, s, b, q, o, n)
    PROVE  /\ Append(q, e) \in Seq(Event)
           /\ StreamOk(c, at, s, b, Append(q, e),
                       IF VisibleTo(e, c) THEN o \cup {e} ELSE o, n + 1)
<1> DEFINE q2 == Append(q, e)
           o2 == IF VisibleTo(e, c) THEN o \cup {e} ELSE o
<1>1. /\ \A x \in ToSet(s) : x \in Event /\ x.id \in Nat /\ x.id <= n
      /\ \A x \in ToSet(b) : x \in Event /\ x.id \in Nat /\ x.id <= n
      /\ \A x \in ToSet(q) : x \in Event /\ x.id \in Nat /\ x.id <= n
  BY ToSetType DEF StreamOk, Event
<1>2. \A k \in Nat : k <= n => k < n + 1 /\ k <= n + 1
  OBVIOUS
<1>3. /\ \A x \in ToSet(s) : x.id < e.id /\ x.id <= n + 1
      /\ \A x \in ToSet(b) : x.id < e.id /\ x.id <= n + 1
      /\ \A x \in ToSet(q) : x.id < e.id /\ x.id <= n + 1
  BY <1>1, <1>2
<1>4. q2 \in Seq(Event) /\ Ascending(q2)
  BY <1>3, AscendingAppend DEF StreamOk
<1>5. ToSet(q2) = ToSet(q) \cup {e}
  BY ToSetAppend
<1> HIDE DEF q2
<1>6. \A x \in ToSet(s), y \in ToSet(q2) : x.id < y.id
  BY <1>3, <1>5 DEF StreamOk
<1>7. \A x \in ToSet(b), y \in ToSet(q2) : x.id < y.id
  BY <1>3, <1>5 DEF StreamOk
<1>8. \A x \in ToSet(s) \cup ToSet(b) \cup ToSet(q2) : x.id <= n + 1
  BY <1>3, <1>5
<1>9. o2 = ToSet(s) \cup ToSet(b) \cup {x \in ToSet(q2) : VisibleTo(x, c)}
  BY <1>5 DEF StreamOk
<1> HIDE DEF o2
<1>10. StreamOk(c, at, s, b, q2, o2, n + 1)
  BY <1>4, <1>6, <1>7, <1>8, <1>9 DEF StreamOk
<1> QED BY <1>4, <1>10 DEF q2, o2

\* It passes a closed one by.
LEMMA StreamMissesNothing ==
    ASSUME NEW c, NEW at, NEW s \in Seq(Event), NEW b \in Seq(Event), NEW q \in Seq(Event), NEW o,
           NEW n \in Nat, StreamOk(c, at, s, b, q, o, n)
    PROVE  StreamOk(c, at, s, b, q, o, n + 1)
<1>1. \A x \in ToSet(s) \cup ToSet(b) \cup ToSet(q) : x.id \in Nat /\ x.id <= n
  BY ToSetType DEF StreamOk, Event
<1>2. \A k \in Nat : k <= n => k <= n + 1
  OBVIOUS
<1>3. \A x \in ToSet(s) \cup ToSet(b) \cup ToSet(q) : x.id <= n + 1
  BY <1>1, <1>2
<1> QED BY <1>3 DEF StreamOk

-----------------------------------------------------------------------------
(* The invariant. *)

EventType ==
    /\ seq \in Nat /\ recent \in Seq(Event)
    /\ stream \in [Client -> {"closed", "replaying", "live"}]
    /\ inbox \in [Client -> Seq(Event)] /\ backlog \in [Client -> Seq(Event)]
    /\ sent \in [Client -> Seq(Event)]
    /\ owes \in [Client -> SUBSET Event]

KeptInOrder == Ascending(recent) /\ \A e \in ToSet(recent) : e.id <= seq

StreamsOk == \A c \in Client : StreamOk(c, stream[c], sent[c], backlog[c], inbox[c], owes[c], seq)

EventInv == EventType /\ KeptInOrder /\ StreamsOk

\* Nobody is connected.
LEMMA EventInitInv == EventInit => EventInv
<1> SUFFICES ASSUME EventInit PROVE EventInv
  OBVIOUS
<1>1. EventType
  BY DEF EventInit, EventType
<1>2. KeptInOrder
  BY AscendingEmpty, ToSetEmpty DEF EventInit, KeptInOrder
<1>3. ASSUME NEW c \in Client PROVE StreamOk(c, stream[c], sent[c], backlog[c], inbox[c],
   owes[c], seq)
  <2>1. StreamOk(c, "closed", <<>>, <<>>, <<>>, ToSet(<<>>), 0)
    <3>1. <<>> \in Seq(Event) /\ 0 \in Nat /\ \A x \in ToSet(<<>>) : x.id <= 0
      BY ToSetEmpty
    <3>2. Ascending(<<>>)
      BY AscendingEmpty
    <3> QED BY <3>1, <3>2, StreamStarts
  <2> QED BY <2>1, ToSetEmpty DEF EventInit
<1> QED BY <1>1, <1>2, <1>3 DEF EventInv, StreamsOk

\* A broadcast is younger than all there is, and reaches every open queue, kept or not.
LEMMA BroadcastInv ==
    ASSUME EventInv, NEW owner \in User \cup {Everyone},
           Broadcast(owner) \/ (owner = Everyone /\ BroadcastListing)
    PROVE  EventInv'
<1> DEFINE e == [id |-> seq + 1, owner |-> owner]
           all == Append(recent, e)
<1>1. EventType /\ KeptInOrder /\ StreamsOk /\ seq \in Nat
  BY DEF EventInv, EventType
<1>2. e \in Event /\ e.id = seq + 1
  BY <1>1 DEF Event
<1>3. /\ seq' = seq + 1
      /\ recent' \in {recent, all, Tail(all)}
      /\ inbox' = [c \in Client |-> IF c \in Subscribed THEN Append(inbox[c], e) ELSE inbox[c]]
      /\ owes' = [c \in Client |-> IF stream[c] # "closed" /\ VisibleTo(e, c)
                                   THEN owes[c] \cup {e} ELSE owes[c]]
      /\ UNCHANGED <<stream, backlog, sent>>
  <2>1. PutToAll(e) /\ recent' \in {recent, all, Tail(all)}
    BY DEF Broadcast, BroadcastListing, NextEvent
  <2> QED BY <2>1 DEF PutToAll
<1> HIDE DEF e
<1>4. \A x \in ToSet(recent) : x.id \in Nat /\ x.id <= seq
  <2>1. \A x \in ToSet(recent) : x \in Event
    BY <1>1, ToSetType DEF EventType
  <2>2. \A x \in Event : x.id \in Nat
    BY DEF Event
  <2> QED BY <1>1, <2>1, <2>2 DEF KeptInOrder
<1>5. \A k \in Nat : k <= seq => k < seq + 1 /\ k <= seq + 1
  BY <1>1
<1>6. all \in Seq(Event) /\ Ascending(all) /\ ToSet(all) = ToSet(recent) \cup {e}
  BY <1>1, <1>2, <1>4, <1>5, AscendingAppend, ToSetAppend DEF EventType, KeptInOrder
<1>7. \A x \in ToSet(all) : x.id <= seq + 1
  BY <1>1, <1>2, <1>4, <1>5, <1>6
<1>8. all # <<>>
  <2>1. Len(all) = Len(recent) + 1 /\ Len(recent) \in Nat
    BY <1>1, <1>2 DEF EventType
  <2> QED BY <2>1
<1> HIDE DEF all
<1>9. recent' \in Seq(Event) /\ Ascending(recent') /\ \A x \in ToSet(recent') : x.id <= seq + 1
  <2>1. recent \in Seq(Event) /\ Ascending(recent) /\ \A x \in ToSet(recent) : x.id <= seq + 1
    BY <1>1, <1>4, <1>5 DEF EventType, KeptInOrder
  <2>2. /\ Tail(all) \in Seq(Event) /\ Ascending(Tail(all))
        /\ \A x \in ToSet(Tail(all)) : x.id <= seq + 1
    BY <1>6, <1>7, <1>8, AscendingTail, ToSetHeadTail
  <2> QED BY <1>3, <1>6, <1>7, <2>1, <2>2
<1>10. KeptInOrder'
  BY <1>3, <1>9 DEF KeptInOrder
<1>11. ASSUME NEW c \in Client
       PROVE  /\ inbox'[c] \in Seq(Event) /\ owes'[c] \in SUBSET Event
              /\ StreamOk(c, stream[c], sent[c], backlog[c], inbox'[c], owes'[c], seq + 1)
  <2>1. /\ sent[c] \in Seq(Event) /\ backlog[c] \in Seq(Event) /\ inbox[c] \in Seq(Event)
        /\ owes[c] \in SUBSET Event
        /\ StreamOk(c, stream[c], sent[c], backlog[c], inbox[c], owes[c], seq)
    BY <1>1 DEF EventType, StreamsOk
  <2>2. CASE stream[c] # "closed"
    <3>1. inbox'[c] = Append(inbox[c], e)
          /\ owes'[c] = IF VisibleTo(e, c) THEN owes[c] \cup {e} ELSE owes[c]
      BY <1>3, <2>2 DEF Subscribed
    <3>2. /\ Append(inbox[c], e) \in Seq(Event)
          /\ StreamOk(c, stream[c], sent[c], backlog[c], Append(inbox[c], e),
                      IF VisibleTo(e, c) THEN owes[c] \cup {e} ELSE owes[c], seq + 1)
      BY <1>1, <1>2, <2>1, StreamGrows
    <3> QED BY <1>2, <2>1, <3>1, <3>2
  <2>3. CASE stream[c] = "closed"
    <3>1. inbox'[c] = inbox[c] /\ owes'[c] = owes[c]
      BY <1>3, <2>3 DEF Subscribed
    <3> QED BY <1>1, <2>1, <3>1, StreamMissesNothing
  <2> QED BY <2>2, <2>3
<1>12. StreamsOk'
  BY <1>3, <1>11 DEF StreamsOk
<1>13. EventType'
  <2>1. inbox' \in [Client -> Seq(Event)] /\ owes' \in [Client -> SUBSET Event]
    BY <1>3, <1>11
  <2> QED BY <1>1, <1>3, <1>9, <2>1 DEF EventType
<1> QED BY <1>10, <1>12, <1>13 DEF EventInv

\* What is replayed was kept, and is in order.
LEMMA ReplayOk ==
    ASSUME EventInv, NEW c \in Client
    PROVE  /\ EventsToReplay(c) \in Seq(Event) /\ Ascending(EventsToReplay(c))
           /\ \A e \in ToSet(EventsToReplay(c)) : e.id <= seq
<1>1. recent \in Seq(Event) /\ Ascending(recent) /\ \A e \in ToSet(recent) : e.id <= seq
  BY DEF EventInv, EventType, KeptInOrder
<1>2. /\ VisibleIn(recent, c) \in Seq(Event) /\ Ascending(VisibleIn(recent, c))
      /\ ToSet(VisibleIn(recent, c)) \subseteq ToSet(recent)
  BY <1>1, VisibleInOrder
<1> QED BY <1>1, <1>2, AscendingEmpty, ToSetEmpty DEF EventsToReplay

\* What a step of one client's handler leaves to show.
LEMMA OneStreamInv ==
    ASSUME EventInv, NEW c \in Client, UNCHANGED <<seq, recent>>,
           NEW at \in {"closed", "replaying", "live"}, NEW s \in Seq(Event), NEW b \in Seq(Event),
           NEW q \in Seq(Event), NEW o \in SUBSET Event,
           stream' = [stream EXCEPT ![c] = at], sent' = [sent EXCEPT ![c] = s],
           backlog' = [backlog EXCEPT ![c] = b], inbox' = [inbox EXCEPT ![c] = q],
           owes' = [owes EXCEPT ![c] = o],
           StreamOk(c, at, s, b, q, o, seq)
    PROVE  EventInv'
<1>1. EventType /\ KeptInOrder /\ StreamsOk
  BY DEF EventInv
<1>2. EventType'
  BY <1>1 DEF EventType
<1>3. KeptInOrder'
  BY <1>1 DEF KeptInOrder
<1>4. ASSUME NEW d \in Client
      PROVE  StreamOk(d, stream'[d], sent'[d], backlog'[d], inbox'[d], owes'[d], seq)
  <2>1. CASE d = c
    <3>1. /\ stream'[c] = at /\ sent'[c] = s /\ backlog'[c] = b /\ inbox'[c] = q /\ owes'[c] = o
      BY <1>1 DEF EventType
    <3> QED BY <2>1, <3>1
  <2>2. CASE d # c
    <3>1. /\ stream'[d] = stream[d] /\ sent'[d] = sent[d] /\ backlog'[d] = backlog[d]
          /\ inbox'[d] = inbox[d] /\ owes'[d] = owes[d]
      BY <1>1, <2>2 DEF EventType
    <3> QED BY <1>1, <3>1 DEF StreamsOk
  <2> QED BY <2>1, <2>2
<1>5. StreamsOk'
  BY <1>4 DEF StreamsOk
<1> QED BY <1>2, <1>3, <1>5 DEF EventInv

\* The steps of a stream's handler.
LEMMA HandlerInv ==
    ASSUME EventInv, NEW c \in Client, Connect(c) \/ Replay(c) \/ Deliver(c) \/ Disconnect(c)
    PROVE  EventInv'
<1>1. /\ seq \in Nat
      /\ stream \in [Client -> {"closed", "replaying", "live"}]
      /\ inbox \in [Client -> Seq(Event)] /\ backlog \in [Client -> Seq(Event)]
      /\ sent \in [Client -> Seq(Event)] /\ owes \in [Client -> SUBSET Event]
  BY DEF EventInv, EventType
<1>2. /\ sent[c] \in Seq(Event) /\ backlog[c] \in Seq(Event) /\ inbox[c] \in Seq(Event)
      /\ owes[c] \in SUBSET Event
  BY <1>1
<1>3. StreamOk(c, stream[c], sent[c], backlog[c], inbox[c], owes[c], seq)
  BY DEF EventInv, StreamsOk
<1>4. CASE Connect(c)
  <2> DEFINE b == EventsToReplay(c)
  <2>1. b \in Seq(Event) /\ Ascending(b) /\ \A e \in ToSet(b) : e.id <= seq
    BY ReplayOk
  <2>2. /\ stream' = [stream EXCEPT ![c] = "replaying"] /\ inbox' = [inbox EXCEPT ![c] = <<>>]
        /\ backlog' = [backlog EXCEPT ![c] = b] /\ owes' = [owes EXCEPT ![c] = ToSet(b)]
        /\ sent' = [sent EXCEPT ![c] = <<>>] /\ UNCHANGED <<seq, recent>>
    BY <1>4 DEF Connect
  <2> HIDE DEF b
  <2>3. StreamOk(c, "replaying", <<>>, b, <<>>, ToSet(b), seq)
    BY <1>1, <2>1, StreamStarts
  <2>4. ToSet(b) \in SUBSET Event /\ <<>> \in Seq(Event)
    BY <2>1, ToSetType
  <2> QED BY <2>1, <2>2, <2>3, <2>4, OneStreamInv
<1>5. CASE Replay(c)
  <2>1. stream[c] = "replaying" /\ UNCHANGED <<seq, recent, inbox, owes>>
    BY <1>5 DEF Replay
  <2>2. inbox' = [inbox EXCEPT ![c] = inbox[c]] /\ owes' = [owes EXCEPT ![c] = owes[c]]
    BY <1>1, <2>1
  <2>3. CASE backlog[c] = <<>>
    <3>1. stream' = [stream EXCEPT ![c] = "live"] /\ UNCHANGED <<backlog, sent>>
      BY <1>5, <2>3 DEF Replay
    <3>2. backlog' = [backlog EXCEPT ![c] = backlog[c]] /\ sent' = [sent EXCEPT ![c] = sent[c]]
      BY <1>1, <3>1
    <3>3. StreamOk(c, "live", sent[c], backlog[c], inbox[c], owes[c], seq)
      <4> DEFINE b == backlog[c]
      <4>1. b = <<>> /\ StreamOk(c, stream[c], sent[c], b, inbox[c], owes[c], seq)
        BY <1>3, <2>3
      <4> HIDE DEF b
      <4>2. StreamOk(c, stream[c], sent[c], <<>>, inbox[c], owes[c], seq)
        BY <4>1
      <4>3. StreamOk(c, "live", sent[c], <<>>, inbox[c], owes[c], seq)
        BY <1>2, <4>2, StreamCatchesUp
      <4> QED BY <4>1, <4>3 DEF b
    <3>4. stream' = [stream EXCEPT ![c] = "live"] /\ UNCHANGED <<seq, recent>>
      BY <2>1, <3>1
    <3> QED BY <1>2, <2>2, <3>2, <3>3, <3>4, OneStreamInv
  <2>4. CASE backlog[c] # <<>>
    <3>1. /\ sent' = [sent EXCEPT ![c] = Append(sent[c], Head(backlog[c]))]
          /\ backlog' = [backlog EXCEPT ![c] = Tail(backlog[c])] /\ UNCHANGED stream
      BY <1>5, <2>4 DEF Replay, Send
    <3>2. stream' = [stream EXCEPT ![c] = "replaying"]
      BY <1>1, <2>1, <3>1
    <3>3. /\ Append(sent[c], Head(backlog[c])) \in Seq(Event) /\ Tail(backlog[c]) \in Seq(Event)
          /\ StreamOk(c, "replaying", Append(sent[c], Head(backlog[c])), Tail(backlog[c]),
                      inbox[c], owes[c], seq)
      BY <1>1, <1>2, <1>3, <2>1, <2>4, StreamReplays
    <3> QED BY <1>2, <2>1, <2>2, <3>1, <3>2, <3>3, OneStreamInv
  <2> QED BY <2>3, <2>4
<1>6. CASE Deliver(c)
  <2> DEFINE s == IF VisibleTo(Head(inbox[c]), c) THEN Append(sent[c],
     Head(inbox[c])) ELSE sent[c]
  <2>1. /\ stream[c] = "live" /\ inbox[c] # <<>>
        /\ inbox' = [inbox EXCEPT ![c] = Tail(inbox[c])]
        /\ UNCHANGED <<seq, recent, stream, backlog, owes>>
    BY <1>6 DEF Deliver
  <2>2. sent' = [sent EXCEPT ![c] = s]
    BY <1>1, <1>6 DEF Deliver, Send
  <2>3. /\ s \in Seq(Event) /\ Tail(inbox[c]) \in Seq(Event)
        /\ StreamOk(c, "live", s, backlog[c], Tail(inbox[c]), owes[c], seq)
    BY <1>1, <1>2, <1>3, <2>1, StreamDelivers
  <2> HIDE DEF s
  <2>4. /\ stream' = [stream EXCEPT ![c] = "live"] /\ backlog' = [backlog EXCEPT ![c] = backlog[c]]
        /\ owes' = [owes EXCEPT ![c] = owes[c]]
    BY <1>1, <2>1
  <2> QED BY <1>2, <2>1, <2>2, <2>3, <2>4, OneStreamInv
<1>7. CASE Disconnect(c)
  <2>1. /\ stream' = [stream EXCEPT ![c] = "closed"] /\ inbox' = [inbox EXCEPT ![c] = <<>>]
        /\ backlog' = [backlog EXCEPT ![c] = <<>>] /\ owes' = [owes EXCEPT ![c] = {}]
        /\ sent' = [sent EXCEPT ![c] = <<>>] /\ UNCHANGED <<seq, recent>>
    BY <1>7 DEF Disconnect
  <2>2. StreamOk(c, "closed", <<>>, <<>>, <<>>, {}, seq)
    <3>1. <<>> \in Seq(Event)
      OBVIOUS
    <3> QED BY <1>1, <3>1, StreamStarts, AscendingEmpty, ToSetEmpty
  <2>3. {} \in SUBSET Event /\ <<>> \in Seq(Event)
    OBVIOUS
  <2> QED BY <2>1, <2>2, <2>3, OneStreamInv
<1> QED BY <1>4, <1>5, <1>6, <1>7

\* EventInv is inductive.
LEMMA EventInvHolds == EventSpec => []EventInv
<1>1. EventInit => EventInv
  BY EventInitInv
<1>2. EventInv /\ [EventNext]_eventVars => EventInv'
  <2> SUFFICES ASSUME EventInv, [EventNext]_eventVars PROVE EventInv'
    OBVIOUS
  <2>1. ASSUME NEW owner \in User \cup {Everyone},
               Broadcast(owner) \/ (owner = Everyone /\ BroadcastListing)
        PROVE  EventInv'
    BY <2>1, BroadcastInv
  <2>2. ASSUME NEW owner \in User \cup {Everyone}, ToggleJob(owner) PROVE EventInv'
    BY <2>2 DEF ToggleJob, EventInv, EventType, KeptInOrder, StreamsOk
  <2>3. ASSUME NEW c \in Client, Connect(c) \/ Replay(c) \/ Deliver(c) \/ Disconnect(c)
        PROVE  EventInv'
    BY <2>3, HandlerInv
  <2>4. CASE UNCHANGED eventVars
    BY <2>4 DEF eventVars, EventInv, EventType, KeptInOrder, StreamsOk
  <2> QED BY <2>1, <2>2, <2>3, <2>4 DEF EventNext
<1> QED BY <1>1, <1>2, PTL DEF EventSpec

\* The three sequences of a client, in one.
LEMMA InvGivesNoGap == EventInv => StreamHasNoGap
<1> SUFFICES ASSUME EventInv, NEW c \in Client
             PROVE  LET waiting == {e \in ToSet(inbox[c]) : VisibleTo(e, c)}
                        events == sent[c] \o backlog[c] \o inbox[c]
                    IN  /\ ToSet(sent[c]) \cup ToSet(backlog[c]) \cup waiting = owes[c]
                        /\ \A i, j \in DOMAIN events : i < j => events[i].id < events[j].id
  BY DEF StreamHasNoGap
<1> DEFINE s == sent[c]
           b == backlog[c]
           q == inbox[c]
<1>1. s \in Seq(Event) /\ b \in Seq(Event) /\ q \in Seq(Event)
  BY DEF EventInv, EventType
<1>2. StreamOk(c, stream[c], s, b, q, owes[c], seq)
  BY DEF EventInv, StreamsOk
<1> HIDE DEF s, b, q
<1>3. s \o b \in Seq(Event) /\ Ascending(s \o b) /\ ToSet(s \o b) = ToSet(s) \cup ToSet(b)
  BY <1>1, <1>2, AscendingConcat, ToSetConcat DEF StreamOk
<1>4. \A x \in ToSet(s \o b), y \in ToSet(q) : x.id < y.id
  BY <1>2, <1>3 DEF StreamOk
<1>5. s \o b \o q \in Seq(Event) /\ Ascending(s \o b \o q)
  <2> DEFINE r == s \o b
  <2>1. r \in Seq(Event) /\ Ascending(r) /\ \A x \in ToSet(r), y \in ToSet(q) : x.id < y.id
    BY <1>3, <1>4
  <2>2. Ascending(q)
    BY <1>2 DEF StreamOk
  <2> HIDE DEF r
  <2>3. r \o q \in Seq(Event) /\ Ascending(r \o q)
    BY <1>1, <2>1, <2>2, AscendingConcat
  <2> QED BY <2>3 DEF r
<1>6. ToSet(s) \cup ToSet(b) \cup {e \in ToSet(q) : VisibleTo(e, c)} = owes[c]
  BY <1>2 DEF StreamOk
<1>7. DOMAIN (s \o b \o q) = 1..Len(s \o b \o q)
  BY <1>5
<1> QED BY <1>5, <1>6, <1>7 DEF Ascending, s, b, q

\* For every client: the events sent, those left to replay and those waiting that it may see
\* are exactly the ones it was owed since it connected, each once and in the order of their
\* numbers.  _broadcast may run at any await of the stream's handler: the snapshot of _recent
\* and the registration in _subscribers are one step, so no event falls between them.
THEOREM NothingFallsBetween == EventSpec => []StreamHasNoGap
BY EventInvHolds, InvGivesNoGap, PTL

-----------------------------------------------------------------------------
(* Sign-in. *)

\* The parts of a transaction, and where a sign-up may stand.
SignInType ==
    /\ pendingSignup \in [Handshake -> {"none", "waiting", "late", "gone"}]
    /\ users \subseteq Account
    /\ redeemer \in [Redeemer -> [at : {"idle", "deleted", "created"},
                                  handshake : Handshake \cup {Nil}, invite : Invite \cup {Nil}]]
    /\ \A r \in Redeemer : redeemer[r].at # "idle" => redeemer[r].handshake \in Handshake

\* Two transactions never redeem one sign-up, and never create one account: the first
\* DELETE keeps the row, the first INSERT the name.  What one has created, no user has yet.
SignupsApart ==
    /\ \A r, q \in Redeemer :
          redeemer[r].at # "idle" /\ redeemer[q].at # "idle" /\ r # q
          => redeemer[r].handshake # redeemer[q].handshake
    /\ \A r, q \in Redeemer :
          redeemer[r].at = "created" /\ redeemer[q].at = "created" /\ r # q
          => AccountOf[redeemer[r].handshake] # AccountOf[redeemer[q].handshake]
    /\ \A r \in Redeemer :
          redeemer[r].at = "created" => AccountOf[redeemer[r].handshake] \notin users

SignInInv == SignInType /\ SignupsApart /\ SignupMadeUser

\* Every step keeps SignInInv.
LEMMA SignInStep == SignInInv /\ [SignInNext]_signInVars => SignInInv'
<1> SUFFICES ASSUME SignInInv, [SignInNext]_signInVars PROVE SignInInv'
  OBVIOUS
<1> USE SignInAssumption DEF SignInInv, SignInType, SignupsApart, SignupMadeUser
<1>1. ASSUME NEW h \in Handshake,
             StartHandshake(h) \/ ExchangeFails(h) \/ \E late \in BOOLEAN : ConsumeHandshake(h,
                late)
      PROVE  SignInInv'
  BY <1>1 DEF StartHandshake, ExchangeFails, ConsumeHandshake
<1>2. ASSUME NEW h \in Handshake, EndCallback(h) PROVE SignInInv'
  BY <1>2 DEF EndCallback
<1>3. ASSUME NEW h \in Handshake, SignupAges(h) PROVE SignInInv'
  BY <1>3 DEF SignupAges
<1>4. ASSUME NEW h \in Handshake, RefuseSignup(h) PROVE SignInInv'
  BY <1>4 DEF RefuseSignup
<1>5. ASSUME NEW h \in Handshake, NEW r \in Redeemer, NEW code \in Invite,
             DeleteSignup(r, h, code)
      PROVE  SignInInv'
  BY <1>5 DEF DeleteSignup, Deleting
<1>6. ASSUME NEW r \in Redeemer, BadInvite(r) PROVE SignInInv'
  BY <1>6 DEF BadInvite, AfterBadInvite, EndRedeem, IdleRedeemer
<1>7. ASSUME NEW r \in Redeemer, CreateUser(r) PROVE SignInInv'
  BY <1>7 DEF CreateUser, Inserting
<1>8. ASSUME NEW r \in Redeemer, CommitSignup(r) PROVE SignInInv'
  BY <1>8 DEF CommitSignup, EndRedeem, IdleRedeemer
<1>9. ASSUME NEW r \in Redeemer, RedeemFails(r) PROVE SignInInv'
  BY <1>9 DEF RedeemFails, EndRedeem, IdleRedeemer
<1>10. CASE FailuresAge \/ UNCHANGED signInVars
  BY <1>10 DEF FailuresAge, signInVars
<1> QED
  BY <1>1, <1>2, <1>3, <1>4, <1>5, <1>6, <1>7, <1>8, <1>9, <1>10 DEF SignInNext

\* SignInInv is inductive.
LEMMA SignInAlways == SignInSpec => []SignInInv
<1>1. SignInInit => SignInInv
  BY SignInAssumption DEF SignInInit, SignInInv, SignInType, SignupsApart, SignupMadeUser,
      IdleRedeemer
<1> QED BY <1>1, SignInStep, PTL DEF SignInSpec

\* A sign-up is consumed only in the transaction that makes its user: redeem_invite rolls
\* both back together, and only a sign-up that came too late goes without one.
THEOREM NoGrantIsBurnt == SignInSpec => []SignupMadeUser
<1>1. SignInInv => SignupMadeUser
  BY DEF SignInInv
<1> QED BY <1>1, SignInAlways, PTL

\* Two redemptions under way never hold one sign-up nor create one account, and what one
\* creates no user has yet: the DELETE ... RETURNING and the unique name decide.
THEOREM AccountsAreCreatedOnce == SignInSpec => []SignupsApart
<1>1. SignInInv => SignupsApart
  BY DEF SignInInv
<1> QED BY <1>1, SignInAlways, PTL

-----------------------------------------------------------------------------
(* The log queue. *)

LogType ==
    /\ logged \in Nat
    /\ batch \in [Flusher -> SUBSET Nat] /\ flushing \in [Flusher -> BOOLEAN]
    /\ logQueue \subseteq Nat
    /\ phase \in {"running", "stopping", "joined", "stopped"}

\* Where a record may be.
Somewhere == logQueue \cup batch["writer"] \cup batch["clear"] \cup batch["stop"]
             \cup appLogs \cup cleared \cup dropped

\* Every record is somewhere, and a batch is in the hands of its flush.
NothingVanishes ==
    /\ 0 .. logged - 1 \subseteq Somewhere
    /\ \A f \in Flusher : ~flushing[f] => batch[f] = {}

\* The stop flushes once, after the join; from then on the queue holds younger records only.
StopShape ==
    /\ mustKeep \subseteq 0 .. logged - 1
    /\ flushing["stop"] => phase = "joined"
    /\ flushing["stop"] \/ phase = "stopped" => mustKeep \cap logQueue = {}

LogInv == LogType /\ NothingVanishes /\ StopShape

\* A record finds room in the queue, or is dropped.
LEMMA RecordLogged == ASSUME LogInv, LogRecord PROVE LogInv'
<1>1. logged \in Nat /\ logQueue \subseteq Nat
  BY DEF LogInv, LogType
<1>2. /\ batch' = batch /\ flushing' = flushing /\ appLogs' = appLogs /\ cleared' = cleared
      /\ phase' = phase /\ mustKeep' = mustKeep /\ logged' = logged + 1
  BY DEF LogRecord
<1>3. \/ logQueue' = logQueue \cup {logged} /\ dropped' = dropped
      \/ logQueue' = logQueue /\ dropped' = dropped \cup {logged}
  BY DEF LogRecord
<1>4. LogType'
  <2>1. logged' \in Nat
    BY <1>1, <1>2
  <2>2. ASSUME NEW i \in logQueue' PROVE i \in Nat
    BY <1>1, <1>3
  <2> QED BY <1>2, <2>1, <2>2 DEF LogInv, LogType
<1>5. NothingVanishes'
  <2>1. 0 .. logged' - 1 = (0 .. logged - 1) \cup {logged}
    BY <1>1, <1>2
  <2>2. logged \in Somewhere' /\ Somewhere \subseteq Somewhere'
    BY <1>2, <1>3 DEF Somewhere
  <2> QED BY <1>2, <2>1, <2>2 DEF LogInv, NothingVanishes
<1>6. StopShape'
  <2>1. logged \notin mustKeep /\ 0 .. logged - 1 \subseteq 0 .. logged' - 1
    BY <1>1, <1>2 DEF LogInv, StopShape
  <2> QED BY <1>2, <1>3, <2>1 DEF LogInv, StopShape
<1> QED BY <1>4, <1>5, <1>6 DEF LogInv

\* Every step keeps LogInv.
LEMMA LogStep == LogInv /\ [LogNext]_logVars => LogInv'
<1> SUFFICES ASSUME LogInv, [LogNext]_logVars PROVE LogInv'
  OBVIOUS
<1> USE LogQueueAssumption DEF LogInv, LogType, NothingVanishes, Somewhere, StopShape, Flusher
<1>1. CASE LogRecord
  BY <1>1, RecordLogged
<1>2. CASE WriterDrains
  BY <1>2 DEF WriterDrains, DrainedBy
<1>3. CASE ClearFlushes
  BY <1>3 DEF ClearFlushes, DrainedBy
<1>4. CASE ClearDeletes
  BY <1>4 DEF ClearDeletes
<1>5. CASE StopWriter
  BY <1>5 DEF StopWriter
<1>6. CASE JoinWriter
  BY <1>6 DEF JoinWriter
<1>7. CASE StopFlushes
  BY <1>7 DEF StopFlushes, AfterJoin, DrainedBy
<1>8. ASSUME NEW f \in Flusher, InsertBatch(f) PROVE LogInv'
  BY <1>8 DEF InsertBatch
<1>9. CASE UNCHANGED logVars
  BY <1>9 DEF logVars
<1> QED BY <1>1, <1>2, <1>3, <1>4, <1>5, <1>6, <1>7, <1>8, <1>9 DEF LogNext

\* What was in the queue when the writer was told to stop is in the table when the stop
\* returns, was cleared or dropped, or is in the hands of a flush that hung.
THEOREM StopKeepsTheLog == LogSpec => []StopLosesNothing
<1>1. LogInit => LogInv
  BY DEF LogInit, LogInv, LogType, NothingVanishes, Somewhere, StopShape, Flusher
<1>2. LogInv => StopLosesNothing
  BY DEF LogInv, LogType, NothingVanishes, Somewhere, StopShape, Flusher, StopLosesNothing
<1> QED BY <1>1, <1>2, LogStep, PTL DEF LogSpec

===============================================================================
