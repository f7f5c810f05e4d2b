----------------------------- MODULE PriceDrops -----------------------------
(***************************************************************************)
(* Price drops of one record and the notifications of one user about them. *)
(*                                                                         *)
(* Every source that lists the record - stores by their stock sync,        *)
(* marketplaces by a worker - writes its price in a transaction: it reads  *)
(* the floor over all sources, writes, records a drop if it undercuts the  *)
(* floor, and commits.  Drops are numbered by a sequence when they are     *)
(* inserted and become visible when their transaction commits.  The user   *)
(* reads the feed in tabs, and each tab marks read what it was handed,     *)
(* through one watermark.                                                  *)
(*                                                                         *)
(* One currency: prices in others compete in a floor of their own.         *)
(***************************************************************************)
EXTENDS Naturals, FiniteSets, FiniteSetsExt

CONSTANTS
    Source,         \* the crawlers that price the record
    Price,          \* prices, natural numbers
    Tab,            \* the user's open Notifications tabs
    FeedLimit,      \* how much read history a feed holds
    MaxWrites,      \* bound on price writes
    MaxFeeds,       \* bound on feeds
    MaxClicks,      \* bound on saves, unsaves and retention sweeps
    NoPrice

ASSUME PriceDropsAssumption ==
    /\ Price \subseteq Nat /\ NoPrice \notin Nat
    /\ FeedLimit \in Nat \ {0} /\ {MaxWrites, MaxFeeds, MaxClicks} \subseteq Nat

VARIABLES
    price,      \* per source: its committed price of the record
    writer,     \* per source: its open transaction
    nextDrop,   \* the sequence behind stock_item_price_drops.id
    drops,      \* ids of the committed drops
    saved,      \* is there a stock_item_saves row of the user
    before,     \* drops created before the record was last saved
    watermark,  \* last_read_drop_id
    tab,        \* per tab: the newest id of its last feed, not yet marked; 0 for none
    delivered,  \* history: ids some feed returned
    overtaken,  \* history: ids that were still uncommitted when a later id was delivered
    undercut,   \* history: commits below every price seen since they began, not recorded
    writes, feeds, clicks

dropVars == <<price, writer, nextDrop, drops, saved, before, watermark, tab, delivered,
              overtaken, undercut, writes, feeds, clicks>>

NoWriter == [at |-> "idle", floor |-> NoPrice, new |-> NoPrice, id |-> 0,
             known |-> FALSE, seen |-> {}]

Priced(prices) == {prices[s] : s \in Source} \ {NoPrice}

-----------------------------------------------------------------------------
(* A source writes its price. *)

\* Mutant of FloorNow: what remains once the source's own row is deleted.
FloorAfterDelete(s) ==
    LET others == Priced([price EXCEPT ![s] = NoPrice])
    IN  IF others = {} THEN NoPrice ELSE Min(others)

\* _price_floors, before the write: the price being replaced counts.
FloorNow(s) == IF Priced(price) = {} THEN NoPrice ELSE Min(Priced(price))

ReadFloor(s) ==
    /\ writer[s].at = "idle" /\ writes < MaxWrites
    /\ writes' = writes + 1
    /\ writer' = [writer EXCEPT ![s] =
           [at |-> "write", floor |-> FloorNow(s), new |-> NoPrice, id |-> 0,
            known |-> Priced(price) # {}, seen |-> Priced(price)]]
    /\ UNCHANGED <<price, nextDrop, drops, saved, before, watermark, tab, delivered,
                   overtaken, undercut, feeds, clicks>>

Undercuts(new, floor) == new # NoPrice /\ floor # NoPrice /\ new < floor

Written(w, new, id) ==
    [at |-> "commit", floor |-> w.floor, new |-> new, id |-> id,
     known |-> w.known, seen |-> w.seen]

\* The row and, below the floor, the drop; a snapshot without the record has no price.
WritePrice(s, new) ==
    /\ writer[s].at = "write"
    /\ LET dropped == Undercuts(new, writer[s].floor)
       IN  /\ writer' = [writer EXCEPT ![s] =
                  Written(@, new, IF dropped THEN nextDrop ELSE 0)]
           /\ nextDrop' = IF dropped THEN nextDrop + 1 ELSE nextDrop
    /\ UNCHANGED <<price, drops, saved, before, watermark, tab, delivered,
                   overtaken, undercut, writes, feeds, clicks>>

\* Had the record a price when the transaction began, and is this one below all since?
Cheapest(w) == w.new # NoPrice /\ w.known /\ \A p \in w.seen : w.new < p

CommitPrice(s) ==
    LET w == writer[s] IN
    /\ w.at = "commit"
    /\ price' = [price EXCEPT ![s] = w.new]
    /\ drops' = IF w.id # 0 THEN drops \cup {w.id} ELSE drops
    /\ undercut' = (undercut \/ (Cheapest(w) /\ w.id = 0))
    /\ writer' = [t \in Source |->
           IF t = s THEN NoWriter
           ELSE IF writer[t].at = "idle" THEN writer[t]
           ELSE [writer[t] EXCEPT !.seen = @ \cup Priced(price')]]
    /\ UNCHANGED <<nextDrop, saved, before, watermark, tab, delivered, overtaken,
                   writes, feeds, clicks>>

\* The statement or the commit fails; the sequence does not go back.
WriteFails(s) ==
    /\ writer[s].at # "idle"
    /\ writer' = [writer EXCEPT ![s] = NoWriter]
    /\ UNCHANGED <<price, nextDrop, drops, saved, before, watermark, tab, delivered,
                   overtaken, undercut, writes, feeds, clicks>>

-----------------------------------------------------------------------------
(* The user. *)

\* _SAVED_PRICE_DROPS_SQL: of a record the user saved, since he did.
Visible == IF saved THEN drops \ before ELSE {}

Newest(ids, n) == {i \in ids : Cardinality({j \in ids : j > i}) < n}

\* Mutant of Feed: one limit for read and unread together.
FeedTop(ids) == Newest(ids, FeedLimit)

\* get_price_drop_feed: every unread drop, and so much of what was read.
Feed(ids) ==
    LET unread == {i \in ids : i > watermark}
    IN  unread \cup Newest(ids \ unread, FeedLimit)

Uncommitted == {writer[s].id : s \in Source} \ {0}

\* One statement, one snapshot.
ReadFeed(t) ==
    /\ feeds < MaxFeeds /\ feeds' = feeds + 1
    /\ Visible # {}
    /\ tab' = [tab EXCEPT ![t] = Max(Feed(Visible))]
    /\ delivered' = delivered \cup Feed(Visible)
    /\ overtaken' = overtaken \cup {i \in Uncommitted : i < Max(Feed(Visible))}
    /\ UNCHANGED <<price, writer, nextDrop, drops, saved, before, watermark, undercut,
                   writes, clicks>>

\* Clamped to the latest drop the user can see, and never back.
MarkRead(t) ==
    /\ tab[t] # 0 /\ tab' = [tab EXCEPT ![t] = 0]
    /\ watermark' = IF Visible = {} THEN watermark
                    ELSE Max({watermark, Min({tab[t], Max(Visible)})})
    /\ UNCHANGED <<price, writer, nextDrop, drops, saved, before, delivered, overtaken,
                   undercut, writes, feeds, clicks>>

Click == clicks < MaxClicks /\ clicks' = clicks + 1

SaveRecord ==
    /\ Click
    /\ saved' = ~saved
    /\ before' = IF saved THEN before ELSE 1 .. nextDrop - 1
    /\ UNCHANGED <<price, writer, nextDrop, drops, watermark, tab, delivered, overtaken,
                   undercut, writes, feeds>>

\* The hourly sweep: drops expire in the order they were created.
ExpireDrop ==
    /\ Click /\ drops # {}
    /\ drops' = drops \ {Min(drops)}
    /\ UNCHANGED <<price, writer, nextDrop, saved, before, watermark, tab, delivered,
                   overtaken, undercut, writes, feeds>>

DropInit ==
    /\ price \in [Source -> Price \cup {NoPrice}]
    /\ writer = [s \in Source |-> NoWriter]
    /\ nextDrop = 1 /\ drops = {} /\ saved = TRUE /\ before = {}
    /\ watermark = 0 /\ tab = [t \in Tab |-> 0]
    /\ delivered = {} /\ overtaken = {} /\ undercut = FALSE
    /\ writes = 0 /\ feeds = 0 /\ clicks = 0

DropNext ==
    \/ \E s \in Source :
        \/ ReadFloor(s) \/ CommitPrice(s) \/ WriteFails(s)
        \/ \E new \in Price \cup {NoPrice} : WritePrice(s, new)
    \/ \E t \in Tab : ReadFeed(t) \/ MarkRead(t)
    \/ SaveRecord \/ ExpireDrop

DropSpec == DropInit /\ [][DropNext]_dropVars

-----------------------------------------------------------------------------

\* However the sources' transactions overlap, a price below every price of the record
\* that stood committed since its transaction began is recorded as a drop, if one stood
\* when it began: concurrency removes no drop from a common floor (the docstring of
\* _price_floors).  Of two first prices neither undercuts the other.
AllTimeLowIsReported == ~undercut

\* A drop the user can see and that counts as read was handed to one of his tabs, or was
\* still uncommitted when a drop with a later number was: a feed limit, a second tab, a
\* clamp, an unsave or the retention sweep never lose one.
LostOnlyToOvertaking ==
    \A i \in Visible : i <= watermark => i \in delivered \/ i \in overtaken

\* The docstring of get_price_drop_feed and the comment in _payload have it that a drop
\* which was never handed to the client cannot count as read.
NothingReadUndelivered == \A i \in Visible : i <= watermark => i \in delivered
=============================================================================
