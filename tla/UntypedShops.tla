---------------------------- MODULE UntypedShops ----------------------------
(* The crawlers of the stores whose product_type does not tell a record     *)
(* from the rest.  For each: the variants it sells records from, whether a  *)
(* product yields rows, what reading it adds to the tallies of              *)
(* crawl_catalog (a guard asks of a tally only whether it is zero), and the *)
(* tallies on which the finished walk raises.                               *)
EXTENDS CatalogProduct

(***************************************************************************)
(* joyfulnoiserecordings.py                                                *)
(***************************************************************************)

JoyfulPressings(p) ==
    IF OtherFormat(p) THEN {} ELSE {v \in p.variants : v.name \in VinylWord}

JoyfulRows(p) ==
    HasIdentity(p) /\ Credited(p) /\ InStock(JoyfulPressings(p)) /\ HasPrice(p)

JoyfulReads(p) ==
    LET pressings == JoyfulPressings(p)
        named == pressings # {}
        known == named /\ HasIdentity(p)
    IN [products_seen |-> TRUE,
        variants_unreadable |-> p.variants = {} \/ Junk \in p.variants,
        untitled_live |-> \E v \in p.variants : v.name = "blank" /\ v.stock # "out",
        format_named |-> named,
        identity_missing |-> named /\ ~HasIdentity(p),
        artist_missing |-> known /\ ~Credited(p),
        unreadable_stock |-> known /\ Credited(p) /\ ~Flagged(pressings),
        unreadable_prices |-> /\ HasIdentity(p) /\ Credited(p)
                              /\ InStock(pressings) /\ p.price = "unread",
        yielded |-> JoyfulRows(p)]

JoyfulRefuses(n) ==
    \/ ~n.products_seen
    \/ ~n.yielded /\ n.variants_unreadable
    \/ ~n.yielded /\ n.untitled_live
    \/ ~n.format_named
    \/ /\ ~n.yielded
       /\ \/ n.unreadable_prices
          \/ n.artist_missing
          \/ n.identity_missing
          \/ n.unreadable_stock

(***************************************************************************)
(* xlrecordings.py                                                         *)
(***************************************************************************)

XLExcluded(p) == p.kind = "other" \/ p.format = "other"

XLVinyl(p) == {v \in Kept(p, AnyName) : v.name \in NotOther}

\* A placeholder is kept, but claims no format.
XLUnusable(p) ==
    \/ p.variants = {}
    \/ \E v \in Kept(p, AnyName) : v.name = "default" /\ v.stock # "out"
    \/ UnusableDropped(p, Kept(p, AnyName))

XLRows(p) ==
    /\ HasIdentity(p) /\ Credited(p) /\ ~XLExcluded(p)
    /\ InStock(XLVinyl(p))

XLReads(p) ==
    LET judged == Titled(p) /\ ~XLExcluded(p)
        claims == judged /\ ~XLUnusable(p) /\ XLVinyl(p) # {}
        known == HasIdentity(p) /\ Credited(p)
    IN [products_seen |-> TRUE,
        artist_resolved |-> Credited(p),
        claims_vinyl |-> claims,
        identity_missing |-> ~Titled(p) \/ (claims /\ ~known),
        variant_identity_missing |-> judged /\ XLUnusable(p),
        unreadable_stock |-> claims /\ known /\ ~Flagged(XLVinyl(p)),
        yielded |-> XLRows(p),
        priced |-> XLRows(p) /\ HasPrice(p)]

XLRefuses(n) ==
    \/ ~n.products_seen
    \/ n.yielded /\ ~n.priced
    \/ /\ ~n.yielded
       /\ \/ ~n.artist_resolved
          \/ n.identity_missing
          \/ n.variant_identity_missing
          \/ n.unreadable_stock
          \/ ~n.claims_vinyl

(***************************************************************************)
(* dongiovannirecords.py                                                   *)
(***************************************************************************)

DonPressings(p) == Kept(p, AnyName)

\* A descriptor of another medium, or, in a title with no album, a bundle.
DonExcluded(p) == OtherFormat(p)

DonRows(p) ==
    /\ Credited(p) /\ Parses(p) /\ ~DonExcluded(p) /\ HasIdentity(p)
    /\ InStock(DonPressings(p))

DonReads(p) ==
    LET judged == Titled(p) /\ ~DonExcluded(p)
        classified == judged /\ Credited(p) /\ Parses(p)
        known == classified /\ HasIdentity(p)
        unusable == UnusableDropped(p, DonPressings(p))
    IN [products_seen |-> TRUE,
        artist_ok |-> Credited(p),
        parsed_ok |-> Parses(p),
        sources_ok |-> Credited(p) /\ Parses(p),
        unclassifiable |-> judged /\ ~classified,
        identity_missing |-> ~Titled(p) \/ (classified /\ ~HasIdentity(p)),
        variant_identity_missing |-> known /\ unusable,
        unreadable_stock |->
            /\ known /\ ~unusable
            /\ p.variants = {} \/ ~Flagged(DonPressings(p)),
        yielded |-> DonRows(p),
        priced |-> DonRows(p) /\ HasPrice(p)]

DonRefuses(n) ==
    \/ ~n.products_seen
    \/ ~n.artist_ok
    \/ ~n.parsed_ok
    \/ ~n.sources_ok
    \/ n.yielded /\ ~n.priced
    \/ /\ ~n.yielded
       /\ \/ n.unclassifiable
          \/ n.identity_missing
          \/ n.variant_identity_missing
          \/ n.unreadable_stock

(***************************************************************************)
(* bellaunion.py                                                           *)
(***************************************************************************)

BellaPressings(p) == Kept(p, AnyName)

BellaVinyl(p) == {v \in BellaPressings(p) : v.name # "other"}

BellaClaims(p) ==
    p.kind = "record" \/ \E v \in BellaPressings(p) : v.name \in VinylWord

BellaRows(p) ==
    /\ p.kind # "other" /\ Parses(p) /\ BellaClaims(p) /\ HasIdentity(p)
    /\ InStock(BellaVinyl(p))

BellaReads(p) ==
    LET judged == Titled(p) /\ p.kind # "other"
        unusable == UnusableDropped(p, BellaPressings(p))
        claims == judged /\ ~unusable /\ BellaClaims(p)
        known == claims /\ Parses(p) /\ HasIdentity(p)
    IN [products_seen |-> TRUE,
        parsed_ok |-> Parses(p),
        unclassifiable |-> claims /\ ~Parses(p),
        identity_missing |-> ~Titled(p) \/ (claims /\ Parses(p) /\ ~HasIdentity(p)),
        variant_identity_missing |-> judged /\ unusable,
        unreadable_stock |->
            known /\ (p.variants = {} \/ ~Flagged(BellaVinyl(p))),
        yielded |-> BellaRows(p),
        priced |-> BellaRows(p) /\ HasPrice(p)]

BellaRefuses(n) ==
    \/ ~n.products_seen
    \/ ~n.parsed_ok
    \/ n.yielded /\ ~n.priced
    \/ /\ ~n.yielded
       /\ \/ n.unclassifiable
          \/ n.identity_missing
          \/ n.variant_identity_missing
          \/ n.unreadable_stock

(***************************************************************************)
(* sacredbonesrecords.py                                                   *)
(***************************************************************************)

\* The placeholder, or no name, names the only variant.
SacredPressings(p) ==
    IF p.kind = "other" THEN {}
    ELSE {v \in Entries(p) :
            \/ v.name \in NotOther
            \/ v.name \in {"blank", "default"} /\ Cardinality(p.variants) = 1}

SacredUnreadable(p) ==
    /\ p.kind # "other"
    /\ \/ p.variants = {}
       \/ \E v \in p.variants \ SacredPressings(p) : v.name # "other"

SacredRows(p) == Credited(p) /\ HasIdentity(p) /\ InStock(SacredPressings(p))

SacredReads(p) ==
    LET pressings == SacredPressings(p)
        credited == pressings # {} /\ Credited(p)
    IN [products_seen |-> TRUE,
        unreadable_variants |-> SacredUnreadable(p),
        artist_missing |-> pressings # {} /\ ~Credited(p),
        identity_missing |-> credited /\ ~HasIdentity(p),
        unreadable_stock |-> credited /\ HasIdentity(p) /\ ~Flagged(pressings),
        yielded |-> SacredRows(p),
        priced |-> SacredRows(p) /\ HasPrice(p)]

SacredRefuses(n) ==
    \/ ~n.products_seen
    \/ n.yielded /\ ~n.priced
    \/ /\ ~n.yielded
       /\ \/ n.artist_missing
          \/ n.unreadable_variants
          \/ n.identity_missing
          \/ n.unreadable_stock

(***************************************************************************)
(* earache.py                                                              *)
(***************************************************************************)

EaracheRecord(p) == Parses(p) /\ ~OtherFormat(p)

EarachePressings(p) == Kept(p, AnyName)

EaracheRows(p) ==
    EaracheRecord(p) /\ HasIdentity(p) /\ InStock(EarachePressings(p))

EaracheReads(p) ==
    LET pressings == EarachePressings(p)
    IN [products_seen |-> TRUE,
        parsed_ok |-> Parses(p),
        identity_missing |-> EaracheRecord(p) /\ ~HasIdentity(p),
        unreadable_stock |-> /\ EaracheRecord(p) /\ HasIdentity(p)
                             /\ pressings = {} \/ ~Flagged(pressings),
        yielded |-> EaracheRows(p),
        priced |-> EaracheRows(p) /\ HasPrice(p)]

EaracheRefuses(n) ==
    \/ ~n.products_seen
    \/ ~n.parsed_ok
    \/ n.yielded /\ ~n.priced
    \/ ~n.yielded /\ (n.identity_missing \/ n.unreadable_stock)
=============================================================================
