----------------------------- MODULE TypedShops -----------------------------
(* The crawlers of the stores whose product_type says which products are    *)
(* records (or music).  As UntypedShops: per crawler its variants, its      *)
(* rows, its tallies and its guards.                                        *)
EXTENDS CatalogProduct

OfRecordKind(p) == p.kind = "record"

(***************************************************************************)
(* theflenser.py                                                           *)
(***************************************************************************)

FlenserRecord(p) == OfRecordKind(p) /\ Parses(p) /\ ~OtherFormat(p)

FlenserPressings(p) ==
    {v \in Entries(p) : \/ v.name \in NotOther
                        \/ (v.name = "default" /\ Cardinality(p.variants) = 1)}

\* What _classify_variants could not read.
FlenserUnread(p) ==
    {v \in p.variants \ FlenserPressings(p) : v.name # "other"}

FlenserRows(p) ==
    FlenserRecord(p) /\ HasIdentity(p) /\ InStock(FlenserPressings(p))

FlenserReads(p) ==
    LET record == FlenserRecord(p)
        pressings == FlenserPressings(p)
    IN [products_seen |-> TRUE,
        vinyl_typed |-> OfRecordKind(p),
        parsed |-> OfRecordKind(p) /\ Parses(p),
        format_ok |-> record,
        identity_missing |-> \/ OfRecordKind(p) /\ ~Titled(p)
                             \/ record /\ ~HasIdentity(p),
        unnamed_pressings |-> record /\ \E v \in FlenserUnread(p) : v.stock # "out",
        sold_out_pressings |-> record /\ \E v \in FlenserUnread(p) : v.stock = "out",
        record_variants_seen |-> record /\ pressings # {},
        unreadable_stock |-> record /\ ~Flagged(pressings),
        variantless_records |-> record /\ p.variants = {},
        yielded |-> FlenserRows(p),
        priced |-> FlenserRows(p) /\ HasPrice(p)]

FlenserRefuses(n) ==
    \/ ~n.products_seen
    \/ ~n.vinyl_typed
    \/ /\ ~n.yielded
       /\ \/ n.identity_missing
          \/ n.variantless_records
          \/ n.unnamed_pressings
          \/ n.unreadable_stock
    \/ n.yielded /\ ~n.priced
    \/ ~n.parsed
    \/ ~n.format_ok
    \/ ~n.record_variants_seen /\ ~n.sold_out_pressings

(***************************************************************************)
(* lenoise.py: one row per product, of an available variant                *)
(***************************************************************************)

LeNoiseRecord(p) == OfRecordKind(p) /\ ~OtherFormat(p)

LeNoiseRows(p) ==
    LeNoiseRecord(p) /\ HasIdentity(p) /\ Parses(p) /\ InStock(Entries(p))

LeNoiseReads(p) ==
    LET record == LeNoiseRecord(p)
        readable == p.variants # {} /\ Junk \notin p.variants
        known == record /\ readable /\ HasIdentity(p)
    IN [products_seen |-> TRUE,
        unreadable_products |-> FALSE,
        unreadable_kind |-> p.kind = "none",
        vinyl_typed |-> OfRecordKind(p),
        records |-> record,
        unreadable_variants |-> record /\ ~readable,
        identity_missing |-> record /\ readable /\ ~HasIdentity(p),
        artist_missing |-> known /\ ~Parses(p),
        unreadable_stock |-> known /\ Parses(p) /\ ~Flagged(Entries(p)),
        yielded |-> LeNoiseRows(p),
        priced |-> LeNoiseRows(p) /\ HasPrice(p)]

LeNoiseRefuses(n) ==
    \/ ~n.products_seen
    \/ ~n.yielded /\ (n.unreadable_products \/ n.unreadable_kind)
    \/ ~n.vinyl_typed
    \/ ~n.records
    \/ /\ ~n.yielded
       /\ \/ n.unreadable_variants
          \/ n.identity_missing
          \/ n.artist_missing
          \/ n.unreadable_stock
    \/ n.yielded /\ ~n.priced

(***************************************************************************)
(* monorailmusic.py                                                        *)
(***************************************************************************)

MonorailPressings(p) == {v \in p.variants : v.name \in VinylWord}

\* The title's first half, or the only tag.
MonorailCredited(p) == Parses(p) \/ Credited(p)

\* _items does not ask for the kind: crawl_catalog skipped the others.
MonorailRows(p) ==
    /\ OfRecordKind(p) /\ HasIdentity(p) /\ MonorailCredited(p)
    /\ InStock(MonorailPressings(p))

MonorailReads(p) ==
    LET pressings == MonorailPressings(p)
        vinyl == OfRecordKind(p) /\ pressings # {}
        known == vinyl /\ HasIdentity(p)
    IN [products_seen |-> TRUE,
        music_seen |-> OfRecordKind(p),
        unreadable_variants |-> OfRecordKind(p) /\ (p.variants = {} \/ Unnamed(p)),
        vinyl_products |-> vinyl,
        identity_missing |-> vinyl /\ ~HasIdentity(p),
        artist_missing |-> known /\ ~MonorailCredited(p),
        unreadable_stock |-> known /\ MonorailCredited(p) /\ ~Flagged(pressings),
        yielded |-> MonorailRows(p),
        priced |-> MonorailRows(p) /\ HasPrice(p)]

MonorailRefuses(n) ==
    \/ ~n.products_seen
    \/ ~n.music_seen
    \/ ~n.yielded /\ n.unreadable_variants
    \/ ~n.vinyl_products
    \/ n.yielded /\ ~n.priced
    \/ /\ ~n.yielded
       /\ \/ n.artist_missing
          \/ n.identity_missing
          \/ n.unreadable_stock

(***************************************************************************)
(* translationloss.py                                                      *)
(***************************************************************************)

TransRecord(p) == OfRecordKind(p) /\ ~OtherFormat(p)

TransPressings(p) == Kept(p, AnyName)

TransRows(p) ==
    /\ TransRecord(p) /\ Credited(p) /\ HasIdentity(p)
    /\ InStock(TransPressings(p))

TransReads(p) ==
    LET pressings == TransPressings(p)
        unread == p.variants # pressings
        credited == TransRecord(p) /\ Credited(p)
    IN [products_seen |-> TRUE,
        type_ok |-> OfRecordKind(p),
        vinyl_typed |-> TransRecord(p),
        artist_missing |-> TransRecord(p) /\ ~Credited(p),
        artist_ok |-> credited,
        pressings_seen |-> credited /\ pressings # {},
        pressings_missing |-> credited /\ p.variants = {},
        identity_missing |-> credited /\ ~HasIdentity(p),
        unreadable_stock |->
            credited /\ HasIdentity(p) /\ (unread \/ ~Flagged(pressings)),
        yielded |-> TransRows(p),
        priced |-> TransRows(p) /\ HasPrice(p)]

TransRefuses(n) ==
    \/ ~n.products_seen
    \/ ~n.type_ok
    \/ ~n.vinyl_typed
    \/ ~n.artist_ok
    \/ ~n.pressings_seen
    \/ n.yielded /\ ~n.priced
    \/ /\ ~n.yielded
       /\ \/ n.artist_missing
          \/ n.pressings_missing
          \/ n.identity_missing
          \/ n.unreadable_stock

(***************************************************************************)
(* matadorrecords.py, counterintuitiverecords.py, iodinerecords.py: one    *)
(* ladder of tallies and one ladder of guards                              *)
(***************************************************************************)

Ladder(p, typed, credited, vinyl, rows) ==
    LET known == typed /\ credited /\ vinyl # {}
    IN [products_seen |-> TRUE,
        typed |-> typed,
        artist_ok |-> typed /\ credited,
        vinyl_seen |-> known,
        identity_missing |-> known /\ ~HasIdentity(p),
        unreadable_stock |-> known /\ HasIdentity(p) /\ ~Flagged(vinyl),
        yielded |-> rows,
        priced |-> rows /\ HasPrice(p)]

LadderRows(p, typed, credited, vinyl) ==
    typed /\ credited /\ HasIdentity(p) /\ InStock(vinyl)

MatadorVinyl(p) == {v \in p.variants : v.name \in VinylWord}

MatadorRows(p) ==
    LadderRows(p, OfRecordKind(p), Credited(p), MatadorVinyl(p))

MatadorReads(p) ==
    Ladder(p, OfRecordKind(p), Credited(p), MatadorVinyl(p), MatadorRows(p))

MatadorRefuses(n) ==
    \/ ~n.products_seen
    \/ ~n.typed
    \/ ~n.artist_ok
    \/ ~n.vinyl_seen
    \/ n.yielded /\ ~n.priced
    \/ ~n.yielded /\ (n.identity_missing \/ n.unreadable_stock)

CounterVinyl(p) == Kept(p, NotOther)

\* The title's first half, or the vendor.
CounterCredited(p) == Parses(p) \/ Credited(p)

CounterRows(p) ==
    LadderRows(p, OfRecordKind(p), CounterCredited(p), CounterVinyl(p))

CounterReads(p) ==
    Ladder(p, OfRecordKind(p), CounterCredited(p), CounterVinyl(p), CounterRows(p))

CounterRefuses(n) ==
    \/ ~n.products_seen
    \/ ~n.typed
    \/ ~n.artist_ok
    \/ ~n.vinyl_seen
    \/ n.yielded /\ ~n.priced
    \/ ~n.yielded /\ (n.identity_missing \/ n.unreadable_stock)

\* The format is a tag here.
IodineVinyl(p) == IF p.format = "other" THEN {} ELSE Kept(p, NotOther)

IodineRows(p) == LadderRows(p, OfRecordKind(p), Parses(p), IodineVinyl(p))

IodineReads(p) ==
    Ladder(p, OfRecordKind(p), Parses(p), IodineVinyl(p), IodineRows(p))

IodineRefuses(n) ==
    \/ ~n.products_seen
    \/ ~n.typed
    \/ ~n.artist_ok
    \/ ~n.vinyl_seen
    \/ n.yielded /\ ~n.priced
    \/ ~n.yielded /\ (n.identity_missing \/ n.unreadable_stock)

(***************************************************************************)
(* revolver.py                                                             *)
(***************************************************************************)

RevolverUnread(p) == p.kind = "none" \/ (OfRecordKind(p) /\ ~Titled(p))

RevolverOnShelf(p) == OfRecordKind(p) /\ Parses(p) /\ ~OtherFormat(p)

RevolverVinyl(p) == Kept(p, NotOther)

RevolverRows(p) ==
    RevolverOnShelf(p) /\ HasHandle(p) /\ InStock(RevolverVinyl(p))

RevolverReads(p) ==
    LET vinyl == RevolverVinyl(p)
        record == RevolverOnShelf(p) /\ vinyl # {}
    IN [products_seen |-> TRUE,
        unreadable_products |-> RevolverUnread(p),
        vinyl_typed |-> OfRecordKind(p) /\ Titled(p),
        artist_ok |-> OfRecordKind(p) /\ Parses(p),
        unreadable_variants |->
            RevolverOnShelf(p) /\ (p.variants = {} \/ Unnamed(p)),
        records |-> record,
        identity_missing |-> record /\ ~HasHandle(p),
        unreadable_stock |-> record /\ HasHandle(p) /\ ~Flagged(vinyl),
        yielded |-> RevolverRows(p),
        priced |-> RevolverRows(p) /\ HasPrice(p)]

RevolverRefuses(n) ==
    \/ ~n.products_seen
    \/ ~n.yielded /\ n.unreadable_products
    \/ ~n.vinyl_typed
    \/ ~n.artist_ok
    \/ ~n.yielded /\ n.unreadable_variants
    \/ ~n.records
    \/ ~n.yielded /\ (n.identity_missing \/ n.unreadable_stock)
    \/ n.yielded /\ ~n.priced

(***************************************************************************)
(* musiconvinyl.py, spkr.py, rhino.py: a record is its type and a credit,  *)
(* and every variant (of spkr's, every pressing) is one                    *)
(***************************************************************************)

Tallied(typed, credited, known, variants, rows, p) ==
    [products_seen |-> TRUE,
     vinyl_seen |-> typed,
     artist_ok |-> typed /\ credited,
     identity_missing |-> typed /\ credited /\ ~known,
     unreadable_stock |-> /\ typed /\ credited /\ known
                          /\ variants = {} \/ ~Flagged(variants),
     yielded |-> rows,
     priced |-> rows /\ HasPrice(p)]

MusicOnVinylRows(p) ==
    OfRecordKind(p) /\ Credited(p) /\ HasIdentity(p) /\ InStock(Entries(p))

MusicOnVinylReads(p) ==
    Tallied(OfRecordKind(p), Credited(p), HasIdentity(p), Entries(p),
            MusicOnVinylRows(p), p)

SpkrPressings(p) == Kept(p, NotOther)

SpkrRows(p) ==
    OfRecordKind(p) /\ Parses(p) /\ HasIdentity(p) /\ InStock(SpkrPressings(p))

SpkrReads(p) ==
    Tallied(OfRecordKind(p), Parses(p), HasIdentity(p), SpkrPressings(p),
            SpkrRows(p), p)

RhinoRows(p) == OfRecordKind(p) /\ Credited(p) /\ InStock(Entries(p))

\* No guard on the identity.
RhinoReads(p) ==
    Tallied(OfRecordKind(p), Credited(p), TRUE, Entries(p), RhinoRows(p), p)

\* The guard on prices without its "yielded" (a bug).
MusicOnVinylRefusesUnsold(n) ==
    \/ ~n.products_seen
    \/ ~n.vinyl_seen
    \/ ~n.artist_ok
    \/ ~n.priced
    \/ ~n.yielded /\ (n.identity_missing \/ n.unreadable_stock)

MusicOnVinylRefuses(n) ==
    \/ ~n.products_seen
    \/ ~n.vinyl_seen
    \/ ~n.artist_ok
    \/ n.yielded /\ ~n.priced
    \/ ~n.yielded /\ (n.identity_missing \/ n.unreadable_stock)

SpkrRefuses(n) == MusicOnVinylRefuses(n)

RhinoRefuses(n) ==
    \/ ~n.products_seen
    \/ ~n.vinyl_seen
    \/ ~n.artist_ok
    \/ n.yielded /\ ~n.priced
    \/ ~n.yielded /\ n.unreadable_stock
=============================================================================
