----------------------------- MODULE CatalogWalk -----------------------------
(* One crawl of a store's catalog: shopify_catalog.iter_products fetching    *)
(* page after page through catalog_http.get_with_retry, and a crawler's      *)
(* crawl_catalog reading product after product and judging, at the end,      *)
(* whether the result may be believed.  _sync_stock replaces the store's     *)
(* whole snapshot when the walk completes and leaves it alone when the walk  *)
(* raises.                                                                   *)
EXTENDS UntypedShops, TypedShops, Integers

\* The crawlers.
Shop == {"joyful", "xl", "don", "bella", "sacred", "earache", "flenser",
         "lenoise", "monorail", "trans", "matador", "counter", "iodine",
         "revolver", "mov", "spkr", "rhino"}

CONSTANTS
    Shops,          \* the crawlers looked at
    RetryLimits,    \* the values of consecutive_failure_limit looked at
    PageLimit,      \* _PAGE_LIMIT: products on a page
    MaxPage,        \* _MAX_PAGE: the last page the endpoint serves
    MaxProducts     \* bound on what a store lists

ASSUME CatalogWalkAssumption ==
    /\ Shops \subseteq Shop
    /\ RetryLimits \subseteq Nat
    /\ {PageLimit, MaxPage} \subseteq Nat \ {0}
    /\ MaxProducts \in Nat

VARIABLES
    shop,       \* the crawler
    retryLimit,
    requestFailures, \* consecutive, of the page being fetched
    page,       \* its number
    left,       \* products on the pages not read yet
    onPage,     \* products of the page not read yet
    tally,      \* the crawler's tallies that are not zero
    seen,       \* history: what the walk has read, in marks (see Marks)
    walk        \* "fetch" and "read", then how it ended

walkVars == <<shop, retryLimit, requestFailures, page, left, onPage, tally,
              seen, walk>>

(***************************************************************************)
(* The crawlers                                                            *)
(***************************************************************************)

Reads(s, p) ==
    CASE s = "joyful" -> JoyfulReads(p)
      [] s = "xl" -> XLReads(p)
      [] s = "don" -> DonReads(p)
      [] s = "bella" -> BellaReads(p)
      [] s = "sacred" -> SacredReads(p)
      [] s = "earache" -> EaracheReads(p)
      [] s = "flenser" -> FlenserReads(p)
      [] s = "lenoise" -> LeNoiseReads(p)
      [] s = "monorail" -> MonorailReads(p)
      [] s = "trans" -> TransReads(p)
      [] s = "matador" -> MatadorReads(p)
      [] s = "counter" -> CounterReads(p)
      [] s = "iodine" -> IodineReads(p)
      [] s = "revolver" -> RevolverReads(p)
      [] s = "mov" -> MusicOnVinylReads(p)
      [] s = "spkr" -> SpkrReads(p)
      [] s = "rhino" -> RhinoReads(p)

Refuses(s, n) ==
    CASE s = "joyful" -> JoyfulRefuses(n)
      [] s = "xl" -> XLRefuses(n)
      [] s = "don" -> DonRefuses(n)
      [] s = "bella" -> BellaRefuses(n)
      [] s = "sacred" -> SacredRefuses(n)
      [] s = "earache" -> EaracheRefuses(n)
      [] s = "flenser" -> FlenserRefuses(n)
      [] s = "lenoise" -> LeNoiseRefuses(n)
      [] s = "monorail" -> MonorailRefuses(n)
      [] s = "trans" -> TransRefuses(n)
      [] s = "matador" -> MatadorRefuses(n)
      [] s = "counter" -> CounterRefuses(n)
      [] s = "iodine" -> IodineRefuses(n)
      [] s = "revolver" -> RevolverRefuses(n)
      [] s = "mov" -> MusicOnVinylRefuses(n)
      [] s = "spkr" -> SpkrRefuses(n)
      [] s = "rhino" -> RhinoRefuses(n)

\* The losses for which a crawler's guards blame one product: the walk raises
\* unless another one yields rows ...
Noticed ==
    [joyful |-> {"variants", "entries", "names", "credit", "title", "handle",
                 "stock", "price"},
     xl |-> {"variants", "entries", "names", "placeholder", "credit", "title",
             "handle", "stock", "price"},
     don |-> {"variants", "entries", "names", "placeholder", "credit",
              "title", "parse", "handle", "stock", "price"},
     bella |-> {"variants", "entries", "names", "placeholder", "title",
                "parse", "handle", "stock", "price"},
     sacred |-> {"variants", "entries", "names", "placeholder", "credit",
                 "title", "handle", "stock", "price"},
     earache |-> {"variants", "entries", "names", "placeholder", "handle",
                  "stock", "price"},
     flenser |-> {"variants", "entries", "names", "placeholder", "title",
                  "handle", "stock", "price"},
     lenoise |-> {"kind", "variants", "entries", "title", "parse", "handle",
                  "stock", "price"},
     monorail |-> {"variants", "entries", "names", "artist", "title",
                   "handle", "stock", "price"},
     trans |-> {"variants", "entries", "names", "placeholder", "credit",
                "title", "handle", "stock", "price"},
     matador |-> {"title", "handle", "stock", "price"},
     counter |-> {"title", "handle", "stock", "price"},
     iodine |-> {"handle", "stock", "price"},
     revolver |-> {"kind", "variants", "entries", "names", "title", "handle",
                   "stock", "price"},
     mov |-> {"variants", "entries", "title", "handle", "stock", "price"},
     spkr |-> {"variants", "entries", "names", "placeholder", "handle",
               "stock", "price"},
     rhino |-> {"variants", "entries", "stock", "price"}]

\* ... those for which they may pass over a product, whatever it has for
\* sale: it is taken for no record, or a variant of it for none (a loss is in
\* both where it depends on the rest of the product) ...
Missed ==
    [joyful |-> {}, xl |-> {}, don |-> {}, bella |-> {"kind"}, sacred |-> {},
     earache |-> {"title", "parse", "names", "entries", "placeholder"},
     flenser |-> {"kind", "parse"}, lenoise |-> {}, monorail |-> {"kind"},
     trans |-> {"kind"},
     matador |-> {"kind", "credit", "variants", "names", "entries"},
     counter |-> {"kind", "artist", "variants", "names", "entries",
                  "placeholder"},
     iodine |-> {"kind", "title", "parse", "variants", "names", "entries",
                 "placeholder"},
     revolver |-> {"parse", "placeholder"},
     mov |-> {"kind", "credit", "entries"},
     spkr |-> {"kind", "title", "parse", "names", "entries", "placeholder"},
     rhino |-> {"kind", "credit", "entries"}]

\* ... and those of them they do notice when every product has them.
NoticedAll ==
    [joyful |-> {}, xl |-> {}, don |-> {}, bella |-> {}, sacred |-> {},
     earache |-> {"title", "parse"},
     flenser |-> {"kind", "parse"}, lenoise |-> {}, monorail |-> {"kind"},
     trans |-> {"kind"}, matador |-> {"kind", "credit", "variants"},
     counter |-> {"kind", "artist", "variants"},
     iodine |-> {"kind", "title", "parse", "variants"},
     revolver |-> {"parse"}, mov |-> {"kind", "credit"},
     spkr |-> {"kind", "title", "parse"}, rhino |-> {"kind", "credit"}]

\* Variant names a crawler takes for something that is no record.
NoRecord(s) ==
    CASE s \in {"joyful", "monorail", "matador"} -> {"plain", "default", "other"}
      [] s \in {"don", "earache", "trans", "lenoise", "mov", "rhino"} -> {}
      [] OTHER -> {"other"}

\* The kind, or the rest of the title, says that the product is no record,
\* where the crawler asks it.
NotOfRecord(s, p) ==
    \/ p.kind = "other" /\ s \notin {"joyful", "don", "earache"}
    \/ OtherFormat(p) /\ s \notin {"bella", "sacred", "monorail", "matador",
                                   "counter", "mov", "spkr", "rhino"}

\* A product that may be a record with a copy to sell, whatever it has lost.
\* (Joyful Noise writes no row of a price of zero.)
MayBeLive(s, p) ==
    /\ ~NotOfRecord(s, p)
    /\ p.price = "zero" => s # "joyful"
    /\ \/ p.variants = {}
       \/ \E v \in p.variants : v.name \notin NoRecord(s) /\ v.stock # "out"

\* Nothing says that it is no record, and a variant is one.  (xlrecordings
\* takes the placeholder for no format.)
HasRecord(s, p) ==
    /\ ~NotOfRecord(s, p)
    /\ \E v \in p.variants :
          v.name \notin NoRecord(s) \cup (IF s = "xl" THEN {"default"} ELSE {})

\* A product that is to blame though it lost nothing: of spkr, a Vinyl that
\* has only variants of other media and so no stock flag to read; of
\* xlrecordings, an available placeholder.
Misread(s, p) ==
    \/ /\ s = "spkr" /\ p.kind = "record" /\ p.variants # {}
       /\ \A v \in p.variants : v.name = "other"
    \/ s = "xl" /\ p.variants = {[name |-> "default", stock |-> "in"]}

\* A record in stock by its kind, its format and the name of a variant.
ForSale(p) ==
    /\ p.kind = "record" /\ p.format = "record" /\ HasPrice(p)
    /\ [name |-> "record", stock |-> "in"] \in p.variants

\* What is remembered of a product the walk has read.
Marks(s, p) ==
    LET lost == Lost(p)
    IN {m \in {"for_sale", "live", "record", "unsound", "misread"} :
          CASE m = "for_sale" -> ForSale(p)
            [] m = "live" -> MayBeLive(s, p) /\ lost \cap Missed[s] = {}
            [] m = "record" -> lost = {} /\ HasRecord(s, p)
            [] m = "unsound" -> lost \cap Noticed[s] # {}
            [] m = "misread" -> Misread(s, p)}
       \cup (NoticedAll[s] \ lost)

\* What a walk of shop s may make of one product.
Readings ==
    [s \in Shops |->
        {[tally |-> Reads(s, p), marks |-> Marks(s, p)] : p \in Product}]

NoTally(s) ==
    [t \in DOMAIN Reads(s, CHOOSE p \in Product : TRUE) |-> FALSE]

\* f and g, field by field.
Either(f, g) == [t \in DOMAIN f |-> f[t] \/ g[t]]

(***************************************************************************)
(* The walk                                                                *)
(***************************************************************************)

\* The end of crawl_catalog.
Finish ==
    walk' = IF Refuses(shop, tally) THEN "refused" ELSE "complete"

\* A page answers: an empty list is the end of the catalog.
PageArrives ==
    /\ walk = "fetch"
    /\ requestFailures' = 0
    /\ IF left = 0
       THEN Finish /\ UNCHANGED <<left, onPage>>
       ELSE /\ onPage' = IF left < PageLimit THEN left ELSE PageLimit
            /\ left' = left - onPage'
            /\ walk' = "read"
    /\ UNCHANGED <<shop, retryLimit, page, tally, seen>>

\* A page answers with something that is no list of products.
PageUnreadable ==
    /\ walk = "fetch"
    /\ walk' = "failed"
    /\ UNCHANGED <<shop, retryLimit, requestFailures, page, left, onPage,
                   tally, seen>>

\* A request fails: it is retried, unless the budget is used up.
RequestFails ==
    /\ walk = "fetch"
    /\ requestFailures' = requestFailures + 1
    /\ walk' = IF retryLimit = 0 \/ requestFailures' >= retryLimit
               THEN "failed" ELSE "fetch"
    /\ UNCHANGED <<shop, retryLimit, page, left, onPage, tally, seen>>

\* A 429 is not.
RequestThrottled ==
    /\ walk = "fetch"
    /\ walk' = "failed"
    /\ UNCHANGED <<shop, retryLimit, requestFailures, page, left, onPage,
                   tally, seen>>

\* The next product of the page is read.
ReadProduct ==
    /\ walk = "read" /\ onPage > 0
    /\ onPage' = onPage - 1
    /\ \E r \in Readings[shop] :
         /\ tally' = Either(tally, r.tally)
         /\ seen' = seen \cup r.marks
    /\ UNCHANGED <<shop, retryLimit, requestFailures, page, left, walk>>

\* The next entry of the page is no mapping: two crawlers count it, the
\* others raise on it.
ReadJunk ==
    /\ walk = "read" /\ onPage > 0
    /\ onPage' = onPage - 1
    /\ IF shop \in {"lenoise", "revolver"}
       THEN /\ tally' = [tally EXCEPT !.products_seen = TRUE,
                                      !.unreadable_products = TRUE]
            /\ seen' = seen \cup {"live", "unsound"}
            /\ UNCHANGED walk
       ELSE walk' = "failed" /\ UNCHANGED <<tally, seen>>
    /\ UNCHANGED <<shop, retryLimit, requestFailures, page, left>>

\* The page is read; the last page the endpoint serves ends the walk.
EndPage ==
    /\ walk = "read" /\ onPage = 0
    /\ IF page >= MaxPage
       THEN Finish /\ UNCHANGED page
       ELSE walk' = "fetch" /\ page' = page + 1
    /\ UNCHANGED <<shop, retryLimit, requestFailures, left, onPage, tally, seen>>

WalkInit ==
    /\ shop \in Shops
    /\ retryLimit \in RetryLimits
    /\ requestFailures = 0
    /\ page = 1
    /\ left \in 0..MaxProducts
    /\ onPage = 0
    /\ tally = NoTally(shop)
    /\ seen = {}
    /\ walk = "fetch"

WalkNext ==
    \/ PageArrives \/ PageUnreadable \/ RequestFails \/ RequestThrottled
    \/ ReadProduct \/ ReadJunk \/ EndPage

WalkSpec == WalkInit /\ [][WalkNext]_walkVars

(***************************************************************************)
(* What a walk promises                                                    *)
(***************************************************************************)

\* A walk replaces the store's snapshot only if it read the whole catalog,
\* or all of it that the endpoint serves, and only by rows of which some
\* have a price.  Where it found none to write, then no product it read may
\* be a record with a copy to sell, unless that product lost what the
\* crawler's guards miss on a single one (Missed: of such a product a
\* sold-out record may speak, see EmptyMeansSoldOut); and what they ask of
\* the catalog as a whole (NoticedAll) some product has kept.
ReplacedOnlyByTheCatalog ==
    walk = "complete" =>
        /\ left = 0 \/ page = MaxPage
        /\ ~tally.yielded => "live" \notin seen /\ NoticedAll[shop] \subseteq seen
        /\ "priced" \in DOMAIN tally => (tally.yielded => tally.priced)

\* A store that has sold out is believed: once a sound record is read the
\* guards raise only on a loss they count (Noticed), or on a product they
\* misread (Misread); else the old snapshot, with what it says is in stock,
\* would stay.  Variants of other media, Shopify's placeholder, products
\* that are no records and losses the crawler does not look at do not make
\* it raise.
SoldOutIsBelieved ==
    walk = "refused" =>
        "record" \notin seen \/ {"unsound", "misread"} \cap seen # {}

\* What spkr.py says of its guards (and rhino.py of its own): a walk without
\* rows is believed only when every product that could have yielded one was
\* readable and out of stock, so that one sold-out product does not vouch for
\* a record that is for sale and was not read.
EmptyMeansSoldOut ==
    walk = "complete" /\ ~tally.yielded => "for_sale" \notin seen
=============================================================================
