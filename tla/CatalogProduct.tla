--------------------------- MODULE CatalogProduct ---------------------------
(* A product of a store's listing as the catalog crawlers read it: each     *)
(* field by the answer it gives the crawler, "none", "blank", "gone" and    *)
(* "unread" standing for a field that is missing, empty or retyped so that  *)
(* the crawler reads nothing out of it.  (A retyped field that makes a      *)
(* crawler raise in mid-walk instead is one more way to fail; see           *)
(* CatalogWalk.)                                                            *)
EXTENDS FiniteSets, FiniteSetsExt

\* One entry of "variants".  Its name reads as a record, as a plain colour,
\* as another medium, as nothing or as Shopify's placeholder; "junk" is an
\* entry that is no mapping, and so carries no flag either.
Junk == [name |-> "junk", stock |-> "unread"]
Variant == [name : {"record", "plain", "other", "blank", "default"},
            stock : {"in", "out", "unread"}] \cup {Junk}

\* kind: what product_type or the tags say; credit: what vendor or the tags
\* say of the artist; format: what the rest of the title says it is.  A
\* payload may have lost any of it, on one product or on all.
Product ==
    [kind : {"record", "other", "none"},
     title : {"parses", "odd", "blank"},
     format : {"record", "other"},
     credit : {"there", "none"},
     handle : {"there", "gone"},
     price : {"sound", "zero", "unread"},
     variants : kSubset(0, Variant) \cup kSubset(1, Variant) \cup kSubset(2, Variant)]

(***************************************************************************)
(* What the crawlers share                                                 *)
(***************************************************************************)

\* The entries that are mappings.
Entries(p) == p.variants \ {Junk}

\* Those with a name in `names`; the placeholder names the only variant.
Kept(p, names) ==
    {v \in Entries(p) : \/ v.name \in names
                        \/ v.name = "default" /\ Cardinality(Entries(p)) = 1}

\* An entry that was dropped, and was not readably sold out.
UnusableDropped(p, kept) == \E v \in p.variants \ kept : v.stock # "out"

Unnamed(p) == \E v \in p.variants : v.name \in {"junk", "blank"}
InStock(variants) == \E v \in variants : v.stock = "in"
\* As `any` for `every`: one readable variant speaks for all (a bug).
FlaggedAny(variants) == variants = {} \/ \E v \in variants : v.stock # "unread"

\* Every variant says readably whether it is available.
Flagged(variants) == \A v \in variants : v.stock # "unread"

Titled(p) == p.title # "blank"
Parses(p) == p.title = "parses"
Credited(p) == p.credit = "there"
HasHandle(p) == p.handle = "there"
HasIdentity(p) == Titled(p) /\ HasHandle(p)

\* Only a title there is can say that the product is something else.
OtherFormat(p) == Titled(p) /\ p.format = "other"

HasPrice(p) == p.price = "sound"

\* What a product has lost: a field of its own, both places its artist could
\* be read in ("artist") or, of its variants, all of them ("variants"), a
\* mapping ("entries"), a name ("names", or "placeholder" where one stands
\* beside another variant) or a readable flag ("stock").
Lacks(p) ==
    [kind |-> p.kind = "none",
     title |-> ~Titled(p),
     parse |-> p.title = "odd",
     credit |-> ~Credited(p),
     artist |-> ~Parses(p) /\ ~Credited(p),
     handle |-> ~HasHandle(p),
     price |-> ~HasPrice(p),
     variants |-> p.variants = {},
     entries |-> Junk \in p.variants,
     names |-> \E v \in p.variants : v.name = "blank",
     placeholder |-> /\ Cardinality(p.variants) > 1
                     /\ \E v \in p.variants : v.name = "default",
     stock |-> ~Flagged(Entries(p))]

Lost(p) == {f \in DOMAIN Lacks(p) : Lacks(p)[f]}

\* Variant names that pass a gate asking for a vinyl word, one refusing
\* other media, and none at all.
VinylWord == {"record"}
NotOther == {"record", "plain"}
AnyName == {"record", "plain", "other"}
=============================================================================
