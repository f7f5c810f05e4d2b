---------------------------- MODULE MCComponents ----------------------------
(* Instances of the components that share no variable with another one,    *)
(* small enough for TLC.  A behaviour here is a behaviour of one of them,  *)
(* the part it picked, while the others rest: the invariants of all of     *)
(* them are checked, each on the behaviours of its own component.          *)
EXTENDS StockSync, SiteBreaker, SitePacing, QueueLanes, StrandedClaim,
        PriceDrops, ConfigCache, EventStream, SignIn, LogQueue,
        CatalogWalk

VARIABLE part

\* Crawlers 1 and 2 are one upstream.
MCDomainOf == <<1, 1, 2>>

MCUserOf == <<1, 2>>

\* Account 1 signs up twice.
MCAccountOf == <<1, 1, 2>>

parts == <<part, stockVars, siteVars, paceVars, laneVars, strandVars, dropVars,
           configVars, eventVars, signInVars, logVars, walkVars>>

\* All of them rest but p.
OthersRest(p) ==
    /\ UNCHANGED part
    /\ p # "sync" => UNCHANGED stockVars
    /\ p # "breaker" => UNCHANGED siteVars
    /\ p # "pacing" => UNCHANGED paceVars
    /\ p # "lanes" => UNCHANGED laneVars
    /\ p # "stranded" => UNCHANGED strandVars
    /\ p # "drops" => UNCHANGED dropVars
    /\ p # "config" => UNCHANGED configVars
    /\ p # "events" => UNCHANGED eventVars
    /\ p # "sign_in" => UNCHANGED signInVars
    /\ p # "log" => UNCHANGED logVars
    /\ p # "walk" => UNCHANGED walkVars

\* What rests has one initial state.
Init ==
    /\ part \in {"sync", "breaker", "pacing", "lanes", "stranded",
                 "drops", "config", "events", "sign_in", "log", "walk"}
    /\ IF part = "walk" THEN TRUE
       ELSE shop = "rhino" /\ retryLimit = 0 /\ left = 0
    /\ WalkInit
    /\ DropInit /\ (part # "drops" => Priced(price) = {})
    /\ ConfigInit
    /\ part # "config" => \A m \in ConfigMachine : legacy[m] = "none"
    /\ StockInit /\ SiteInit /\ PaceInit /\ LaneInit /\ StrandInit
    /\ EventInit /\ SignInInit /\ LogInit

Next ==
    \/ part = "sync" /\ StockNext /\ OthersRest("sync")
    \/ part = "breaker" /\ SiteNext /\ OthersRest("breaker")
    \/ part = "pacing" /\ PaceNext /\ OthersRest("pacing")
    \/ part = "lanes" /\ LaneNext /\ OthersRest("lanes")
    \/ part = "stranded" /\ StrandNext /\ OthersRest("stranded")
    \/ part = "drops" /\ DropNext /\ OthersRest("drops")
    \/ part = "config" /\ ConfigNext /\ OthersRest("config")
    \/ part = "events" /\ EventNext /\ OthersRest("events")
    \/ part = "sign_in" /\ SignInNext /\ OthersRest("sign_in")
    \/ part = "log" /\ LogNext /\ OthersRest("log")
    \/ part = "walk" /\ WalkNext /\ OthersRest("walk")

Spec == Init /\ [][Next]_parts
=============================================================================
