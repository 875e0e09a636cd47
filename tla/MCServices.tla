------------------------------ MODULE MCServices ------------------------------
(***************************************************************************)
(* Small instances of the services around an analysis: tickets, settings,  *)
(* tokens, custom entries, datasets, BOMs, the check of services and the   *)
(* table of regions.  They share no state, so each behaviour runs one of   *)
(* them, one of Parts, and what is checked of one holds trivially while    *)
(* another runs.                                                           *)
(***************************************************************************)
EXTENDS SupportTickets, SupportSettings, TokenCache, CatalogCache, DatasetStore,
        BomDefinitions, ServiceCheck, RegionModel, TLC

CONSTANT Parts

\* Regions at rest offer every family in every zone.
ASSUME RestAssumption == Zones \in SkuRows

VARIABLE part

vars == <<part, ticketVars, settingsVars, tokenVars, catalogVars, datasetVars,
          bomVars, checkVars, regionVars>>

\* Two regions with a published latency each way, one that only has a distance and
\* a list made by hand.
MCLatency ==
    [p \in Places |-> [a \in Places |->
        CASE <<p, a>> \in {<<1, 3>>, <<2, 1>>} -> 5 [] <<p, a>> = <<2, 3>> -> 3 [] OTHER -> Unknown]]
MCCurated == [p \in Places |-> IF p = 3 THEN <<2>> ELSE <<>>]
MCDistance == [p \in Places |-> [a \in Places |-> IF 2 \in {p, a} THEN 7 ELSE 9]]
MCContinent == [p \in Places |-> IF p = 1 THEN "west" ELSE "east"]
MCProviderOf == [t \in Types |-> CHOOSE p \in Providers : TRUE]
MCOrigin == [content \in Contents |-> IF content = "fetched" THEN "url" ELSE "upload"]
MCServiceOf == [s \in Services |-> CHOOSE v \in Services : v \notin UNION Asked]
MCFootprints == {Unlisted, {}, {"global"}, Regions} \cup {{r} : r \in Regions}

\* A part that does not run stays in one of its first states.
NoGaps ==
    /\ missing = [p \in Places |-> 0]
    /\ supported = [p \in Places |-> TRUE]
    /\ skus = [p \in Places |-> [q \in Requirements |-> [primary |-> Zones, alt |-> Zones]]]

Init ==
    /\ part \in Parts
    /\ SettingsInit /\ CatalogInit /\ DatasetInit
    /\ TicketsInit /\ (part # "tickets" => demo)
    /\ TokenInit /\ (part # "tokens" => mode = "local")
    /\ BomInit /\ (part # "boms" => \A b \in Boms : boms[b] = Gone)
    /\ CheckInit /\ (part # "check" => /\ known = {}
                                      /\ \A t \in Types : sites[t] = {}
                                      /\ \A r \in Regions : zonesAt[r] = Zones
                                      /\ wanted = {})
    /\ IF part = "regions" THEN RegionInit ELSE NoGaps

Next ==
    \/ /\ part = "tickets" /\ TicketsNext
       /\ UNCHANGED <<settingsVars, tokenVars, catalogVars, datasetVars, bomVars, checkVars, regionVars>>
    \/ /\ part = "settings" /\ SettingsNext
       /\ UNCHANGED <<ticketVars, tokenVars, catalogVars, datasetVars, bomVars, checkVars, regionVars>>
    \/ /\ part = "tokens" /\ TokenNext
       /\ UNCHANGED <<ticketVars, settingsVars, catalogVars, datasetVars, bomVars, checkVars, regionVars>>
    \/ /\ part = "entries" /\ CatalogNext
       /\ UNCHANGED <<ticketVars, settingsVars, tokenVars, datasetVars, bomVars, checkVars, regionVars>>
    \/ /\ part = "datasets" /\ DatasetNext
       /\ UNCHANGED <<ticketVars, settingsVars, tokenVars, catalogVars, bomVars, checkVars, regionVars>>
    \/ /\ part = "boms" /\ BomNext
       /\ UNCHANGED <<ticketVars, settingsVars, tokenVars, catalogVars, datasetVars, checkVars, regionVars>>
    \/ /\ part = "check" /\ CheckNext
       /\ UNCHANGED <<ticketVars, settingsVars, tokenVars, catalogVars, datasetVars, bomVars, regionVars>>
    \/ /\ part = "regions" /\ RegionNext
       /\ UNCHANGED <<ticketVars, settingsVars, tokenVars, catalogVars, datasetVars, bomVars, checkVars>>

Spec == Init /\ [][Next /\ UNCHANGED part]_vars

\* Of the part that runs; the others stay as they are.
TypeOK ==
    CASE part = "tickets" -> TicketsTypeOK
      [] part = "settings" -> SettingsTypeOK
      [] part = "tokens" -> TokenTypeOK
      [] part = "entries" -> CatalogTypeOK
      [] part = "datasets" -> DatasetTypeOK
      [] part = "boms" -> BomTypeOK
      [] part = "check" -> CheckTypeOK
      [] OTHER -> RegionTypeOK

\* Threads are alike, and so are the names of tickets, the accounts and the users.
Symmetry == Permutations(Threads) \cup Permutations(Names)
===============================================================================
