---------------------------- MODULE Services_proofs ----------------------------
(***************************************************************************)
(* Proofs about the services together, each as one part of MCServices: a   *)
(* behaviour of the whole is one of every part, for any values of the      *)
(* constants, so that what is proved of a part holds of the whole.         *)
(***************************************************************************)
EXTENDS MCServices, AzureAccess_proofs, ReferenceData_proofs

------------------------------------------------------------------------------
\* A step of the whole is a step of each part, or leaves the part alone.
LEMMA PartSteps ==
    ASSUME [Next /\ UNCHANGED part]_vars
    PROVE  /\ [TicketsNext]_ticketVars /\ [SettingsNext]_settingsVars
           /\ [TokenNext]_tokenVars /\ [CatalogNext]_catalogVars
           /\ [DatasetNext]_datasetVars /\ [BomNext]_bomVars
           /\ [CheckNext]_checkVars /\ [RegionNext]_regionVars
  BY DEF Next, vars

\* The state in which the table of regions rests is one of its first states.
LEMMA RestingRegions == NoGaps => RegionInit
  BY RestAssumption, RegionAssumption DEF NoGaps, RegionInit, Pairs

\* A behaviour of the whole is a behaviour of every service: what one does
\* disturbs no other, and a service at rest is in one of its first states.
THEOREM ServicesCompose ==
    Spec => /\ TicketsSpec /\ SettingsSpec /\ TokenSpec /\ CatalogSpec
            /\ DatasetSpec /\ BomSpec /\ CheckSpec /\ RegionSpec
<1>1. Init => /\ TicketsInit /\ SettingsInit /\ TokenInit /\ CatalogInit
              /\ DatasetInit /\ BomInit /\ CheckInit /\ RegionInit
  BY RestingRegions DEF Init
<1> QED
  BY <1>1, PartSteps, PTL DEF Spec, TicketsSpec, SettingsSpec, TokenSpec, CatalogSpec,
     DatasetSpec, BomSpec, CheckSpec, RegionSpec

ServicesTyped ==
    /\ TicketsTypeOK /\ SettingsTypeOK /\ TokenTypeOK /\ CatalogTypeOK
    /\ DatasetTypeOK /\ BomTypeOK /\ CheckTypeOK /\ RegionTypeOK

\* Whichever part runs, its state stays in its types, and so does the state of the
\* services that rest.
THEOREM TypeCorrect == Spec => [](ServicesTyped /\ TypeOK)
<1>1. Spec => []ServicesTyped
  BY ServicesCompose, TicketsTypeCorrect, SettingsTypeCorrect, TokenTypeCorrect,
     CatalogTypeCorrect, DatasetTypeCorrect, BomTypeCorrect, CheckTypeCorrect,
     RegionTypeCorrect, PTL DEF ServicesTyped
<1>2. ServicesTyped => TypeOK
  BY DEF ServicesTyped, TypeOK
<1> QED
  BY <1>1, <1>2, PTL

\* Every service keeps what it promises while any other runs: nothing one of them
\* does is needed, or in the way, for another.
THEOREM ServicesSound ==
    Spec => /\ []Tracked /\ []FiledTwiceOnlyAfterLostAnswer /\ StatusOnlyAdvances
            /\ OthersGroupsKept
            /\ []SignedOutStaysOut /\ []SessionAndTokens
            /\ []EntriesSound
            /\ []LoadersSeeWholeFiles /\ []ProvenanceTrue
            /\ []SavesAsRead /\ ImportRestores
            /\ []MarksBacked
            /\ []AlternativesHelp
  BY ServicesCompose, TicketsTracked, FiledOnce, StatusAdvances, SettingsMerged,
     SignOutHolds, TokensAndSession, EntriesAreSound, WholeFiles, ProvenanceHolds,
     SavedAsRead, ImportPutsBack, MarksAreBacked, AlternativesAreBetter, PTL
================================================================================
