---------------------------- MODULE SupportSettings ----------------------------
(***************************************************************************)
(* The support settings (api/_shared/support_settings.py and its           *)
(* endpoint): one row, whose plain fields the store merges, and whose map  *)
(* of validation resource groups per subscription a save reads, changes    *)
(* and writes back as one text.                                            *)
(***************************************************************************)
EXTENDS Naturals

CONSTANTS
    Savers,        \* threads that serve a save
    Subscriptions,
    Groups,        \* resource groups
    NoGroup,       \* no entry
    MaxBroken      \* bound: failing reads

ASSUME SettingsAssumption == NoGroup \notin Groups /\ MaxBroken \in Nat

VARIABLES
    groups,        \* the map the row holds
    saver,         \* a save: the entry it changes and the map it read
    broken,        \* failing reads so far
    outrun         \* history: saves whose read another save's write followed

settingsVars == <<groups, saver, broken, outrun>>

Entry == Groups \cup {NoGroup}
Map == [Subscriptions -> Entry]
NoGroups == [s \in Subscriptions |-> NoGroup]

SettingsInit ==
    /\ groups = NoGroups
    /\ saver = [t \in Savers |-> <<>>]
    /\ broken = 0
    /\ outrun = {}

\* save_settings() reads the map, to merge one entry into it; blank removes it.
BeginSave(t, s, g) ==
    /\ saver[t] = <<>>
    /\ saver' = [saver EXCEPT ![t] = [sub |-> s, map |-> [groups EXCEPT ![s] = g]]]
    /\ outrun' = outrun \ {t}
    /\ UNCHANGED <<groups, broken>>

\* get_settings() never raises: a failing read yields the defaults, no groups.
BeginSaveBlind(t, s, g) ==
    /\ saver[t] = <<>>
    /\ broken < MaxBroken
    /\ broken' = broken + 1
    /\ saver' = [saver EXCEPT ![t] = [sub |-> s, map |-> [NoGroups EXCEPT ![s] = g]]]
    /\ outrun' = outrun \ {t}
    /\ UNCHANGED groups

\* Fault: the incoming map replaces the saved one.
FinishSaveReplacing(t) ==
    /\ saver[t] # <<>>
    /\ groups' = [NoGroups EXCEPT ![saver[t].sub] = saver[t].map[saver[t].sub]]
    /\ saver' = [saver EXCEPT ![t] = <<>>]
    /\ outrun' = outrun \cup {r \in Savers : saver[r] # <<>>}
    /\ UNCHANGED broken

FinishSave(t) ==
    /\ saver[t] # <<>>
    /\ groups' = saver[t].map
    /\ saver' = [saver EXCEPT ![t] = <<>>]
    /\ outrun' = outrun \cup {r \in Savers : saver[r] # <<>>}
    /\ UNCHANGED broken

\* The write fails, or the server stops.
AbandonSave(t) ==
    /\ saver[t] # <<>>
    /\ saver' = [saver EXCEPT ![t] = <<>>]
    /\ UNCHANGED <<groups, broken, outrun>>

SettingsNext ==
    \E t \in Savers :
        \/ \E s \in Subscriptions, g \in Entry : BeginSave(t, s, g) \/ BeginSaveBlind(t, s, g)
        \/ FinishSave(t)
        \/ AbandonSave(t)

SettingsSpec == SettingsInit /\ [][SettingsNext]_settingsVars

------------------------------------------------------------------------------
SettingsTypeOK ==
    /\ groups \in Map
    /\ saver \in [Savers -> [sub : Subscriptions, map : Map] \cup {<<>>}]
    /\ broken \in 0 .. MaxBroken
    /\ outrun \subseteq Savers

\* "Merge into the existing map (don't clobber other subscriptions)": a save
\* changes the entry of its own subscription only, unless another save wrote the
\* map since it read it, or reading the settings failed.
OthersGroupsKept ==
    [][\A t \in Savers :
          saver[t] # <<>> /\ saver'[t] = <<>> /\ t \notin outrun /\ broken = 0 =>
              \A s \in Subscriptions \ {saver[t].sub} : groups'[s] = groups[s]]_settingsVars
===============================================================================
