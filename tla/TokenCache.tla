------------------------------ MODULE TokenCache ------------------------------
(***************************************************************************)
(* Tokens for Azure (api/_shared/auth_token.py, the endpoints auth_signin  *)
(* and auth_signout): one process-wide credential, account record and      *)
(* token cache, used by the threads of all requests.  Signed in locally,   *)
(* tokens come from the MSAL cache of the machine, for the account the     *)
(* credential is bound to; hosted, from the managed identity, or from the  *)
(* request itself (delegated), and then never from the cache.              *)
(***************************************************************************)
EXTENDS Sequences, FiniteSets

CONSTANTS
    Accounts,      \* accounts a user signs in with locally
    Customers,     \* whose browsers attach a token, delegated
    Identity,      \* the managed identity
    Threads,
    Default,       \* cache key of the home tenant's token
    Subs,          \* cache keys of the subscriptions' tokens
    None,
    Unbuilt        \* a credential that is not built yet

ASSUME TokenAssumption ==
    /\ Default \notin Subs
    /\ Identity \notin Accounts \cup Customers
    /\ Accounts \cap Customers = {}
    /\ {None, Unbuilt} \cap (Accounts \cup Customers \cup {Identity}) = {}
    /\ None # Unbuilt

VARIABLES
    mode,          \* LOCAL_MODE, MANAGED_IDENTITY_MODE or DELEGATED_MODE
    msal,          \* accounts in the persistent MSAL cache
    file,          \* auth_record.json
    record,        \* _auth_record
    cred,          \* _credential: the account it is bound to
    signedIn,      \* _signed_in
    cache,         \* _cache: the account a token is for
    req,           \* what a thread is doing
    user,          \* history: who signed in last, None since a sign-out
    kept,          \* history: accounts the last sign-out did not get rid of
    mixed          \* history: another account signed in without a sign-out, or a
                   \* sign-out crossed a token or a sign-in in flight

memory == <<record, cred, signedIn, cache>>
history == <<user, kept, mixed>>
tokenVars == <<mode, msal, file, memory, req, history>>

Keys == {Default} \cup Subs
Owners == Accounts \cup Customers \cup {Identity}
Bindings == Accounts \cup {None, Unbuilt}
Req == [step : {"idle", "get", "network", "store", "probe", "probing", "signin", "done"},
        todo : Seq(Keys), force : BOOLEAN, account : Owners \cup {None},
        customer : Customers \cup {None}, stale : BOOLEAN]
Waiting == [step |-> "idle", todo |-> <<>>, force |-> FALSE, account |-> None,
         customer |-> None, stale |-> FALSE]

Key(t) == Head(req[t].todo)

\* _load_auth_record(), _credentials(): built once, bound to the record.
Loaded == IF record = None THEN file ELSE record
Built == IF cred = Unbuilt THEN Loaded ELSE cred

\* A token, or an error for one key: the next key, or the request is served.
Served(t, account) ==
    IF Len(req[t].todo) = 1
    THEN [req[t] EXCEPT !.step = "done", !.account = account]
    ELSE [req[t] EXCEPT !.step = "get", !.account = None, !.todo = Tail(@)]

Failed(t) == {Waiting} \cup (IF Len(req[t].todo) = 1 THEN {} ELSE {Served(t, None)})

------------------------------------------------------------------------------
TokenInit ==
    /\ mode \in {"local", "managed", "delegated"}
    /\ msal = {}
    /\ file = None
    /\ record = None
    /\ cred = Unbuilt
    /\ signedIn = FALSE
    /\ cache = [k \in Keys |-> None]
    /\ req = [t \in Threads |-> Waiting]
    /\ user = None
    /\ kept = {}
    /\ mixed = FALSE

\* What a request asks for: the default token or a subscription's, the default one
\* first when its tenant is not known, or is to be asked for again (force);
\* list_subscriptions() asks for the default token and then for each tenant's,
\* skipping those that fail.
Wanted == {<<Default>>} \cup {<<s>> : s \in Subs} \cup {<<Default, s>> : s \in Subs}

Request(t, keys, force, customer) ==
    /\ req[t].step = "idle"
    /\ customer # None => mode = "delegated"
    /\ force => Head(keys) = Default
    /\ req' = [req EXCEPT ![t] = [Waiting EXCEPT !.step = "get", !.todo = keys,
                                  !.force = force, !.customer = customer]]
    /\ UNCHANGED <<mode, msal, file, memory, history>>

\* Fault: the delegated token goes through the cache as well.
DelegatedCached(t) ==
    /\ req[t].step = "get"
    /\ req[t].customer # None
    /\ \/ /\ cache[Key(t)] = None
          /\ cache' = [cache EXCEPT ![Key(t)] = req[t].customer]
          /\ req' = [req EXCEPT ![t] = Served(t, req[t].customer)]
       \/ /\ cache[Key(t)] # None
          /\ req' = [req EXCEPT ![t] = Served(t, cache[Key(t)])]
          /\ UNCHANGED cache
    /\ signedIn' = TRUE
    /\ UNCHANGED <<mode, msal, file, record, cred, history>>

\* get_token() with a delegated token neither reads nor writes the cache.
Delegated(t) ==
    /\ req[t].step = "get"
    /\ req[t].customer # None
    /\ req' = [req EXCEPT ![t] = Served(t, req[t].customer)]
    /\ signedIn' = TRUE
    /\ UNCHANGED <<mode, msal, file, record, cred, cache, history>>

\* A cached token that is still fresh.
HitToken(t) ==
    /\ req[t].step = "get"
    /\ req[t].customer = None
    /\ ~req[t].force
    /\ cache[Key(t)] # None
    /\ req' = [req EXCEPT ![t] = Served(t, cache[Key(t)])]
    /\ UNCHANGED <<mode, msal, file, memory, history>>

\* No token, or a stale one: _acquire() asks the managed identity, or the
\* credential when some account is known and it is the one it is bound to.
Acquire(t) ==
    /\ req[t].step = "get"
    /\ req[t].customer = None
    /\ mode # "delegated"
    /\ \/ /\ mode = "managed"
          /\ req' = [req EXCEPT ![t].step = "network", ![t].account = Identity]
          /\ UNCHANGED <<record, cred>>
       \/ /\ mode = "local"
          /\ cred' = Built
          /\ record' = IF cred = Unbuilt \/ ~signedIn THEN Loaded ELSE record
          /\ Built \in msal
          /\ req' = [req EXCEPT ![t].step = "network", ![t].account = Built]
    /\ UNCHANGED <<mode, msal, file, signedIn, cache, history>>

\* not_signed_in: the default token is then looked for once more, silently.
NotSignedIn(t) ==
    /\ req[t].step = "get"
    /\ req[t].customer = None
    /\ \/ /\ mode = "local"
          /\ Built \notin msal
          /\ cred' = Built
          /\ record' = IF cred = Unbuilt \/ ~signedIn THEN Loaded ELSE record
       \/ mode = "delegated" /\ UNCHANGED <<cred, record>>
    /\ \/ /\ Key(t) = Default
          /\ signedIn \/ cred' # Unbuilt
          /\ req' = [req EXCEPT ![t].step = "probe"]
       \/ \E r \in Failed(t) : req' = [req EXCEPT ![t] = r]
    /\ UNCHANGED <<mode, msal, file, signedIn, cache, history>>

\* The token service answers; MSAL caches the account (again); the first answer
\* of a process makes the account's record known and saves it.
Answered(t) ==
    /\ req[t].step = "network"
    /\ req' = [req EXCEPT ![t].step = "store"]
    /\ signedIn' = TRUE
    /\ IF mode = "managed" THEN UNCHANGED <<msal, record, file>>
       ELSE /\ msal' = msal \cup {req[t].account}
            /\ record' = IF record = None THEN req[t].account ELSE record
            /\ file' = IF record = None THEN req[t].account ELSE file
    /\ UNCHANGED <<mode, cred, cache, history>>

NetworkFails(t) ==
    /\ req[t].step \in {"network", "probing"}
    /\ \E r \in Failed(t) : req' = [req EXCEPT ![t] = r]
    /\ UNCHANGED <<mode, msal, file, memory, history>>

StoreToken(t) ==
    /\ req[t].step = "store"
    /\ cache' = [cache EXCEPT ![Key(t)] = req[t].account]
    /\ req' = [req EXCEPT ![t] = Served(t, req[t].account)]
    /\ UNCHANGED <<mode, msal, file, record, cred, signedIn, history>>

\* _silent_probe_token(): a credential of its own, always that of the record, as it is
\* rebuilt when the record changes.
Probe(t) ==
    /\ req[t].step = "probe"
    /\ record' = Loaded
    /\ \/ /\ Loaded \in msal
          /\ req' = [req EXCEPT ![t].step = "probing", ![t].account = Loaded]
       \/ /\ Loaded \notin msal
          /\ \E r \in Failed(t) : req' = [req EXCEPT ![t] = r]
    /\ UNCHANGED <<mode, msal, file, cred, signedIn, cache, history>>

Probed(t) ==
    /\ req[t].step = "probing"
    /\ msal' = msal \cup {req[t].account}
    /\ cache' = [cache EXCEPT ![Default] = req[t].account]
    /\ req' = [req EXCEPT ![t] = Served(t, req[t].account)]
    /\ UNCHANGED <<mode, file, record, cred, signedIn, history>>

Return(t) ==
    /\ req[t].step = "done"
    /\ req' = [req EXCEPT ![t] = Waiting]
    /\ UNCHANGED <<mode, msal, file, memory, history>>

------------------------------------------------------------------------------
\* ensure_signed_in(force=True): one at a time, in the browser, with the
\* credential there is now.
SignIn(t) ==
    /\ mode = "local"
    /\ req[t].step = "idle"
    /\ \A u \in Threads : req[u].step # "signin"
    /\ cred' = Built
    /\ record' = IF cred = Unbuilt THEN Loaded ELSE record
    /\ req' = [req EXCEPT ![t] = [Waiting EXCEPT !.step = "signin", !.todo = <<Default>>,
                                  !.force = TRUE]]
    /\ UNCHANGED <<mode, msal, file, signedIn, cache, history>>

\* authenticate() binds that credential to the account; then a forced get_token.
SignedIn(t, a) ==
    /\ req[t].step = "signin"
    /\ msal' = msal \cup {a}
    /\ cred' = IF req[t].stale THEN cred ELSE a
    /\ record' = a
    /\ file' = a
    /\ signedIn' = TRUE
    /\ req' = [req EXCEPT ![t].step = "get"]
    /\ user' = a
    /\ mixed' = (mixed \/ req[t].stale \/ user \notin {None, a})
    /\ UNCHANGED <<mode, cache, kept>>

SignInFails(t) ==
    /\ req[t].step = "signin"
    /\ req' = [req EXCEPT ![t] = Waiting]
    /\ UNCHANGED <<mode, msal, file, memory, history>>

SignedOutOf(accounts) ==
    /\ mode = "local"
    /\ msal' = msal \ accounts
    /\ cred' = Unbuilt
    /\ record' = None
    /\ signedIn' = FALSE
    /\ cache' = [k \in Keys |-> None]
    /\ req' = [t \in Threads |-> [req[t] EXCEPT !.stale = @ \/ req[t].step = "signin"]]
    /\ user' = None
    /\ UNCHANGED <<mode, file>>

InFlight == \E t \in Threads : req[t].step \in {"network", "store", "probing"}

\* Fault: the accounts stay in the MSAL cache though nothing failed.
SignOutKeepsAccounts ==
    SignedOutOf({}) /\ kept' = {} /\ mixed' = InFlight

\* sign_out(): the accounts are removed from MSAL one by one, through the
\* credential if it was built; a removal that fails ends that, silently, and the
\* rest of the sign-out is done all the same.  The saved record stays.
SignOut ==
    \E removed \in IF cred = Unbuilt THEN {{}} ELSE SUBSET msal :
        /\ SignedOutOf(removed)
        /\ kept' = msal \ removed
        /\ mixed' = InFlight

\* The process ends; the MSAL cache and the saved record remain.
Restart ==
    /\ record' = None
    /\ cred' = Unbuilt
    /\ signedIn' = FALSE
    /\ cache' = [k \in Keys |-> None]
    /\ req' = [t \in Threads |-> Waiting]
    /\ UNCHANGED <<mode, msal, file, history>>

TokenNext ==
    \/ \E t \in Threads :
        \/ \E keys \in Wanted, force \in BOOLEAN, c \in Customers \cup {None} :
              Request(t, keys, force, c)
        \/ Delegated(t) \/ HitToken(t) \/ Acquire(t) \/ NotSignedIn(t)
        \/ Answered(t) \/ NetworkFails(t) \/ StoreToken(t)
        \/ Probe(t) \/ Probed(t) \/ Return(t)
        \/ SignIn(t) \/ SignInFails(t)
        \/ \E a \in Accounts : SignedIn(t, a)
    \/ SignOut
    \/ Restart

TokenSpec == TokenInit /\ [][TokenNext]_tokenVars

------------------------------------------------------------------------------
TokenTypeOK ==
    /\ mode \in {"local", "managed", "delegated"}
    /\ msal \subseteq Accounts
    /\ file \in Accounts \cup {None}
    /\ record \in Accounts \cup {None}
    /\ cred \in Bindings
    /\ signedIn \in BOOLEAN
    /\ cache \in [Keys -> Owners \cup {None}]
    /\ req \in [Threads -> Req]
    /\ \A t \in Threads : req[t].step # "idle" => req[t].todo # <<>>
    /\ user \in Accounts \cup {None}
    /\ kept \subseteq Accounts
    /\ mixed \in BOOLEAN

\* After a sign-out that removed every account, nothing of them is left: MSAL knows
\* none, no token is cached, and no request, nor a restarted process, gets one until
\* the next sign-in.  Of accounts the sign-out failed to remove, or had no credential
\* to remove with, it is the same for all others.  (Except when a token was in
\* flight at the sign-out.)
SignedOutStaysOut ==
    mode = "local" /\ user = None /\ ~mixed =>
        /\ msal \subseteq kept
        /\ \A k \in Keys : cache[k] \in {None} \cup kept
        /\ \A t \in Threads :
              req[t].step \in {"network", "store", "probing"} => req[t].account \in kept

\* A request is served with a token of its own caller: the customer whose browser
\* attached it, the managed identity, or the user who signed in; the cache holds
\* no customer's token.  An account the last sign-out did not remove may have got
\* its token before the sign-in, and keeps it; no other account does.  (Signing in
\* as another account without a sign-out leaves the tokens of the first.)
TokensBelongToCaller ==
    LET Callers(t) == CASE mode = "delegated" -> {req[t].customer}
                        [] mode = "managed" -> {Identity}
                        [] OTHER -> {user} \cup kept
        Cacheable == CASE mode = "delegated" -> {}
                       [] mode = "managed" -> {Identity}
                       [] OTHER -> {user} \cup kept
    IN  ~mixed =>
          /\ \A k \in Keys : cache[k] \in {None} \cup Cacheable
          /\ \A t \in Threads : req[t].step = "store" \/ mode # "local" =>
                 req[t].account \in {None} \cup Callers(t)

\* The session resumes without a prompt: while the user is signed in, the saved
\* record names the account, MSAL has it, and the record and the credential in
\* memory, once there, are that account's (a sign-in that a sign-out crosses binds
\* a credential nobody uses any more).
SessionResumes ==
    user # None /\ ~mixed =>
        /\ file = user
        /\ user \in msal
        /\ record \in {None, user}
        /\ cred \in {Unbuilt, user}

\* Both: neither a token nor a resumed session is another account's.
SessionAndTokens == TokensBelongToCaller /\ SessionResumes
===============================================================================
