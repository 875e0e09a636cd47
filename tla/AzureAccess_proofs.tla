------------------------- MODULE AzureAccess_proofs --------------------------
(***************************************************************************)
(* Proofs about what a request needs of Azure: the token it calls with     *)
(* (TokenCache), the check of the services (ServiceCheck), and the tickets *)
(* filed there with their settings (SupportTickets, SupportSettings).      *)
(***************************************************************************)
EXTENDS TokenCache, ServiceCheck, SupportSettings, SupportTickets,
        SequenceTheorems, FiniteSetTheorems, TLAPS

------------------------------------------------------------------------------
(***************************************************************************)
(* Proofs about the token cache, for any accounts, customers, threads and  *)
(* subscriptions.                                                          *)
(*                                                                         *)
(* What the properties say of a moment they owe to what a request in       *)
(* flight will do: Session says for which account it asks, Hosted that     *)
(* elsewhere than on a user's machine no account is known at all.          *)
(***************************************************************************)
Asking(t) == req[t].step \in {"network", "store", "probing"}

\* A token is asked for the user, or for an account that was not removed before he
\* signed in.
Rightful(t) ==
    \/ req[t].account = user
    \/ req[t].account \in kept /\ (user = None \/ record = user)

\* Nobody is signed in: nothing is known, and nothing is on its way, but of accounts
\* that were not removed.
SignedOutNow ==
    /\ msal \subseteq kept
    /\ \A k \in Keys : cache[k] \in {None} \cup kept
    /\ \A t \in Threads : Asking(t) => Rightful(t)

\* Somebody is: everything else is his.
SignedInNow ==
    /\ file = user
    /\ user \in msal
    /\ record \in {None, user}
    /\ cred \in {Unbuilt, user}
    /\ \A k \in Keys : cache[k] \in {None, user} \cup kept
    /\ \A t \in Threads : Asking(t) => Rightful(t)

Session ==
    mode = "local" =>
        /\ \A t \in Threads : /\ req[t].customer = None
                              /\ Asking(t) => req[t].account \in Accounts
        /\ ~mixed /\ user = None => SignedOutNow
        /\ ~mixed /\ user # None => SignedInNow

Hosted ==
    mode # "local" =>
        /\ msal = {} /\ file = None /\ record = None /\ user = None /\ ~mixed
        /\ \A t \in Threads : req[t].step \notin {"signin", "probing"}
        /\ mode = "managed" =>
              /\ \A k \in Keys : cache[k] \in {None, Identity}
              /\ \A t \in Threads : /\ req[t].customer = None
                                    /\ req[t].account \in {None, Identity}
                                    /\ Asking(t) => req[t].account = Identity
        /\ mode = "delegated" =>
              /\ \A k \in Keys : cache[k] = None
              /\ \A t \in Threads : /\ req[t].account \in {None, req[t].customer}
                                    /\ ~Asking(t)

TokenInv == TokenTypeOK /\ Session /\ Hosted

------------------------------------------------------------------------------
LEMMA WaitingType == /\ Waiting \in Req /\ Waiting.step = "idle" /\ Waiting.account = None
                     /\ Waiting.customer = None
  BY DEF Waiting, Req

\* A request that has keys left looks at the first.
LEMMA KeyType ==
    ASSUME TokenTypeOK, NEW t \in Threads, req[t].step # "idle"
    PROVE  Key(t) \in Keys /\ req[t] \in Req
  <1>1. req[t] \in Req /\ req[t].todo \in Seq(Keys) /\ req[t].todo # <<>>
    BY DEF TokenTypeOK, Req
  <1> QED
    BY <1>1 DEF Key

\* A request after one of its keys: served, or on to the next.
LEMMA ServedFacts ==
    ASSUME TokenTypeOK, NEW t \in Threads, req[t].step # "idle", NEW a \in Owners \cup {None}
    PROVE  /\ Served(t, a) \in Req
           /\ Served(t, a).step \in {"done", "get"}
           /\ Served(t, a).todo # <<>>
           /\ Served(t, a).account \in {None, a}
           /\ Served(t, a).customer = req[t].customer
  <1>1. req[t] \in Req /\ req[t].todo \in Seq(Keys) /\ req[t].todo # <<>>
    BY DEF TokenTypeOK, Req
  <1>2. CASE Len(req[t].todo) = 1
    BY <1>1, <1>2 DEF Served, Req
  <1>3. CASE Len(req[t].todo) # 1
    <2>1. Len(req[t].todo) \in Nat \ {0}
      BY <1>1, EmptySeq
    <2>2. /\ Tail(req[t].todo) \in Seq(Keys)
          /\ Len(Tail(req[t].todo)) = Len(req[t].todo) - 1
      BY <1>1, HeadTailProperties
    <2>3. Len(Tail(req[t].todo)) # 0
      BY <1>3, <2>1, <2>2
    <2>4. Tail(req[t].todo) # <<>>
      BY <2>3, EmptySeq
    <2> QED
      BY <1>1, <1>3, <2>2, <2>4 DEF Served, Req
  <1> QED
    BY <1>2, <1>3

LEMMA FailedFacts ==
    ASSUME TokenTypeOK, NEW t \in Threads, req[t].step # "idle", NEW r \in Failed(t)
    PROVE  /\ r \in Req
           /\ r.step \in {"idle", "done", "get"}
           /\ r.step # "idle" => r.todo # <<>>
           /\ r.account = None
           /\ r.customer \in {None, req[t].customer}
  <1>1. r = Waiting \/ r = Served(t, None)
    BY DEF Failed
  <1> QED
    BY <1>1, WaitingType, ServedFacts

------------------------------------------------------------------------------
\* One thread moves on, everything else stays.
LEMMA ThreadMoves ==
    ASSUME TokenInv, NEW t \in Threads, NEW q \in Req,
           req' = [req EXCEPT ![t] = q],
           UNCHANGED <<mode, user, kept, mixed>>,
           msal \subseteq msal', msal' \subseteq Accounts,
           mixed \/ msal' \subseteq msal \cup {user} \cup kept,
           file' = file \/ file' = user \/ mixed \/ user = None, file' \in Accounts \cup {None},
           msal' # msal \/ file' # file => mode = "local",
           record' \in {None, user} \/ mixed \/ user = None,
           record # None => record' = record,
           record' \in Accounts \cup {None}, record' # None => mode = "local",
           cred' \in {Unbuilt, user} \/ mixed \/ user = None, cred' \in Bindings,
           signedIn' \in BOOLEAN,
           cache' \in [Keys -> Owners \cup {None}],
           \A k \in Keys : cache'[k] # cache[k] =>
               Asking(t) /\ cache'[k] = req[t].account,
           q.step # "idle" => q.todo # <<>>,
           q.customer # None => mode = "delegated",
           q.step = "signin" => mode = "local",
           q.step \in {"network", "store", "probing"} =>
               \/ mode = "managed" /\ q.account = Identity /\ q.step # "probing"
               \/ /\ mode = "local" /\ q.account \in Accounts
                  /\ \/ mixed \/ q.account = user
                     \/ q.account \in kept /\ (user = None \/ record' = user),
           mode = "managed" => q.account \in {None, Identity},
           mode = "delegated" => q.account \in {None, q.customer}
    PROVE  TokenInv'
  <1>1. /\ req' \in [Threads -> Req] /\ req'[t] = q
        /\ \A u \in Threads \ {t} : req'[u] = req[u]
    BY DEF TokenInv, TokenTypeOK
  <1>2. TokenTypeOK'
    BY <1>1 DEF TokenInv, TokenTypeOK
  <1>3. Session'
    <2> SUFFICES ASSUME mode = "local" PROVE Session'
      BY DEF Session
    <2>1. \A u \in Threads : /\ req'[u].customer = None
                             /\ Asking(u)' => req'[u].account \in Accounts
      BY <1>1 DEF TokenInv, Session, Asking
    <2>2. ~mixed /\ user = None => SignedOutNow'
      <3> SUFFICES ASSUME ~mixed, user = None PROVE SignedOutNow'
        OBVIOUS
      <3>1. SignedOutNow /\ None \notin Accounts
        BY TokenAssumption DEF TokenInv, Session
      <3>2. \A u \in Threads : Asking(u) => req[u].account \in kept
        BY <3>1 DEF TokenInv, Session, SignedOutNow, Rightful
      <3>3. msal' \subseteq kept /\ \A k \in Keys : cache'[k] \in {None} \cup kept
        BY <3>1, <3>2 DEF SignedOutNow
      <3>4. ASSUME NEW u \in Threads, Asking(u)' PROVE req'[u].account \in kept
        <4>1. CASE u = t
          BY <1>1, <3>1, <3>4, <4>1 DEF Asking
        <4>2. CASE u # t
          BY <1>1, <3>2, <3>4, <4>2 DEF Asking
        <4> QED
          BY <4>1, <4>2
      <3> QED
        BY <3>3, <3>4 DEF SignedOutNow, Rightful
    <2>3. ~mixed /\ user # None => SignedInNow'
      <3> SUFFICES ASSUME ~mixed, user # None PROVE SignedInNow'
        OBVIOUS
      <3>1. SignedInNow
        BY DEF TokenInv, Session
      <3>2. file' = user /\ user \in msal' /\ record' \in {None, user} /\ cred' \in {Unbuilt, user}
        BY <3>1 DEF SignedInNow
      <3>3. \A k \in Keys : cache'[k] \in {None, user} \cup kept
        BY <3>1 DEF SignedInNow, Rightful
      <3>4. ASSUME NEW u \in Threads, Asking(u)' PROVE Rightful(u)'
        <4>1. CASE u = t
          BY <1>1, <3>4, <4>1 DEF Asking, Rightful
        <4>2. CASE u # t
          <5>1. Rightful(u) /\ req'[u] = req[u]
            BY <1>1, <3>1, <3>4, <4>2 DEF Asking, SignedInNow
          <5>2. record = user => record' = user
            OBVIOUS
          <5> QED
            BY <5>1, <5>2 DEF Rightful
        <4> QED
          BY <4>1, <4>2
      <3> QED
        BY <3>2, <3>3, <3>4 DEF SignedInNow
    <2> QED
      BY <2>1, <2>2, <2>3 DEF Session
  <1>4. Hosted'
    BY <1>1 DEF TokenInv, Hosted, Asking
  <1> QED
    BY <1>2, <1>3, <1>4 DEF TokenInv

LEMMA RequestKeeps ==
    ASSUME TokenInv, NEW t \in Threads, NEW keys \in Wanted, NEW force \in BOOLEAN,
           NEW c \in Customers \cup {None}, Request(t, keys, force, c)
    PROVE  TokenInv'
  <1> DEFINE q == [Waiting EXCEPT !.step = "get", !.todo = keys, !.force = force, !.customer = c]
  <1>1. keys \in Seq(Keys) /\ keys # <<>>
    <2>1. CASE keys = <<Default>>
      BY <2>1 DEF Keys
    <2>2. ASSUME NEW s \in Subs, keys = <<s>> \/ keys = <<Default, s>>
          PROVE  keys \in Seq(Keys) /\ keys # <<>>
      <3>1. Default \in Keys /\ s \in Keys
        BY DEF Keys
      <3>2. CASE keys = <<s>>
        BY <3>1, <3>2
      <3>3. CASE keys = <<Default, s>>
        BY <3>1, <3>3
      <3> QED
        BY <2>2, <3>2, <3>3
    <2> QED
      BY <2>1, <2>2 DEF Wanted
  <1>2. /\ q \in Req /\ q.step = "get" /\ q.todo # <<>> /\ q.customer = c /\ q.account = None
    BY <1>1 DEF Waiting, Req
  <1>3. req' = [req EXCEPT ![t] = q]
    BY DEF Request
  <1> HIDE DEF q
  <1>4. /\ UNCHANGED <<mode, msal, file, record, cred, signedIn, cache, user, kept, mixed>>
        /\ c # None => mode = "delegated"
    BY DEF Request, memory, history
  <1> QED
    BY <1>2, <1>3, <1>4, ThreadMoves DEF TokenInv, TokenTypeOK, Session, SignedInNow, Hosted

\* What the credential is, or would be, bound to.
LEMMA BoundFacts ==
    ASSUME TokenInv
    PROVE  /\ Loaded \in Accounts \cup {None} /\ Built \in Accounts \cup {None}
           /\ mode = "local" /\ ~mixed /\ user # None => Loaded = user /\ Built = user
           /\ mode = "local" /\ ~mixed /\ user = None => msal \subseteq kept
           /\ record # None => Loaded = record
           /\ mode # "local" => Loaded = None /\ msal = {}
  BY TokenAssumption DEF TokenInv, TokenTypeOK, Bindings, Session, SignedInNow, SignedOutNow,
                         Hosted, Loaded, Built

\* What ThreadMoves asks of a memory that stays as it is.
LEMMA MemoryFacts ==
    ASSUME TokenInv
    PROVE  /\ msal \subseteq Accounts
           /\ record \in {None, user} \/ mixed \/ user = None
           /\ record \in Accounts \cup {None}
           /\ record # None => mode = "local"
           /\ cred \in {Unbuilt, user} \/ mixed \/ user = None
           /\ cred \in Bindings /\ signedIn \in BOOLEAN
           /\ cache \in [Keys -> Owners \cup {None}]
           /\ file \in Accounts \cup {None}
           /\ mode \in {"local", "managed", "delegated"}
  BY DEF TokenInv, TokenTypeOK, Session, SignedInNow, Hosted

\* What is known of a request.
LEMMA RequestFacts ==
    ASSUME TokenInv, NEW t \in Threads
    PROVE  /\ req[t] \in Req
           /\ req[t].step # "idle" => req[t].todo # <<>>
           /\ req[t].customer \in Customers \cup {None}
           /\ req[t].customer # None => mode = "delegated"
           /\ req[t].account \in Owners \cup {None}
           /\ mode = "managed" => req[t].account \in {None, Identity}
           /\ mode = "delegated" => req[t].account \in {None, req[t].customer}
           /\ req[t].step \in {"signin", "probing"} => mode = "local"
           /\ Asking(t) =>
                 \/ mode = "managed" /\ req[t].account = Identity
                 \/ /\ mode = "local" /\ req[t].account \in Accounts
                    /\ mixed \/ Rightful(t)
  <1>1. req[t] \in Req
    BY DEF TokenInv, TokenTypeOK
  <1>2. mode = "local" => req[t].customer = None
    BY DEF TokenInv, Session
  <1>3. mode = "managed" => req[t].customer = None
    BY DEF TokenInv, Hosted
  <1>4. mode \in {"local", "managed", "delegated"}
    BY DEF TokenInv, TokenTypeOK
  <1>5. Asking(t) => \/ mode = "managed" /\ req[t].account = Identity
                     \/ /\ mode = "local" /\ req[t].account \in Accounts
                        /\ mixed \/ Rightful(t)
    BY <1>4 DEF TokenInv, Session, SignedInNow, SignedOutNow, Hosted
  <1> QED
    BY <1>1, <1>2, <1>3, <1>4, <1>5 DEF TokenInv, TokenTypeOK, Hosted, Req

\* The thread is done with a key, as DelegatedKeeps to ProbedKeeps need it.
LEMMA ServedMoves ==
    ASSUME TokenInv, NEW t \in Threads, req[t].step # "idle",
           NEW q, \/ q \in Failed(t)
                  \/ \E a \in Owners \cup {None} :
                        /\ q = Served(t, a)
                        /\ mode = "managed" => a \in {None, Identity}
                        /\ mode = "delegated" => a \in {None, req[t].customer}
    PROVE  /\ q \in Req
           /\ q.step # "idle" => q.todo # <<>>
           /\ q.customer # None => mode = "delegated"
           /\ q.step \in {"idle", "get", "done"}
           /\ mode = "managed" => q.account \in {None, Identity}
           /\ mode = "delegated" => q.account \in {None, q.customer}
  <1>1. TokenTypeOK
    BY DEF TokenInv
  <1>2. CASE q \in Failed(t)
    BY <1>1, <1>2, FailedFacts, RequestFacts
  <1>3. ASSUME NEW a \in Owners \cup {None}, q = Served(t, a),
               mode = "managed" => a \in {None, Identity},
               mode = "delegated" => a \in {None, req[t].customer}
        PROVE  /\ q \in Req
               /\ q.step # "idle" => q.todo # <<>>
               /\ q.customer # None => mode = "delegated"
               /\ q.step \in {"idle", "get", "done"}
               /\ mode = "managed" => q.account \in {None, Identity}
               /\ mode = "delegated" => q.account \in {None, q.customer}
    BY <1>1, <1>3, ServedFacts, RequestFacts
  <1> QED
    BY <1>2, <1>3

LEMMA DelegatedKeeps ==
    ASSUME TokenInv, NEW t \in Threads, Delegated(t)
    PROVE  TokenInv'
  <1>1. /\ req[t].customer \in Owners /\ mode = "delegated" /\ req[t].step # "idle"
        /\ req' = [req EXCEPT ![t] = Served(t, req[t].customer)]
    BY RequestFacts DEF Delegated, Owners
  <1>2. UNCHANGED <<mode, msal, file, record, cred, cache, user, kept, mixed>> /\ signedIn' \in BOOLEAN
    BY DEF Delegated, history
  <1>3. PICK q : q = Served(t, req[t].customer)
    OBVIOUS
  <1>4. /\ q \in Req /\ q.step \in {"idle", "get", "done"} /\ q.todo # <<>>
        /\ q.account \in {None, q.customer} /\ (q.customer # None => mode = "delegated")
    BY <1>1, <1>3, ServedMoves, ServedFacts DEF TokenInv
  <1> QED
    BY <1>1, <1>2, <1>3, <1>4, ThreadMoves, MemoryFacts

LEMMA HitTokenKeeps ==
    ASSUME TokenInv, NEW t \in Threads, HitToken(t)
    PROVE  TokenInv'
  <1>1. /\ req[t].step # "idle" /\ Key(t) \in Keys /\ cache[Key(t)] # None
        /\ req' = [req EXCEPT ![t] = Served(t, cache[Key(t)])]
    BY KeyType DEF HitToken, TokenInv
  <1>2. UNCHANGED <<mode, msal, file, record, cred, signedIn, cache, user, kept, mixed>>
    BY DEF HitToken, memory, history
  <1>3. /\ cache[Key(t)] \in Owners \cup {None} /\ mode # "delegated"
        /\ mode = "managed" => cache[Key(t)] \in {None, Identity}
    BY <1>1 DEF TokenInv, TokenTypeOK, Hosted
  <1>4. PICK q : q = Served(t, cache[Key(t)])
    OBVIOUS
  <1>5. /\ q \in Req /\ q.step \in {"idle", "get", "done"} /\ (q.step # "idle" => q.todo # <<>>)
        /\ (mode = "managed" => q.account \in {None, Identity})
        /\ (q.customer # None => mode = "delegated")
    BY <1>1, <1>3, <1>4, ServedMoves
  <1> QED
    BY <1>1, <1>2, <1>3, <1>4, <1>5, ThreadMoves, MemoryFacts

LEMMA NetworkFailsKeeps ==
    ASSUME TokenInv, NEW t \in Threads, NetworkFails(t)
    PROVE  TokenInv'
  <1>1. req[t].step # "idle"
    BY DEF NetworkFails
  <1>2. UNCHANGED <<mode, msal, file, record, cred, signedIn, cache, user, kept, mixed>>
    BY DEF NetworkFails, memory, history
  <1>3. PICK q \in Failed(t) : req' = [req EXCEPT ![t] = q]
    BY DEF NetworkFails
  <1>4. /\ q \in Req /\ q.step \in {"idle", "get", "done"} /\ (q.step # "idle" => q.todo # <<>>)
        /\ (mode = "managed" => q.account \in {None, Identity})
        /\ (mode = "delegated" => q.account \in {None, q.customer})
        /\ (q.customer # None => mode = "delegated")
    BY <1>1, <1>3, ServedMoves
  <1> QED
    BY <1>2, <1>3, <1>4, ThreadMoves, MemoryFacts

LEMMA StoreTokenKeeps ==
    ASSUME TokenInv, NEW t \in Threads, StoreToken(t)
    PROVE  TokenInv'
  <1>1. /\ req[t].step # "idle" /\ Asking(t) /\ Key(t) \in Keys
        /\ cache' = [cache EXCEPT ![Key(t)] = req[t].account]
        /\ req' = [req EXCEPT ![t] = Served(t, req[t].account)]
    BY KeyType DEF StoreToken, Asking, TokenInv
  <1>2. UNCHANGED <<mode, msal, file, record, cred, signedIn, user, kept, mixed>>
    BY DEF StoreToken, history
  <1>3. /\ req[t].account \in Owners \cup {None} /\ mode # "delegated"
        /\ mode = "managed" => req[t].account \in {None, Identity}
    BY <1>1, RequestFacts
  <1>4. PICK q : q = Served(t, req[t].account)
    OBVIOUS
  <1>5. /\ q \in Req /\ q.step \in {"idle", "get", "done"} /\ (q.step # "idle" => q.todo # <<>>)
        /\ (mode = "managed" => q.account \in {None, Identity})
        /\ (q.customer # None => mode = "delegated")
    BY <1>1, <1>3, <1>4, ServedMoves
  <1>6. /\ cache' \in [Keys -> Owners \cup {None}]
        /\ \A k \in Keys : cache'[k] # cache[k] => Asking(t) /\ cache'[k] = req[t].account
    BY <1>1, <1>3, MemoryFacts
  <1> QED
    BY <1>1, <1>2, <1>3, <1>4, <1>5, <1>6, ThreadMoves, MemoryFacts

LEMMA AcquireKeeps ==
    ASSUME TokenInv, NEW t \in Threads, Acquire(t)
    PROVE  TokenInv'
  <1>1. /\ req[t] \in Req /\ req[t].todo # <<>> /\ req[t].customer = None
        /\ UNCHANGED <<mode, msal, file, signedIn, cache, user, kept, mixed>>
    BY RequestFacts DEF Acquire, history
  <1>2. PICK a \in Accounts \cup {Identity} :
          /\ req' = [req EXCEPT ![t].step = "network", ![t].account = a]
          /\ \/ /\ mode = "managed" /\ a = Identity
                /\ UNCHANGED <<record, cred>>
             \/ /\ mode = "local" /\ a = Built /\ a \in msal
                /\ cred' = Built
                /\ record' \in {Loaded, record}
    BY BoundFacts, MemoryFacts DEF Acquire
  <1> DEFINE q == [req[t] EXCEPT !.step = "network", !.account = a]
  <1>3. /\ q \in Req /\ q.step = "network" /\ q.account = a /\ q.todo # <<>>
        /\ q.customer = None
    BY <1>1 DEF Req, Owners
  <1>4. req' = [req EXCEPT ![t] = q]
    BY <1>2
  <1> HIDE DEF q
  <1>5. /\ record' \in {None, user} \/ mixed \/ user = None
        /\ record' \in Accounts \cup {None}
        /\ record' # None => mode = "local"
        /\ cred' \in {Unbuilt, user} \/ mixed \/ user = None
        /\ cred' \in Bindings
    BY <1>2, BoundFacts, MemoryFacts DEF Bindings
  <1>6. \/ mode = "managed" /\ q.account = Identity
        \/ /\ mode = "local" /\ q.account \in Accounts
           /\ \/ mixed \/ q.account = user
              \/ q.account \in kept /\ user = None
    BY <1>2, <1>3, BoundFacts, MemoryFacts
  <1>7. record # None => record' = record
    BY <1>2, BoundFacts
  <1> QED
    BY <1>1, <1>2, <1>3, <1>4, <1>5, <1>6, <1>7, ThreadMoves, MemoryFacts

LEMMA NotSignedInKeeps ==
    ASSUME TokenInv, NEW t \in Threads, NotSignedIn(t)
    PROVE  TokenInv'
  <1>1. /\ req[t] \in Req /\ req[t].todo # <<>> /\ req[t].step # "idle"
        /\ req[t].customer = None /\ mode \in {"local", "delegated"}
        /\ UNCHANGED <<mode, msal, file, signedIn, cache, user, kept, mixed>>
    BY RequestFacts DEF NotSignedIn, history
  <1>2. \/ mode = "local" /\ cred' = Built /\ record' \in {Loaded, record}
        \/ UNCHANGED <<cred, record>>
    BY DEF NotSignedIn
  <1>3. /\ record' \in {None, user} \/ mixed \/ user = None
        /\ record' \in Accounts \cup {None}
        /\ record' # None => mode = "local"
        /\ cred' \in {Unbuilt, user} \/ mixed \/ user = None
        /\ cred' \in Bindings
        /\ record # None => record' = record
    BY <1>1, <1>2, BoundFacts, MemoryFacts DEF Bindings
  <1>4. PICK q \in Req :
          /\ req' = [req EXCEPT ![t] = q]
          /\ q.step \in {"probe", "idle", "get", "done"}
          /\ q.step # "idle" => q.todo # <<>>
          /\ q.customer # None => mode = "delegated"
          /\ mode = "delegated" => q.account \in {None, q.customer}
    <2>1. CASE req' = [req EXCEPT ![t].step = "probe"]
      <3> DEFINE q == [req[t] EXCEPT !.step = "probe"]
      <3>1. /\ q \in Req /\ q.step = "probe" /\ q.todo # <<>> /\ q.customer = None
            /\ q.account = req[t].account
        BY <1>1 DEF Req
      <3>2. req' = [req EXCEPT ![t] = q]
        BY <2>1
      <3>3. mode = "delegated" => q.account \in {None, q.customer}
        BY <3>1, <1>1, RequestFacts
      <3> HIDE DEF q
      <3> QED
        BY <3>1, <3>2, <3>3
    <2>2. ASSUME NEW q \in Failed(t), req' = [req EXCEPT ![t] = q]
          PROVE  /\ q \in Req /\ q.step \in {"idle", "get", "done"}
                 /\ q.step # "idle" => q.todo # <<>>
                 /\ q.customer # None => mode = "delegated"
                 /\ mode = "delegated" => q.account \in {None, q.customer}
      BY <1>1, <2>2, ServedMoves
    <2> QED
      BY <2>1, <2>2 DEF NotSignedIn
  <1> QED
    BY <1>1, <1>3, <1>4, ThreadMoves, MemoryFacts

LEMMA AnsweredKeeps ==
    ASSUME TokenInv, NEW t \in Threads, Answered(t)
    PROVE  TokenInv'
  <1> DEFINE q == [req[t] EXCEPT !.step = "store"]
             a == req[t].account
  <1>1. /\ req[t] \in Req /\ req[t].todo # <<>> /\ Asking(t) /\ req[t].step = "network"
        /\ UNCHANGED <<mode, cred, cache, user, kept, mixed>> /\ signedIn' = TRUE
        /\ mode \in {"local", "managed", "delegated"}
    BY RequestFacts, MemoryFacts DEF Answered, Asking, history
  <1>2. /\ q \in Req /\ q.step = "store" /\ q.account = a /\ q.todo # <<>>
        /\ q.customer = req[t].customer
    BY <1>1 DEF Req
  <1>3. req' = [req EXCEPT ![t] = q]
    BY DEF Answered
  <1> HIDE DEF q
  <1>4. \/ mode = "managed" /\ a = Identity
        \/ mode = "local" /\ a \in Accounts /\ (mixed \/ Rightful(t))
    BY <1>1, RequestFacts
  <1>5. CASE mode = "managed"
    <2>1. UNCHANGED <<msal, record, file>>
      BY <1>5 DEF Answered
    <2> QED
      BY <1>1, <1>2, <1>3, <1>4, <1>5, <2>1, RequestFacts, ThreadMoves, MemoryFacts
  <1>6. CASE mode = "local"
    <2>1. a \in Accounts
      BY <1>4, <1>6
    <2>2. /\ msal' = msal \cup {a}
          /\ record' = IF record = None THEN a ELSE record
          /\ file' = IF record = None THEN a ELSE file
      BY <1>6 DEF Answered
    <2>3. /\ user \in Accounts \cup {None} /\ None \notin Accounts
          /\ mixed \/ a = user \/ (a \in kept /\ (user = None \/ record = user))
      BY <1>4, <1>6, TokenAssumption DEF TokenInv, TokenTypeOK, Rightful
    <2>4. /\ msal \subseteq msal' /\ msal' \subseteq Accounts
          /\ mixed \/ msal' \subseteq msal \cup {user} \cup kept
          /\ file' = file \/ file' = user \/ mixed \/ user = None
          /\ file' \in Accounts \cup {None}
          /\ record' \in {None, user} \/ mixed \/ user = None
          /\ record' \in Accounts \cup {None}
          /\ record # None => record' = record
      BY <2>1, <2>2, <2>3, MemoryFacts
    <2>5. \/ mixed \/ q.account = user
          \/ q.account \in kept /\ (user = None \/ record' = user)
      BY <1>2, <2>2, <2>3
    <2> QED
      BY <1>1, <1>2, <1>3, <1>6, <2>1, <2>4, <2>5, RequestFacts, ThreadMoves, MemoryFacts
  <1> QED
    BY <1>4, <1>5, <1>6

LEMMA ProbeKeeps ==
    ASSUME TokenInv, NEW t \in Threads, Probe(t)
    PROVE  TokenInv'
  <1>1. /\ req[t] \in Req /\ req[t].todo # <<>> /\ req[t].step = "probe"
        /\ record' = Loaded
        /\ UNCHANGED <<mode, msal, file, cred, signedIn, cache, user, kept, mixed>>
    BY RequestFacts DEF Probe, history
  <1>2. /\ record' \in {None, user} \/ mixed \/ user = None
        /\ record' \in Accounts \cup {None}
        /\ record' # None => mode = "local"
        /\ record # None => record' = record
    <2>1. mode # "local" => user = None /\ Loaded = None
      BY BoundFacts DEF TokenInv, Hosted
    <2> QED
      BY <1>1, <2>1, BoundFacts DEF Bindings
  <1>3. CASE Loaded \in msal
    <2> DEFINE q == [req[t] EXCEPT !.step = "probing", !.account = Loaded]
    <2>1. Loaded \in Accounts /\ mode = "local" /\ req[t].customer = None
      <3>1. Loaded \in Accounts /\ mode = "local"
        BY <1>3, BoundFacts, MemoryFacts
      <3> QED
        BY <3>1, RequestFacts
    <2>2. /\ q \in Req /\ q.step = "probing" /\ q.account = Loaded /\ q.todo # <<>>
          /\ q.customer = None
      BY <1>1, <2>1 DEF Req, Owners
    <2>3. req' = [req EXCEPT ![t] = q]
      BY <1>3 DEF Probe
    <2>4. mixed \/ Loaded = user \/ (Loaded \in kept /\ user = None)
      BY <1>3, <2>1, BoundFacts
    <2> HIDE DEF q
    <2> QED
      BY <1>1, <1>2, <2>1, <2>2, <2>3, <2>4, ThreadMoves, MemoryFacts
  <1>4. ASSUME NEW q \in Failed(t), req' = [req EXCEPT ![t] = q]
        PROVE  TokenInv'
    <2>1. /\ q \in Req /\ q.step \in {"idle", "get", "done"} /\ (q.step # "idle" => q.todo # <<>>)
          /\ (mode = "managed" => q.account \in {None, Identity})
          /\ (mode = "delegated" => q.account \in {None, q.customer})
          /\ (q.customer # None => mode = "delegated")
      BY <1>1, ServedMoves
    <2> QED
      BY <1>1, <1>2, <1>4, <2>1, ThreadMoves, MemoryFacts
  <1> QED
    BY <1>3, <1>4 DEF Probe

LEMMA ProbedKeeps ==
    ASSUME TokenInv, NEW t \in Threads, Probed(t)
    PROVE  TokenInv'
  <1> DEFINE a == req[t].account
  <1>1. /\ req[t].step = "probing" /\ Asking(t) /\ mode = "local" /\ a \in Accounts
        /\ mixed \/ a = user \/ a \in kept
        /\ UNCHANGED <<mode, file, record, cred, signedIn, user, kept, mixed>>
        /\ msal' = msal \cup {a} /\ cache' = [cache EXCEPT ![Default] = a]
        /\ req' = [req EXCEPT ![t] = Served(t, a)]
    BY RequestFacts DEF Probed, Asking, Rightful, history
  <1>2. PICK q : q = Served(t, a)
    OBVIOUS
  <1>3. /\ q \in Req /\ q.step \in {"idle", "get", "done"} /\ (q.step # "idle" => q.todo # <<>>)
        /\ (q.customer # None => mode = "delegated")
    BY <1>1, <1>2, ServedMoves DEF Owners
  <1>4. /\ cache' \in [Keys -> Owners \cup {None}]
        /\ \A k \in Keys : cache'[k] # cache[k] => Asking(t) /\ cache'[k] = a
        /\ msal \subseteq msal' /\ msal' \subseteq Accounts
    BY <1>1, MemoryFacts DEF Owners
  <1>5. \A k \in Keys : cache'[k] # cache[k] => Asking(t) /\ cache'[k] = req[t].account
    BY <1>4
  <1>6. req' = [req EXCEPT ![t] = q]
    BY <1>1, <1>2
  <1> HIDE DEF a
  <1>7. /\ (msal' # msal \/ file' # file => mode = "local")
        /\ (mixed \/ msal' \subseteq msal \cup {user} \cup kept)
        /\ file' = file \/ file' = user \/ mixed \/ user = None
        /\ file' \in Accounts \cup {None}
        /\ (record # None => record' = record)
    BY <1>1, MemoryFacts
  <1>8. /\ record' \in {None, user} \/ mixed \/ user = None
        /\ record' \in Accounts \cup {None} /\ (record' # None => mode = "local")
        /\ cred' \in {Unbuilt, user} \/ mixed \/ user = None
        /\ cred' \in Bindings /\ signedIn' \in BOOLEAN
    BY <1>1, MemoryFacts
  <1>9. /\ (q.step = "signin" => mode = "local")
        /\ q.step \notin {"network", "store", "probing"}
        /\ mode # "managed" /\ mode # "delegated"
        /\ UNCHANGED <<mode, user, kept, mixed>>
    BY <1>1, <1>3
  <1> QED
    BY <1>3, <1>4, <1>5, <1>6, <1>7, <1>8, <1>9, ThreadMoves

LEMMA WaitKeeps ==
    ASSUME TokenInv, NEW t \in Threads, Return(t) \/ SignInFails(t)
    PROVE  TokenInv'
  <1>1. /\ req' = [req EXCEPT ![t] = Waiting]
        /\ UNCHANGED <<mode, msal, file, record, cred, signedIn, cache, user, kept, mixed>>
    BY DEF Return, SignInFails, memory, history
  <1> QED
    BY <1>1, WaitingType, ThreadMoves, MemoryFacts

LEMMA SignInKeeps ==
    ASSUME TokenInv, NEW t \in Threads, SignIn(t)
    PROVE  TokenInv'
  <1> DEFINE q == [Waiting EXCEPT !.step = "signin", !.todo = <<Default>>, !.force = TRUE]
  <1>1. <<Default>> \in Seq(Keys) /\ <<Default>> # <<>>
    BY DEF Keys
  <1>2. q \in Req /\ q.step = "signin" /\ q.todo # <<>> /\ q.customer = None
    BY <1>1 DEF Waiting, Req
  <1>3. /\ req' = [req EXCEPT ![t] = q] /\ mode = "local"
        /\ cred' = Built /\ record' \in {Loaded, record}
        /\ UNCHANGED <<mode, msal, file, signedIn, cache, user, kept, mixed>>
    BY DEF SignIn, history
  <1> HIDE DEF q
  <1>4. /\ record' \in {None, user} \/ mixed \/ user = None
        /\ record' \in Accounts \cup {None}
        /\ cred' \in {Unbuilt, user} \/ mixed \/ user = None
        /\ cred' \in Bindings
        /\ record # None => record' = record
    BY <1>3, BoundFacts, MemoryFacts DEF Bindings
  <1> QED
    BY <1>2, <1>3, <1>4, ThreadMoves, MemoryFacts

------------------------------------------------------------------------------
\* The steps that begin and end a session.
LEMMA SignedInKeeps ==
    ASSUME TokenInv, NEW t \in Threads, NEW a \in Accounts, SignedIn(t, a)
    PROVE  TokenInv'
  <1> DEFINE q == [req[t] EXCEPT !.step = "get"]
  <1>1. /\ req[t] \in Req /\ req[t].todo # <<>> /\ mode = "local"
        /\ req[t].customer = None /\ req[t].stale \in BOOLEAN
    BY RequestFacts DEF SignedIn, Req
  <1>2. q \in Req /\ q.step = "get" /\ q.todo # <<>> /\ q.customer = None
    BY <1>1 DEF Req
  <1>3. /\ req' = [req EXCEPT ![t] = q]
        /\ UNCHANGED <<mode, cache, kept>>
        /\ msal' = msal \cup {a} /\ record' = a /\ file' = a /\ user' = a /\ signedIn' = TRUE
        /\ cred' = IF req[t].stale THEN cred ELSE a
        /\ mixed' = (mixed \/ req[t].stale \/ user \notin {None, a})
    BY DEF SignedIn
  <1> HIDE DEF q
  <1>4. /\ req' \in [Threads -> Req] /\ req'[t] = q
        /\ \A u \in Threads \ {t} : req'[u] = req[u]
    BY <1>2, <1>3 DEF TokenInv, TokenTypeOK
  <1>5. TokenTypeOK'
    BY <1>1, <1>2, <1>3, <1>4 DEF TokenInv, TokenTypeOK, Bindings
  <1>6. \A u \in Threads : req'[u].customer = None /\ (Asking(u)' => req'[u].account \in Accounts)
    BY <1>1, <1>2, <1>4 DEF TokenInv, Session, Asking
  <1>7. a # None
    BY TokenAssumption
  <1>8. ASSUME ~mixed'
        PROVE  SignedInNow'
    <2>1. ~mixed /\ ~req[t].stale /\ user \in {None, a} /\ cred' = a
      BY <1>1, <1>3, <1>8
    <2>2. /\ \A k \in Keys : cache[k] \in {None, a} \cup kept
          /\ \A u \in Threads : Asking(u) => req[u].account \in {a} \cup kept
      BY <1>1, <1>7, <2>1, TokenAssumption
         DEF TokenInv, Session, SignedOutNow, SignedInNow, Rightful
    <2>3. \A u \in Threads : Asking(u)' => Rightful(u)'
      BY <1>2, <1>3, <1>4, <2>2 DEF Asking, Rightful
    <2> QED
      BY <1>3, <2>1, <2>2, <2>3 DEF SignedInNow
  <1>9. Session' /\ Hosted'
    BY <1>1, <1>3, <1>6, <1>7, <1>8 DEF Session, Hosted
  <1> QED
    BY <1>5, <1>9 DEF TokenInv

LEMMA SignOutKeeps ==
    ASSUME TokenInv, SignOut
    PROVE  TokenInv'
  <1>1. /\ mode = "local" /\ user' = None /\ record' = None /\ cred' = Unbuilt
        /\ signedIn' = FALSE /\ msal' \subseteq msal /\ kept' = msal'
        /\ cache' = [k \in Keys |-> None]
        /\ req' = [t \in Threads |-> [req[t] EXCEPT !.stale = @ \/ req[t].step = "signin"]]
        /\ UNCHANGED <<mode, file>>
        /\ mixed' = InFlight
    BY DEF SignOut, SignedOutOf
  <1>2. \A t \in Threads : /\ req'[t] \in Req /\ req'[t].step = req[t].step
                           /\ req'[t].todo = req[t].todo /\ req'[t].account = req[t].account
                           /\ req'[t].customer = req[t].customer
    BY <1>1, RequestFacts DEF Req
  <1>3. req' \in [Threads -> Req] /\ mixed' \in BOOLEAN
    <2>1. mixed' \in BOOLEAN
      BY <1>1 DEF InFlight
    <2> QED
      BY <1>1, <1>2, <2>1
  <1>4. TokenTypeOK'
    BY <1>1, <1>2, <1>3 DEF TokenInv, TokenTypeOK, Bindings
  <1>5. ~mixed' => SignedOutNow'
    <2> SUFFICES ASSUME ~ InFlight PROVE SignedOutNow'
      BY <1>1
    <2>1. \A t \in Threads : ~ Asking(t)'
      BY <1>2 DEF Asking, InFlight
    <2> QED
      BY <1>1, <2>1 DEF SignedOutNow
  <1>6. \A u \in Threads : req'[u].customer = None /\ (Asking(u)' => req'[u].account \in Accounts)
    BY <1>1, <1>2 DEF TokenInv, Session, Asking
  <1>7. Session' /\ Hosted'
    BY <1>1, <1>5, <1>6 DEF Session, Hosted
  <1> QED
    BY <1>4, <1>7 DEF TokenInv

LEMMA RestartKeepsTokens ==
    ASSUME TokenInv, Restart
    PROVE  TokenInv'
  <1>1. /\ record' = None /\ cred' = Unbuilt /\ signedIn' = FALSE
        /\ cache' = [k \in Keys |-> None] /\ req' = [t \in Threads |-> Waiting]
        /\ UNCHANGED <<mode, msal, file, user, kept, mixed>>
    BY DEF Restart, history
  <1>2. TokenTypeOK'
    BY <1>1, WaitingType DEF TokenInv, TokenTypeOK, Bindings
  <1>3. \A t \in Threads : /\ req'[t].step = "idle" /\ req'[t].account = None
                           /\ req'[t].customer = None /\ ~Asking(t)'
    BY <1>1, WaitingType DEF Asking
  <1>4. Session'
    BY <1>1, <1>3 DEF TokenInv, Session, SignedOutNow, SignedInNow, Rightful
  <1>5. Hosted'
    BY <1>1, <1>3 DEF TokenInv, Hosted
  <1> QED
    BY <1>2, <1>4, <1>5 DEF TokenInv

LEMMA TokenInitInv == TokenInit => TokenInv
  <1> SUFFICES ASSUME TokenInit PROVE TokenInv
    OBVIOUS
  <1>1. TokenTypeOK
    BY WaitingType DEF TokenInit, TokenTypeOK, Bindings
  <1>2. \A t \in Threads : /\ req[t].step = "idle" /\ req[t].account = None
                           /\ req[t].customer = None /\ ~Asking(t)
    BY WaitingType DEF TokenInit, Asking
  <1>3. Session /\ Hosted
    BY <1>2 DEF TokenInit, Session, SignedOutNow, Hosted
  <1> QED
    BY <1>1, <1>3 DEF TokenInv

LEMMA TokenStep == TokenInv /\ [TokenNext]_tokenVars => TokenInv'
  <1> SUFFICES ASSUME TokenInv, [TokenNext]_tokenVars PROVE TokenInv'
    OBVIOUS
  <1>1. CASE UNCHANGED tokenVars
    BY <1>1 DEF tokenVars, memory, history, TokenInv, TokenTypeOK, Session, SignedOutNow,
                SignedInNow, Hosted, Asking, Rightful
  <1> QED
    BY <1>1, RequestKeeps, DelegatedKeeps, HitTokenKeeps, AcquireKeeps, NotSignedInKeeps,
       AnsweredKeeps, NetworkFailsKeeps, StoreTokenKeeps, ProbeKeeps, ProbedKeeps, WaitKeeps,
       SignInKeeps, SignedInKeeps, SignOutKeeps, RestartKeepsTokens DEF TokenNext

------------------------------------------------------------------------------
\* Type correctness of the token cache.
THEOREM TokenTypeCorrect == TokenSpec => []TokenTypeOK
  <1>1. TokenInv => TokenTypeOK
    BY DEF TokenInv
  <1> QED
    BY <1>1, TokenInitInv, TokenStep, PTL DEF TokenSpec

\* auth_token.py: after a sign-out no account is left, nor comes back, but those it
\* failed to remove, unless a token was in flight.
THEOREM SignOutHolds == TokenSpec => []SignedOutStaysOut
  <1>1. TokenInv => SignedOutStaysOut
    BY TokenAssumption DEF TokenInv, Session, SignedOutNow, Asking, Rightful, SignedOutStaysOut
  <1> QED
    BY <1>1, TokenInitInv, TokenStep, PTL DEF TokenSpec

\* auth_token.py: tokens are their caller's, and a session resumes as its user's.
THEOREM TokensAndSession == TokenSpec => []SessionAndTokens
  <1>1. TokenInv => TokensBelongToCaller
    <2> SUFFICES ASSUME TokenInv, ~mixed PROVE TokensBelongToCaller
      BY DEF TokensBelongToCaller
    <2>1. CASE mode = "local"
      <3>1. \A k \in Keys : cache[k] \in {None, user} \cup kept
        BY <2>1 DEF TokenInv, Session, SignedOutNow, SignedInNow
      <3>2. \A t \in Threads : req[t].step = "store" => req[t].account \in {user} \cup kept
        BY <2>1 DEF TokenInv, Session, SignedOutNow, SignedInNow, Asking, Rightful
      <3> QED
        BY <2>1, <3>1, <3>2 DEF TokensBelongToCaller
    <2>2. CASE mode = "managed"
      BY <2>2 DEF TokensBelongToCaller, TokenInv, Hosted
    <2>3. CASE mode = "delegated"
      BY <2>3 DEF TokensBelongToCaller, TokenInv, Hosted
    <2> QED
      BY <2>1, <2>2, <2>3 DEF TokenInv, TokenTypeOK
  <1>2. TokenInv => SessionResumes
    BY DEF TokenInv, Session, SignedInNow, Hosted, SessionResumes, TokenTypeOK
  <1>3. TokenInv => SessionAndTokens
    BY <1>1, <1>2 DEF SessionAndTokens
  <1> QED
    BY <1>3, TokenInitInv, TokenStep, PTL DEF TokenSpec

------------------------------------------------------------------------------
(***************************************************************************)
(* Proofs about the check of services, for any regions, providers, types,  *)
(* footprints, number of attempts and of changes at Azure.                 *)
(*                                                                         *)
(* MarksBacked speaks of the end of a check only.  Backed says the same of *)
(* every moment: what was read so far, Azure could have answered.          *)
(***************************************************************************)
\* What Azure shows now is among what it could have shown.
Recorded ==
    /\ \A s \in Offerings : ShownNow[s] \in could[s] /\ could[s] \subseteq Locations
    /\ \A r \in Regions : zonesAt[r] \in zonesCould[r]

Backed ==
    /\ \A s \in DOMAIN got : got[s] \in could[s]
    /\ \A r \in Regions :
          /\ r \in pages \/ denied => zoned[r] = {}
          /\ r \notin pages /\ ~denied => zoned[r] \in zonesCould[r]

InOrder ==
    /\ stage = "shows" => \A s \in Offerings : tries[s] < Attempts
    /\ stage \in {"zones", "done"} => Todo = {}
    /\ stage = "done" /\ Disk \in wanted => denied \/ pages = {}
    /\ denied => stage = "done"

CheckInv == CheckTypeOK /\ Recorded /\ Backed /\ InOrder

------------------------------------------------------------------------------
\* An answer is a set of regions, "*" or "absent".
LEMMA ShownType ==
    ASSUME known \subseteq Providers, sites \in [Types -> Footprints]
    PROVE  ShownNow \in [Offerings -> Locations]
  <1>1. ASSUME NEW t \in Types, sites[t] # Unlisted
        PROVE  sites[t] \subseteq Regions \cup {"global"}
    <2>1. sites[t] \in (SUBSET (Regions \cup {"global"})) \cup {{"unlisted"}}
      BY CheckAssumption
    <2>2. sites[t] \in SUBSET (Regions \cup {"global"})
      BY <1>1, <2>1 DEF Unlisted
    <2> QED
      BY <2>2
  <1>2. ASSUME NEW t \in Types PROVE TypeLocations(t) \in Locations
    <2>1. CASE ProviderOf[t] \notin known
      <3>1. TypeLocations(t) = {"absent"}
        BY <2>1 DEF TypeLocations
      <3> QED
        BY <3>1 DEF Locations
    <2>2. CASE ProviderOf[t] \in known /\ sites[t] = Unlisted
      <3>1. TypeLocations(t) = {}
        BY <2>2 DEF TypeLocations
      <3>2. {} \in SUBSET Regions
        OBVIOUS
      <3> QED
        BY <3>1, <3>2 DEF Locations
    <2>3. CASE ProviderOf[t] \in known /\ sites[t] # Unlisted
      <3>1. TypeLocations(t) = IF "global" \in sites[t] THEN {"*"} ELSE sites[t]
        BY <2>3 DEF TypeLocations
      <3>2. sites[t] \subseteq Regions \cup {"global"}
        BY <1>1, <2>3
      <3>3. "global" \notin sites[t] => sites[t] \in SUBSET Regions
        BY <3>2
      <3>4. TypeLocations(t) = {"*"} \/ TypeLocations(t) \in SUBSET Regions
        BY <3>1, <3>3
      <3> QED
        BY <3>4 DEF Locations
    <2> QED
      BY <2>1, <2>2, <2>3
  <1>3. ASSUME NEW p \in Providers PROVE ProviderLocations(p) \in Locations
    <2> DEFINE listed == {t \in Types : ProviderOf[t] = p /\ sites[t] # Unlisted}
               regional == UNION {sites[t] \ {"global"} : t \in listed}
    <2>1. regional \subseteq Regions
      BY <1>1
    <2> HIDE DEF regional
    <2>2. ProviderLocations(p) \in {{"absent"}, regional, {}, {"*"}}
      BY DEF ProviderLocations, regional
    <2>3. regional \in SUBSET Regions /\ {} \in SUBSET Regions
      BY <2>1
    <2> QED
      BY <2>2, <2>3 DEF Locations
  <1> QED
    BY <1>2, <1>3 DEF ShownNow, Offerings

LEMMA CheckInitInv == CheckInit => CheckInv
  <1> SUFFICES ASSUME CheckInit PROVE CheckInv
    OBVIOUS
  <1>1. ShownNow \in [Offerings -> Locations]
    BY ShownType DEF CheckInit
  <1>2. CheckTypeOK
    <2>1. tries \in [Offerings -> 0 .. Attempts] /\ shifts \in 0 .. MaxShifts
      BY CheckAssumption DEF CheckInit
    <2>2. DOMAIN got = {} /\ zoned \in [Regions -> {{}} \cup ZoneSets]
      BY DEF CheckInit
    <2> QED
      BY <2>1, <2>2 DEF CheckInit, CheckTypeOK
  <1>3. Recorded
    BY <1>1 DEF CheckInit, Recorded
  <1>4. Backed /\ InOrder
    BY CheckAssumption DEF CheckInit, Backed, InOrder
  <1> QED
    BY <1>2, <1>3, <1>4 DEF CheckInv

------------------------------------------------------------------------------
LEMMA ProviderShownKeeps ==
    ASSUME CheckInv, NEW s \in Offerings, ProviderShown(s)
    PROVE  CheckInv'
  <1>1. ShownNow[s] \in could[s] /\ ShownNow[s] \in Locations
    BY DEF CheckInv, Recorded
  <1>2. /\ DOMAIN got' = DOMAIN got \cup {s}
        /\ \A x \in DOMAIN got' : got'[x] = IF x = s THEN ShownNow[s] ELSE got[x]
    BY DEF ProviderShown
  <1>3. /\ UNCHANGED <<azureVars, wanted, stage, tries, pages, zoned, denied, shifts, could, zonesCould>>
        /\ stage = "shows" /\ s \in Todo
    BY DEF ProviderShown
  <1>4. CheckTypeOK'
    BY <1>1, <1>2, <1>3 DEF CheckInv, CheckTypeOK, Todo, azureVars
  <1>5. ShownNow' = ShownNow
    BY <1>3 DEF ShownNow, TypeLocations, ProviderLocations, azureVars
  <1>6. Recorded'
    BY <1>3, <1>5 DEF CheckInv, Recorded, azureVars
  <1>7. Backed'
    BY <1>1, <1>2, <1>3 DEF CheckInv, Backed
  <1>8. InOrder'
    BY <1>3 DEF CheckInv, InOrder
  <1> QED
    BY <1>4, <1>6, <1>7, <1>8 DEF CheckInv

LEMMA TransientKeeps ==
    ASSUME CheckInv, NEW s \in Offerings, Transient(s)
    PROVE  CheckInv'
  <1>1. /\ UNCHANGED <<azureVars, wanted, got, pages, zoned, denied, shifts, could, zonesCould>>
        /\ stage = "shows" /\ tries' = [tries EXCEPT ![s] = @ + 1]
        /\ stage' = IF tries'[s] < Attempts THEN stage ELSE "failed"
    BY DEF Transient
  <1>2. tries \in [Offerings -> 0 .. Attempts] /\ \A x \in Offerings : tries[x] < Attempts
    BY <1>1 DEF CheckInv, CheckTypeOK, InOrder
  <1>3. tries' \in [Offerings -> 0 .. Attempts]
    BY <1>1, <1>2, CheckAssumption
  <1>4. CheckTypeOK'
    BY <1>1, <1>3 DEF CheckInv, CheckTypeOK, azureVars
  <1>5. ShownNow' = ShownNow
    BY <1>1 DEF ShownNow, TypeLocations, ProviderLocations, azureVars
  <1>6. Recorded' /\ Backed'
    BY <1>1, <1>5 DEF CheckInv, Recorded, Backed, azureVars
  <1>7. InOrder'
    BY <1>1, <1>2 DEF CheckInv, InOrder
  <1> QED
    BY <1>4, <1>6, <1>7 DEF CheckInv

LEMMA StageKeeps ==
    ASSUME CheckInv, CheckFails \/ AllShown
    PROVE  CheckInv'
  <1>1. UNCHANGED <<azureVars, wanted, tries, got, pages, zoned, denied, shifts, could, zonesCould>>
    BY DEF CheckFails, AllShown
  <1>2. ShownNow' = ShownNow
    BY <1>1 DEF ShownNow, TypeLocations, ProviderLocations, azureVars
  <1>3. CheckTypeOK'
    BY <1>1 DEF CheckInv, CheckTypeOK, azureVars, CheckFails, AllShown
  <1>4. Recorded' /\ Backed'
    BY <1>1, <1>2 DEF CheckInv, Recorded, Backed, azureVars
  <1>5. InOrder'
    BY <1>1 DEF CheckInv, InOrder, CheckFails, AllShown, Todo
  <1> QED
    BY <1>3, <1>4, <1>5 DEF CheckInv

LEMMA ZonesKeep ==
    ASSUME CheckInv, ZonesDenied \/ \E r \in Regions : ReadZones(r)
    PROVE  CheckInv'
  <1>1. /\ UNCHANGED <<azureVars, wanted, tries, got, shifts, could, zonesCould>>
        /\ stage = "zones" /\ ~denied
    BY DEF ZonesDenied, ReadZones, CheckInv, InOrder
  <1>2. ShownNow' = ShownNow
    BY <1>1 DEF ShownNow, TypeLocations, ProviderLocations, azureVars
  <1>3. Recorded'
    BY <1>1, <1>2 DEF CheckInv, Recorded, azureVars
  <1>4. CASE ZonesDenied
    <2>1. CheckTypeOK' /\ Backed'
      BY <1>1, <1>4 DEF ZonesDenied, CheckInv, CheckTypeOK, Backed, azureVars
    <2>2. InOrder'
      BY <1>1, <1>4 DEF ZonesDenied, CheckInv, InOrder, Todo
    <2> QED
      BY <1>3, <2>1, <2>2 DEF CheckInv
  <1>5. ASSUME NEW r \in Regions, ReadZones(r) PROVE CheckInv'
    <2>1. /\ r \in pages /\ zoned[r] = {} /\ pages' = pages \ {r} /\ ~denied'
          /\ zoned' = [zoned EXCEPT ![r] = zonesAt[r]]
          /\ stage' \in {"zones", "done"} /\ (stage' = "done" => pages' = {})
      BY <1>1, <1>5 DEF ReadZones, CheckInv, Backed
    <2>2. CheckTypeOK'
      <3>1. zoned \in [Regions -> {{}} \cup ZoneSets] /\ zonesAt[r] \in {{}} \cup ZoneSets
        BY DEF CheckInv, CheckTypeOK
      <3>2. zoned' \in [Regions -> {{}} \cup ZoneSets]
        BY <2>1, <3>1
      <3>3. pages' \subseteq Regions /\ denied' \in BOOLEAN
        <4>1. pages \subseteq Regions /\ denied = FALSE /\ denied' = denied
          BY <1>1, <1>5 DEF CheckInv, CheckTypeOK, ReadZones
        <4> QED
          BY <2>1, <4>1
      <3> QED
        BY <1>1, <2>1, <3>2, <3>3 DEF CheckInv, CheckTypeOK, azureVars
    <2>3. Backed'
      BY <1>1, <2>1 DEF CheckInv, CheckTypeOK, Backed, Recorded, azureVars
    <2>4. InOrder'
      BY <1>1, <2>1 DEF CheckInv, InOrder, Todo
    <2> QED
      BY <1>3, <2>2, <2>3, <2>4 DEF CheckInv
  <1> QED
    BY <1>4, <1>5

LEMMA ShiftsKeep ==
    ASSUME CheckInv, Shifts
    PROVE  CheckInv'
  <1>1. /\ UNCHANGED <<wanted, stage, tries, got, pages, zoned, denied>>
        /\ shifts' \in 0 .. MaxShifts
        /\ could' = [s \in Offerings |-> could[s] \cup {ShownNow[s]'}]
        /\ zonesCould' = [r \in Regions |-> zonesCould[r] \cup {zonesAt'[r]}]
    BY CheckAssumption DEF Shifts, CheckInv, CheckTypeOK
  <1>2. known' \subseteq Providers /\ sites' \in [Types -> Footprints] /\ zonesAt' \in [Regions -> ZoneSets]
    BY DEF Shifts, CheckInv, CheckTypeOK
  <1>3. ShownNow' \in [Offerings -> Locations]
    <2>1. (known \subseteq Providers /\ sites \in [Types -> Footprints]
             => ShownNow \in [Offerings -> Locations])'
      BY ShownType, PTL
    <2> QED
      BY <1>2, <2>1
  <1>4. CheckTypeOK'
    BY <1>1, <1>2 DEF CheckInv, CheckTypeOK
  <1>5. Recorded'
    BY <1>1, <1>3 DEF CheckInv, Recorded
  <1>6. Backed' /\ InOrder'
    BY <1>1 DEF CheckInv, CheckTypeOK, Backed, InOrder, Todo
  <1> QED
    BY <1>4, <1>5, <1>6 DEF CheckInv

LEMMA CheckStep == CheckInv /\ [CheckNext]_checkVars => CheckInv'
  <1> SUFFICES ASSUME CheckInv, [CheckNext]_checkVars PROVE CheckInv'
    OBVIOUS
  <1>1. CASE UNCHANGED checkVars
    <2>1. ShownNow' = ShownNow
      BY <1>1 DEF checkVars, azureVars, ShownNow, TypeLocations, ProviderLocations
    <2>2. CheckTypeOK'
      BY <1>1 DEF checkVars, azureVars, CheckInv, CheckTypeOK
    <2>3. Recorded'
      BY <1>1, <2>1 DEF checkVars, azureVars, CheckInv, Recorded
    <2>4. Backed' /\ InOrder'
      BY <1>1 DEF checkVars, CheckInv, Backed, InOrder, Todo
    <2> QED
      BY <2>2, <2>3, <2>4 DEF CheckInv
  <1> QED
    BY <1>1, ProviderShownKeeps, TransientKeeps, StageKeeps, ZonesKeep, ShiftsKeep DEF CheckNext

------------------------------------------------------------------------------
\* At the end of a check the marks follow from what was read.
LEMMA BackedAtTheEnd == CheckInv => MarksBacked
  <1> SUFFICES ASSUME CheckInv, stage = "done", NEW r \in Regions
               PROVE  /\ \A s \in wanted \cap Offerings :
                            \E locations \in could[s] :
                               CASE Mark(s, r) = "available" -> locations = {"*"} \/ r \in locations
                                 [] Mark(s, r) = "missing" -> locations \cap {"*", "absent", r} = {}
                                 [] OTHER -> locations = {"absent"}
                      /\ Disk \in wanted =>
                            \/ denied /\ Mark(Disk, r) = "missing"
                            \/ \E zones \in zonesCould[r] :
                                  (Mark(Disk, r) = "available") <=> Cardinality(zones) >= 3
                      /\ HasBomIssue(r) <=> MissingServices(r) # {}
    BY DEF MarksBacked
  <1>1. ASSUME NEW s \in wanted \cap Offerings
        PROVE  \E locations \in could[s] :
                   CASE Mark(s, r) = "available" -> locations = {"*"} \/ r \in locations
                     [] Mark(s, r) = "missing" -> locations \cap {"*", "absent", r} = {}
                     [] OTHER -> locations = {"absent"}
    <2>1. got[s] \in could[s] /\ got[s] \in Locations /\ s # Disk
      BY CheckAssumption DEF CheckInv, CheckTypeOK, Backed, InOrder, Todo, Offerings
    <2>2. CASE got[s] = {"absent"}
      BY <2>1, <2>2 DEF Mark
    <2>3. CASE got[s] # {"absent"} /\ (got[s] = {"*"} \/ r \in got[s])
      BY <2>1, <2>3 DEF Mark
    <2>4. CASE got[s] # {"absent"} /\ got[s] # {"*"} /\ r \notin got[s]
      <3>1. got[s] \in SUBSET Regions
        BY <2>1, <2>4 DEF Locations
      <3>2. got[s] \cap {"*", "absent", r} = {}
        BY <3>1, <2>4, CheckAssumption
      <3>3. Mark(s, r) = "missing"
        BY <2>1, <2>4 DEF Mark
      <3> QED
        BY <2>1, <3>2, <3>3
    <2> QED
      BY <2>2, <2>3, <2>4
  <1>2. ASSUME Disk \in wanted
        PROVE  \/ denied /\ Mark(Disk, r) = "missing"
               \/ \E zones \in zonesCould[r] :
                     (Mark(Disk, r) = "available") <=> Cardinality(zones) >= 3
    <2>1. Mark(Disk, r) = IF Cardinality(zoned[r]) >= 3 THEN "available" ELSE "missing"
      BY DEF Mark
    <2>2. CASE denied
      <3>1. zoned[r] = {} /\ Cardinality(zoned[r]) = 0
        BY <2>2, FS_EmptySet DEF CheckInv, Backed
      <3> QED
        BY <2>1, <2>2, <3>1
    <2>3. CASE ~denied
      <3>1. zoned[r] \in zonesCould[r]
        BY <1>2, <2>3 DEF CheckInv, Backed, InOrder
      <3> QED
        BY <2>1, <3>1
    <2> QED
      BY <2>2, <2>3
  <1>3. HasBomIssue(r) <=> MissingServices(r) # {}
    BY DEF HasBomIssue, MissingServices, Overall
  <1> QED
    BY <1>1, <1>2, <1>3

\* bom_services.py: whatever the order of the answers, the failures and the changes
\* at Azure meanwhile, every mark a finished check shows was true at some moment.
THEOREM MarksAreBacked == CheckSpec => []MarksBacked
  BY CheckInitInv, CheckStep, BackedAtTheEnd, PTL DEF CheckSpec

\* The type invariant of the check; no provider is asked more often than allowed.
THEOREM CheckTypeCorrect == CheckSpec => []CheckTypeOK
  <1>1. CheckInv => CheckTypeOK
    BY DEF CheckInv
  <1> QED
    BY <1>1, CheckInitInv, CheckStep, PTL DEF CheckSpec

------------------------------------------------------------------------------
(***************************************************************************)
(* The settings: the map a save holds differs from the saved one in its    *)
(* own subscription only, as long as nothing came between.                 *)
(***************************************************************************)
ReadHolds ==
    \A t \in Savers :
        saver[t] # <<>> /\ t \notin outrun /\ broken = 0 =>
            \A s \in Subscriptions \ {saver[t].sub} : saver[t].map[s] = groups[s]

SettingsInv == SettingsTypeOK /\ ReadHolds

LEMMA SettingsStart == SettingsInit => SettingsInv
  BY SettingsAssumption
     DEF SettingsInit, SettingsInv, SettingsTypeOK, ReadHolds, Map, NoGroups, Entry

\* Beginning a save, from the map that is saved or, blindly, from none.
LEMMA SaveBegun ==
    ASSUME SettingsInv, NEW t \in Savers, NEW s \in Subscriptions, NEW g \in Entry,
           BeginSave(t, s, g) \/ BeginSaveBlind(t, s, g)
    PROVE  SettingsInv'
<1> DEFINE old == IF BeginSave(t, s, g) THEN groups ELSE NoGroups
           map == [old EXCEPT ![s] = g]
<1>1. old \in Map
  BY DEF SettingsInv, SettingsTypeOK, NoGroups, Map, Entry
<1>2. map \in Map
  BY <1>1 DEF Map
<1>3. \A r \in Subscriptions \ {s} : map[r] = old[r]
  BY <1>1 DEF Map
<1>4. saver' = [saver EXCEPT ![t] = [sub |-> s, map |-> map]] /\ groups' = groups
  BY DEF BeginSave, BeginSaveBlind
<1>5. outrun' = outrun \ {t}
  BY DEF BeginSave, BeginSaveBlind
<1>6. broken' \in 0 .. MaxBroken /\ (broken' = 0 => broken = 0 /\ old = groups)
  BY SettingsAssumption DEF BeginSave, BeginSaveBlind, SettingsInv, SettingsTypeOK
<1> HIDE DEF map, old
<1>7. [sub |-> s, map |-> map] \in [sub : Subscriptions, map : Map]
  BY <1>2
<1>8. SettingsTypeOK'
  BY <1>4, <1>5, <1>6, <1>7 DEF SettingsInv, SettingsTypeOK
<1>9. ReadHolds'
  <2> SUFFICES ASSUME NEW u \in Savers, saver'[u] # <<>>, u \notin outrun', broken' = 0,
                      NEW r \in Subscriptions \ {saver'[u].sub}
               PROVE  saver'[u].map[r] = groups'[r]
    BY DEF ReadHolds
  <2>1. CASE u = t
    <3>1. saver'[t] = [sub |-> s, map |-> map]
      BY <1>4 DEF SettingsInv, SettingsTypeOK
    <3> QED
      BY <2>1, <3>1, <1>3, <1>4, <1>6
  <2>2. CASE u # t
    <3>1. saver'[u] = saver[u] /\ u \notin outrun
      BY <2>2, <1>4, <1>5 DEF SettingsInv, SettingsTypeOK
    <3> QED
      BY <3>1, <1>4, <1>6 DEF SettingsInv, ReadHolds
  <2> QED
    BY <2>1, <2>2
<1> QED
  BY <1>8, <1>9 DEF SettingsInv

LEMMA SaveEnded ==
    ASSUME SettingsInv, NEW t \in Savers, FinishSave(t) \/ AbandonSave(t)
    PROVE  SettingsInv'
<1>1. saver[t] \in [sub : Subscriptions, map : Map]
  BY DEF SettingsInv, SettingsTypeOK, FinishSave, AbandonSave
<1>2. SettingsTypeOK'
  BY <1>1 DEF SettingsInv, SettingsTypeOK, FinishSave, AbandonSave
<1>3. ReadHolds'
  BY DEF SettingsInv, SettingsTypeOK, ReadHolds, FinishSave, AbandonSave
<1> QED
  BY <1>2, <1>3 DEF SettingsInv

LEMMA SettingsInvariant == SettingsSpec => []SettingsInv
<1>1. SettingsInv /\ [SettingsNext]_settingsVars => SettingsInv'
  <2> SUFFICES ASSUME SettingsInv, [SettingsNext]_settingsVars PROVE SettingsInv'
    OBVIOUS
  <2>1. CASE SettingsNext
    BY <2>1, SaveBegun, SaveEnded DEF SettingsNext
  <2>2. CASE UNCHANGED settingsVars
    BY <2>2 DEF settingsVars, SettingsInv, SettingsTypeOK, ReadHolds
  <2> QED
    BY <2>1, <2>2
<1> QED
  BY <1>1, SettingsStart, PTL DEF SettingsSpec

\* Every save, blind or abandoned, keeps the map and what savers hold of it in
\* their types (support_settings.py).
THEOREM SettingsTypeCorrect == SettingsSpec => []SettingsTypeOK
<1>1. SettingsInv => SettingsTypeOK
  BY DEF SettingsInv
<1> QED
  BY <1>1, SettingsInvariant, PTL

\* "Merge into the existing map (don't clobber other subscriptions)"
\* (api/support_settings), for any number of concurrent saves and failing reads.
THEOREM SettingsMerged == SettingsSpec => OthersGroupsKept
<1> DEFINE Kept == \A t \in Savers :
          saver[t] # <<>> /\ saver'[t] = <<>> /\ t \notin outrun /\ broken = 0 =>
              \A s \in Subscriptions \ {saver[t].sub} : groups'[s] = groups[s]
<1>1. SettingsInv /\ [SettingsNext]_settingsVars => [Kept]_settingsVars
  <2> SUFFICES ASSUME SettingsInv, SettingsNext PROVE Kept
    OBVIOUS
  <2> SUFFICES ASSUME NEW t \in Savers, saver[t] # <<>>, saver'[t] = <<>>,
                      t \notin outrun, broken = 0,
                      NEW s \in Subscriptions \ {saver[t].sub}
               PROVE  groups'[s] = groups[s]
    OBVIOUS
  <2>1. PICK u \in Savers :
            \/ \E r \in Subscriptions, g \in Entry :
                  BeginSave(u, r, g) \/ BeginSaveBlind(u, r, g)
            \/ FinishSave(u)
            \/ AbandonSave(u)
    BY DEF SettingsNext
  <2>2. CASE FinishSave(u)
    BY <2>2 DEF FinishSave, SettingsInv, SettingsTypeOK, ReadHolds
  <2>3. CASE ~ FinishSave(u)
    BY <2>1, <2>3 DEF BeginSave, BeginSaveBlind, AbandonSave
  <2> QED
    BY <2>2, <2>3
<1> QED
  BY <1>1, SettingsInvariant, PTL DEF SettingsSpec, OthersGroupsKept

------------------------------------------------------------------------------
(***************************************************************************)
(* The tickets.  Three invariants: Records (rows, Azure and what threads   *)
(* carry), Filing (pages and PUTs) and InTurn (updates of a row), each on  *)
(* top of Typed.                                                           *)
(***************************************************************************)
Step == {"idle", "checking", "put", "poll", "read", "write"}
RowStatus == {"preview", "failed", "submitted"}

\* What the records of the model are made of.
LEMMA TaskFields ==
    ASSUME NEW s, NEW n, NEW r, NEW g
    PROVE  LET x == Task(s, n, r, g)
           IN  x.step = s /\ x.name = n /\ x.row = r /\ x.got = g
  BY DEF Task

LEMMA TaskType ==
    ASSUME NEW s \in Step, NEW n \in Names \cup {Nothing}, NEW r \in Row \cup {Nothing},
           NEW g \in Revisions
    PROVE  Task(s, n, r, g) \in Work
  BY DEF Task, Work, Step

LEMMA WorkFields ==
    ASSUME NEW x \in Work
    PROVE  /\ x.step \in Step /\ x.name \in Names \cup {Nothing}
           /\ x.row \in Row \cup {Nothing} /\ x.got \in Revisions
  BY DEF Work, Step

LEMMA RowType ==
    ASSUME NEW s \in RowStatus, NEW g \in Revisions
    PROVE  RowWith(s, g) \in Row /\ RowWith(s, g).status = s /\ RowWith(s, g).azure_status = g
  BY DEF RowWith, Row, RowStatus

LEMMA RowFields ==
    ASSUME NEW x \in Row
    PROVE  x.status \in RowStatus /\ x.azure_status \in Revisions
  BY DEF Row, RowStatus

LEMMA Numbers == 0 \in Revisions /\ 1 \in Revisions /\ Revisions \subseteq Nat
  BY TicketsAssumption DEF Revisions

LEMMA Steps == /\ "idle" \in Step /\ "checking" \in Step /\ "put" \in Step
               /\ "poll" \in Step /\ "read" \in Step /\ "write" \in Step
               /\ "preview" \in RowStatus /\ "failed" \in RowStatus /\ "submitted" \in RowStatus
  BY DEF Step, RowStatus

------------------------------------------------------------------------------
WorkTyped == work \in [Workers -> Work]
Named ==
    \A w \in Workers :
        /\ work[w].step # "idle" => work[w].name \in Names /\ asked[work[w].name] \in Asks
        /\ work[w].step \in {"poll", "write"} => work[w].row \in Row
PageTyped ==
    /\ asked \in [Names -> Asks \cup {Nothing}]
    /\ awaits \in [Asks -> Names \cup {Nothing}]
    /\ told \in [Asks -> Told]
AzureTyped ==
    /\ wire \in [Names -> Wire]
    /\ azure \in [Names -> Revisions]
RowsTyped == rows \in [Names -> Row \cup {Nothing}]
HistoryTyped ==
    /\ demo \in BOOLEAN
    /\ faults \in 0 .. MaxFaults
    /\ lost \subseteq Names /\ unheard \subseteq Names /\ unsaved \subseteq Names
    /\ wiped \subseteq Names /\ overlapped \subseteq Names
Fresh ==
    \A n \in Names :
        asked[n] = Nothing => rows[n] = Nothing /\ azure[n] = 0 /\ wire[n] = "unsent"

Typed == Fresh /\ WorkTyped /\ Named /\ PageTyped /\ AzureTyped /\ RowsTyped /\ HistoryTyped

Others(w) == \A v \in Workers \ {w} : work'[v] = work[v]

\* What a thread does next, and that the others go on.
LEMMA Turn ==
    ASSUME WorkTyped, NEW w \in Workers, NEW x \in Work, work' = [work EXCEPT ![w] = x]
    PROVE  WorkTyped' /\ work'[w] = x /\ Others(w)
  BY DEF WorkTyped, Others

LEMMA Rest ==
    ASSUME WorkTyped, NEW w \in Workers, work' = [work EXCEPT ![w] = Idle]
    PROVE  /\ WorkTyped'
           /\ work'[w].step = "idle"
           /\ Others(w)
<1>1. Idle \in Work /\ Idle.step = "idle"
  BY TaskType, TaskFields, Numbers, Steps DEF Idle
<1> QED
  BY <1>1, Turn

LEMMA Engaged ==
    ASSUME Typed, NEW w \in Workers
    PROVE  /\ work[w].step \in Step
           /\ work[w].name \in Names \cup {Nothing} /\ work[w].row \in Row \cup {Nothing}
           /\ work[w].got \in Revisions
           /\ work[w].step # "idle" => work[w].name \in Names /\ asked[work[w].name] \in Asks
           /\ work[w].step \in {"poll", "write"} => work[w].row \in Row
  BY WorkFields DEF Typed, WorkTyped, Named

LEMMA Replied ==
    ASSUME PageTyped, NEW n \in Names, asked[n] \in Asks, NEW what \in Told,
           Answer(n, what), asked' = asked
    PROVE  PageTyped'
  BY DEF PageTyped, Answer

LEMMA Saved ==
    ASSUME RowsTyped, HistoryTyped, NEW n \in Names, NEW row \in Row, SaveRecord(n, row)
    PROVE  /\ RowsTyped'
           /\ faults' \in 0 .. MaxFaults
           /\ unsaved' \subseteq Names
  BY TicketsAssumption DEF RowsTyped, HistoryTyped, SaveRecord, Fault

\* A thread takes its next step, or rests, and the others go on.
LEMMA GoesOn ==
    ASSUME WorkTyped, Named, NEW w \in Workers, NEW s \in Step, NEW n \in Names,
           NEW r \in Row \cup {Nothing}, NEW g \in Revisions,
           work' = [work EXCEPT ![w] = Task(s, n, r, g)],
           s \in {"poll", "write"} => r \in Row,
           \A m \in Names : asked[m] \in Asks => asked'[m] \in Asks,
           asked'[n] \in Asks
    PROVE  /\ WorkTyped' /\ Named'
           /\ work'[w].step = s /\ work'[w].name = n /\ work'[w].row = r /\ work'[w].got = g
           /\ Others(w)
<1> DEFINE x == Task(s, n, r, g)
<1>1. x \in Work /\ x.step = s /\ x.name = n /\ x.row = r /\ x.got = g
  BY TaskType, TaskFields
<1>2. work' = [work EXCEPT ![w] = x]
  OBVIOUS
<1> HIDE DEF x
<1>3. WorkTyped' /\ work'[w] = x /\ Others(w)
  BY <1>1, <1>2, Turn
<1>4. Named'
  BY <1>1, <1>3 DEF Named, Others
<1> QED
  BY <1>1, <1>3, <1>4

LEMMA Rests ==
    ASSUME WorkTyped, Named, NEW w \in Workers, work' = [work EXCEPT ![w] = Idle], asked' = asked
    PROVE  /\ WorkTyped' /\ Named'
           /\ work'[w].step = "idle"
           /\ Others(w)
<1>1. WorkTyped' /\ work'[w].step = "idle" /\ Others(w)
  BY Rest
<1> QED
  BY <1>1 DEF Named, Others

LEMMA SubmitTyped ==
    ASSUME Typed, NEW a \in Asks, NEW w \in Workers, NEW n \in Names, Submit(a, w, n)
    PROVE  /\ Typed'
           /\ work'[w].step = "checking" /\ work'[w].name = n /\ Others(w)
<1>1. PageTyped' /\ asked'[n] = a /\ \A m \in Names : asked[m] \in Asks => asked'[m] \in Asks
  BY DEF Submit, Typed, PageTyped
<1>2. work' = [work EXCEPT ![w] = Task("checking", n, Nothing, 0)]
  BY DEF Submit
<1>3. /\ WorkTyped' /\ Named'
      /\ work'[w].step = "checking" /\ work'[w].name = n /\ Others(w)
  BY <1>1, <1>2, GoesOn, Numbers, Steps DEF Typed
<1> QED
  BY <1>1, <1>3, TicketsAssumption
     DEF Submit, ticketHistory, Typed, PageTyped, AzureTyped, RowsTyped, HistoryTyped, Fresh

LEMMA HandlerEndsTyped ==
    ASSUME Typed, NEW w \in Workers,
           Refused(w) \/ Preview(w) \/ Submitted(w) \/ SubmitFailed(w) \/ RequestFailed(w)
    PROVE  Typed' /\ work'[w].step = "idle" /\ Others(w)
<1> DEFINE n == work[w].name
<1>1. n \in Names /\ asked[n] \in Asks
  BY Engaged DEF Refused, Preview, Submitted, SubmitFailed, RequestFailed
<1>2. /\ asked' = asked /\ wire' = wire /\ azure' = azure /\ demo' = demo
      /\ work' = [work EXCEPT ![w] = Idle]
      /\ wiped' = wiped /\ overlapped' = overlapped /\ unheard' = unheard
      /\ lost' = lost \/ lost' = lost \cup {n}
  BY DEF Refused, Preview, Submitted, SubmitFailed, RequestFailed, ticketHistory
<1>3. \E what \in Told : Answer(n, what)
  BY DEF Refused, Preview, Submitted, SubmitFailed, RequestFailed, Told
<1>4. PageTyped'
  BY <1>1, <1>2, <1>3, Replied DEF Typed
<1>5. WorkTyped' /\ Named' /\ work'[w].step = "idle" /\ Others(w)
  BY <1>2, Rests DEF Typed
<1>7. RowsTyped' /\ faults' \in 0 .. MaxFaults /\ unsaved' \subseteq Names
  <2>1. CASE Refused(w)
    BY <2>1 DEF Refused, ticketHistory, Typed, RowsTyped, HistoryTyped
  <2>2. CASE \E s \in RowStatus, g \in Revisions : SaveRecord(n, RowWith(s, g))
    BY <2>2, <1>1, RowType, Saved DEF Typed
  <2>3. CASE RequestFailed(w)
    <3>1. RowWith("failed", 0) \in Row
      BY RowType, Numbers, Steps
    <3> QED
      BY <2>3, <3>1, <1>1, TicketsAssumption DEF RequestFailed, Fault, Typed, RowsTyped, HistoryTyped
  <2> QED
    BY <2>1, <2>2, <2>3, Numbers, Steps DEF Preview, Submitted, SubmitFailed
<1>8. rows' = rows \/ \E row \in Row : rows' = [rows EXCEPT ![n] = row]
  BY RowType, Numbers, Steps
     DEF Refused, Preview, Submitted, SubmitFailed, RequestFailed, SaveRecord
<1> HIDE DEF n
<1>9. Fresh'
  BY <1>1, <1>2, <1>8, TicketsAssumption DEF Typed, RowsTyped, Fresh
<1> QED
  BY <1>1, <1>2, <1>4, <1>5, <1>7, <1>9 DEF Typed, AzureTyped, HistoryTyped

LEMMA PutTyped ==
    ASSUME Typed, NEW w \in Workers, Put(w)
    PROVE  /\ Typed'
           /\ work'[w].step = "put" /\ work'[w].name = work[w].name /\ Others(w)
<1> DEFINE n == work[w].name
<1>1. n \in Names /\ asked[n] \in Asks /\ asked' = asked
  BY Engaged DEF Put, page
<1>2. work' = [work EXCEPT ![w] = Task("put", n, Nothing, 0)]
  BY DEF Put
<1>3. wire' = [wire EXCEPT ![n] = "sent"] /\ "sent" \in Wire
  BY DEF Put, Wire
<1>4. "put" \in Step /\ "put" \notin {"poll", "write"} /\ 0 \in Revisions /\ WorkTyped /\ Named
  BY Numbers, Steps DEF Typed
<1> HIDE DEF n
<1>5. /\ WorkTyped' /\ Named'
      /\ work'[w].step = "put" /\ work'[w].name = n /\ Others(w)
  BY <1>1, <1>2, <1>4, GoesOn
<1>6. AzureTyped' /\ Fresh'
  BY <1>1, <1>3, TicketsAssumption DEF Put, Typed, AzureTyped, Fresh
<1>7. PageTyped' /\ RowsTyped' /\ HistoryTyped'
  BY DEF Put, page, ticketHistory, Typed, PageTyped, RowsTyped, HistoryTyped
<1> QED
  BY <1>5, <1>6, <1>7 DEF Typed, n

\* The steps of a refresh and of a close; the other variables but Azure's status and
\* the history of overlaps stay as they are.
Updates ==
    /\ asked' = asked /\ awaits' = awaits /\ told' = told
    /\ wire' = wire /\ rows' = rows /\ demo' = demo /\ faults' = faults
    /\ lost' = lost /\ unheard' = unheard /\ unsaved' = unsaved /\ wiped' = wiped

LEMMA RefreshTyped ==
    ASSUME Typed, NEW w \in Workers, NEW n \in Names, Refresh(w, n)
    PROVE  /\ Typed' /\ Updates /\ azure' = azure
           /\ work'[w].step = "poll" /\ work'[w].name = n /\ work'[w].row = rows[n] /\ Others(w)
<1>1. Updates /\ azure' = azure
  BY DEF Refresh, page, Updates
<1>2. asked[n] \in Asks /\ rows[n] \in Row
  BY DEF Refresh, Typed, Fresh, PageTyped, RowsTyped
<1>3. work' = [work EXCEPT ![w] = Task("poll", n, rows[n], 0)]
  BY DEF Refresh
<1>4. /\ WorkTyped' /\ Named'
      /\ work'[w].step = "poll" /\ work'[w].name = n /\ work'[w].row = rows[n] /\ Others(w)
  <2>1. "poll" \in Step /\ 0 \in Revisions /\ WorkTyped /\ Named /\ asked' = asked
    BY <1>1, Numbers, Steps DEF Typed, Updates
  <2> QED
    BY <1>2, <1>3, <2>1, GoesOn
<1> QED
  BY <1>1, <1>4 DEF Refresh, Overlap, Updates, Typed, PageTyped, AzureTyped, RowsTyped,
                    HistoryTyped, Fresh

LEMMA CloseTyped ==
    ASSUME Typed, NEW w \in Workers, NEW n \in Names, Close(w, n)
    PROVE  /\ Typed' /\ Updates
           /\ azure[n] \in 1 .. MaxRevision - 1 /\ azure' = [azure EXCEPT ![n] = @ + 1]
           /\ \/ work' = work
              \/ /\ work'[w].step = "read" /\ work'[w].name = n
                 /\ work'[w].got = azure[n] + 1 /\ Others(w)
<1>1. Updates /\ azure[n] \in 1 .. MaxRevision - 1 /\ azure' = [azure EXCEPT ![n] = @ + 1]
  BY DEF Close, page, Updates
<1>2. asked[n] \in Asks /\ azure[n] + 1 \in Revisions
  BY <1>1, TicketsAssumption DEF Typed, Fresh, PageTyped, Revisions
<1>3. CASE work' = work
  BY <1>1, <1>2, <1>3
     DEF Close, Overlap, Updates, Typed, WorkTyped, Named, PageTyped, AzureTyped, RowsTyped,
         HistoryTyped, Fresh
<1>4. CASE work' # work
  <2>1. work' = [work EXCEPT ![w] = Task("read", n, Nothing, azure[n] + 1)]
    BY <1>4 DEF Close
  <2>2. /\ WorkTyped' /\ Named'
        /\ work'[w].step = "read" /\ work'[w].name = n /\ work'[w].got = azure[n] + 1 /\ Others(w)
    <3>1. /\ "read" \in Step /\ "read" \notin {"poll", "write"}
          /\ WorkTyped /\ Named /\ asked' = asked
      BY <1>1, Steps DEF Typed, Updates
    <3> QED
      BY <1>2, <2>1, <3>1, GoesOn
  <2> QED
    BY <1>1, <1>2, <2>2
       DEF Close, Overlap, Updates, Typed, PageTyped, AzureTyped, RowsTyped, HistoryTyped, Fresh
<1> QED
  BY <1>3, <1>4

LEMMA PollTyped ==
    ASSUME Typed, NEW w \in Workers, Poll(w)
    PROVE  /\ Typed' /\ Updates /\ azure' = azure /\ overlapped' = overlapped /\ Others(w)
           /\ \/ work'[w].step = "idle"
              \/ /\ work'[w].step = "write" /\ work'[w].name = work[w].name
                 /\ work'[w].row = work[w].row /\ work'[w].got = azure[work[w].name]
                 /\ azure[work[w].name] > 0
<1> DEFINE n == work[w].name
<1>1. Updates /\ azure' = azure /\ overlapped' = overlapped
  BY DEF Poll, page, ticketHistory, Updates
<1>2. n \in Names /\ asked[n] \in Asks /\ work[w].row \in Row
  BY Engaged DEF Poll
<1>3. azure[n] \in Revisions
  BY <1>2 DEF Typed, AzureTyped
<1>4. \/ work' = [work EXCEPT ![w] = Idle]
      \/ azure[n] > 0 /\ work' = [work EXCEPT ![w] = Task("write", n, work[w].row, azure[n])]
  BY DEF Poll, Typed, WorkTyped
<1>5. /\ WorkTyped' /\ Named' /\ Others(w)
      /\ \/ work'[w].step = "idle"
         \/ /\ work'[w].step = "write" /\ work'[w].name = n
            /\ work'[w].row = work[w].row /\ work'[w].got = azure[n]
            /\ azure[n] > 0
  BY <1>1, <1>2, <1>3, <1>4, GoesOn, Rests, Steps DEF Typed, Updates
<1> QED
  BY <1>1, <1>5 DEF Updates, Typed, PageTyped, AzureTyped, RowsTyped, HistoryTyped, Fresh

LEMMA ReadRowTyped ==
    ASSUME Typed, NEW w \in Workers, ReadRow(w)
    PROVE  /\ Typed' /\ Updates /\ azure' = azure /\ overlapped' = overlapped /\ Others(w)
           /\ \/ work'[w].step = "idle"
              \/ /\ work'[w].step = "write" /\ work'[w].name = work[w].name
                 /\ work'[w].row = rows[work[w].name] /\ work'[w].got = work[w].got
                 /\ rows[work[w].name] # Nothing
<1> DEFINE n == work[w].name
<1>1. Updates /\ azure' = azure /\ overlapped' = overlapped
  BY DEF ReadRow, page, ticketHistory, Updates
<1>2. n \in Names /\ asked[n] \in Asks /\ work[w].got \in Revisions
  BY Engaged DEF ReadRow
<1>3. rows[n] \in Row \cup {Nothing}
  BY <1>2 DEF Typed, RowsTyped
<1>4. \/ work' = [work EXCEPT ![w] = Idle]
      \/ rows[n] \in Row /\ work' = [work EXCEPT ![w] = Task("write", n, rows[n], work[w].got)]
  BY <1>3 DEF ReadRow, Typed, WorkTyped
<1>5. /\ WorkTyped' /\ Named' /\ Others(w)
      /\ \/ work'[w].step = "idle"
         \/ /\ work'[w].step = "write" /\ work'[w].name = n
            /\ work'[w].row = rows[n] /\ work'[w].got = work[w].got
            /\ rows[n] # Nothing
  BY <1>1, <1>2, <1>4, GoesOn, Rests, Steps, NoRowIsNothing DEF Typed, Updates
<1> QED
  BY <1>1, <1>5 DEF Updates, Typed, PageTyped, AzureTyped, RowsTyped, HistoryTyped, Fresh

LEMMA WriteBackTyped ==
    ASSUME Typed, NEW w \in Workers, WriteBack(w)
    PROVE  Typed' /\ work'[w].step = "idle" /\ Others(w)
<1> DEFINE n == work[w].name
           back == RowWith(work[w].row.status, work[w].got)
<1>1. n \in Names /\ asked[n] \in Asks /\ back \in Row
  BY Engaged, RowFields, RowType DEF WriteBack
<1>2. /\ rows' = rows \/ rows' = [rows EXCEPT ![n] = back]
      /\ work' = [work EXCEPT ![w] = Idle]
      /\ asked' = asked
  BY DEF WriteBack, page
<1> HIDE DEF n, back
<1>3. RowsTyped' /\ Fresh'
  BY <1>1, <1>2, TicketsAssumption DEF WriteBack, Typed, RowsTyped, Fresh
<1>4. WorkTyped' /\ Named' /\ work'[w].step = "idle" /\ Others(w)
  BY <1>2, Rests DEF Typed
<1> QED
  BY <1>3, <1>4 DEF WriteBack, page, ticketHistory, Typed, PageTyped, AzureTyped, HistoryTyped

\* Azure serves a PUT or moves on, a page is closed, the table dropped.
LEMMA OthersTyped ==
    ASSUME Typed,
           \/ \E n \in Names : AzureAccepts(n) \/ AzureRefuses(n) \/ AzureMovesOn(n)
           \/ \E a \in Asks : ClosePage(a)
           \/ WipeTickets
    PROVE  Typed'
<1>1. asked' = asked /\ told' = told /\ work' = work /\ demo' = demo
  BY DEF AzureAccepts, AzureRefuses, AzureMovesOn, ClosePage, WipeTickets, page, ticketHistory
<1>2. AzureTyped' /\ RowsTyped' /\ Fresh'
  BY <1>1, Numbers, TicketsAssumption
     DEF AzureAccepts, AzureRefuses, AzureMovesOn, ClosePage, WipeTickets, page, ticketHistory,
         Typed, AzureTyped, RowsTyped, Fresh, Wire, Revisions
<1>3. PageTyped' /\ HistoryTyped'
  BY <1>1, TicketsAssumption
     DEF AzureAccepts, AzureRefuses, AzureMovesOn, ClosePage, WipeTickets, page, ticketHistory,
         Typed, PageTyped, HistoryTyped, Fault
<1> QED
  BY <1>1, <1>2, <1>3 DEF Typed, WorkTyped, Named

LEMMA RestartTyped ==
    ASSUME Typed, RestartServer
    PROVE  Typed'
<1>1. Idle \in Work /\ Idle.step = "idle"
  BY TaskType, TaskFields, Numbers, Steps DEF Idle
<1>2. WorkTyped' /\ Named'
  BY <1>1 DEF RestartServer, Typed, WorkTyped, Named
<1>3. PageTyped'
  BY DEF RestartServer, Typed, PageTyped, Told
<1>4. {work[w].name : w \in {v \in Workers : work[v].step = "put"}} \subseteq Names
  BY DEF Typed, Named
<1>5. HistoryTyped'
  BY <1>4, TicketsAssumption DEF RestartServer, Fault, Typed, HistoryTyped
<1> QED
  BY <1>2, <1>3, <1>5 DEF RestartServer, Typed, AzureTyped, RowsTyped, Fresh

------------------------------------------------------------------------------
Handling(w) == work[w].step \in {"checking", "put"}
Holding(w) == work[w].step \in {"poll", "write"}

AtAzure == \A n \in Names : azure[n] > 0 <=> wire[n] = "accepted"
OneHandler ==
    \A v, w \in Workers :
        Handling(v) /\ Handling(w) /\ work[v].name = work[w].name => v = w
Stages ==
    \A w \in Workers :
        /\ work[w].step = "checking" => wire[work[w].name] = "unsent"
        /\ work[w].step = "put" => wire[work[w].name] # "unsent"
NoRowYet ==
    \A w \in Workers :
        Handling(w) => /\ rows[work[w].name] = Nothing
                       /\ \A v \in Workers : Holding(v) => work[v].name # work[w].name
TrueOf(n, row) ==
    /\ row.azure_status <= azure[n]
    /\ row.status = "submitted" => wire[n] = "accepted"
    /\ row.status # "submitted" => n \in lost \/ wire[n] \notin {"sent", "accepted"}
RowsTrue == \A n \in Names : rows[n] # Nothing => TrueOf(n, rows[n])
HeldTrue == \A w \in Workers : Holding(w) => TrueOf(work[w].name, work[w].row)
GotTrue ==
    \A w \in Workers :
        work[w].step \in {"read", "write"} => work[w].got <= azure[work[w].name]
Accounted ==
    \A n \in Names :
        wire[n] \in {"sent", "accepted"} =>
            \/ rows[n] # Nothing
            \/ n \in lost \cup unsaved \cup wiped
            \/ \E w \in Workers : work[w].step = "put" /\ work[w].name = n

Records ==
    /\ AtAzure /\ OneHandler /\ Stages /\ NoRowYet
    /\ RowsTrue /\ HeldTrue /\ GotTrue /\ Accounted

LEMMA SubmitRecords ==
    ASSUME Typed, Records, NEW a \in Asks, NEW w \in Workers, NEW n \in Names, Submit(a, w, n)
    PROVE  Records'
<1>1. /\ Typed' /\ work'[w].step = "checking" /\ work'[w].name = n /\ Others(w)
  BY SubmitTyped
<1>2. /\ wire' = wire /\ azure' = azure /\ rows' = rows /\ lost' = lost
      /\ unsaved' = unsaved /\ wiped' = wiped /\ work[w].step = "idle"
  BY DEF Submit, ticketHistory
<1>3. /\ wire[n] = "unsent" /\ rows[n] = Nothing
      /\ \A v \in Workers : work[v].step # "idle" => work[v].name # n
  BY TicketsAssumption DEF Submit, Typed, Fresh, Named
<1>4. AtAzure' /\ RowsTrue'
  BY <1>2 DEF Records, AtAzure, RowsTrue, TrueOf
<1>5. OneHandler'
  BY <1>1, <1>2, <1>3 DEF Records, OneHandler, Handling, Others
<1>6. Stages'
  BY <1>1, <1>2, <1>3 DEF Records, Stages, Others
<1>7. NoRowYet'
  BY <1>1, <1>2, <1>3 DEF Records, NoRowYet, Handling, Holding, Others
<1>8. HeldTrue' /\ GotTrue'
  BY <1>1, <1>2 DEF Records, HeldTrue, GotTrue, TrueOf, Holding, Others
<1>9. Accounted'
  BY <1>1, <1>2 DEF Records, Accounted, Others
<1> QED
  BY <1>4, <1>5, <1>6, <1>7, <1>8, <1>9 DEF Records

LEMMA PutRecords ==
    ASSUME Typed, Records, NEW w \in Workers, Put(w)
    PROVE  Records'
<1> DEFINE n == work[w].name
<1>1. /\ Typed' /\ work'[w].step = "put" /\ work'[w].name = n /\ Others(w)
  BY PutTyped
<1>2. /\ wire' = [wire EXCEPT ![n] = "sent"] /\ azure' = azure /\ rows' = rows /\ lost' = lost
      /\ unsaved' = unsaved /\ wiped' = wiped /\ work[w].step = "checking"
  BY DEF Put, ticketHistory
<1>a. n \in Names /\ wire \in [Names -> Wire] /\ azure \in [Names -> Revisions]
  BY <1>2, Engaged DEF Typed, AzureTyped
<1>b. wire[n] = "unsent" /\ azure[n] = 0
  <2>1. wire[n] = "unsent"
    BY <1>2 DEF Records, Stages
  <2> DEFINE filed == azure[n]
  <2>2. filed \in Revisions /\ ~ (filed > 0)
    BY <1>a, <2>1 DEF Records, AtAzure
  <2> HIDE DEF filed
  <2>3. filed \in Nat
    BY <2>2, Numbers
  <2>4. filed = 0
    BY <2>2, <2>3
  <2> QED
    BY <2>1, <2>4 DEF filed
<1>3. /\ n \in Names /\ wire \in [Names -> Wire] /\ azure \in [Names -> Revisions]
      /\ wire[n] = "unsent" /\ azure[n] = 0 /\ rows[n] = Nothing
      /\ \A v \in Workers \ {w} : (Handling(v) \/ Holding(v)) => work[v].name # n
  BY <1>2, <1>a, <1>b DEF Records, NoRowYet, OneHandler, Handling, Holding
<1>4. AtAzure' /\ RowsTrue'
  BY <1>2, <1>3 DEF Records, AtAzure, RowsTrue, TrueOf
<1>5. OneHandler'
  BY <1>1, <1>2, <1>3 DEF Records, OneHandler, Handling, Others
<1>6. Stages'
  BY <1>1, <1>2, <1>3 DEF Records, Stages, Others, Handling
<1>7. NoRowYet'
  BY <1>1, <1>2, <1>3 DEF Records, NoRowYet, Handling, Holding, Others
<1>8. HeldTrue' /\ GotTrue'
  BY <1>1, <1>2, <1>3 DEF Records, HeldTrue, GotTrue, TrueOf, Holding, Others
<1>9. Accounted'
  BY <1>1, <1>2 DEF Records, Accounted, Others
<1> QED
  BY <1>4, <1>5, <1>6, <1>7, <1>8, <1>9 DEF Records

LEMMA HandlerEndsRecords ==
    ASSUME Typed, Records, NEW w \in Workers,
           Refused(w) \/ Preview(w) \/ Submitted(w) \/ SubmitFailed(w) \/ RequestFailed(w)
    PROVE  Records'
<1>0. PICK n \in Names : n = work[w].name
  BY Engaged DEF Refused, Preview, Submitted, SubmitFailed, RequestFailed
<1>1. Typed' /\ work'[w].step = "idle" /\ Others(w)
  BY HandlerEndsTyped
<1>2. /\ wire' = wire /\ azure' = azure /\ wiped' = wiped
      /\ lost \subseteq lost' /\ unsaved \subseteq unsaved' /\ Handling(w)
      /\ lost' \subseteq lost \cup {n}
  BY <1>0 DEF Refused, Preview, Submitted, SubmitFailed, RequestFailed, SaveRecord, ticketHistory,
         Handling
<1>3. rows \in [Names -> Row \cup {Nothing}] /\ \A m \in Names : azure[m] \in Nat
  BY Numbers DEF Typed, RowsTyped, AzureTyped
<1>4. /\ rows[n] = Nothing
      /\ \A v \in Workers \ {w} : (Handling(v) \/ Holding(v)) => work[v].name # n
  BY <1>0, <1>2, <1>3 DEF Records, NoRowYet, OneHandler
<1>5. /\ wire[n] = "unsent" \/ work[w].step = "put"
      /\ wire[n] = "accepted" <=> azure[n] >= 1
  BY <1>0, <1>2, <1>3, Numbers DEF Records, AtAzure, Stages, Handling
<1>6. \/ /\ rows' = rows
         /\ n \in lost' \cup unsaved' \/ wire[n] \notin {"sent", "accepted"}
      \/ \E row \in Row : rows' = [rows EXCEPT ![n] = row] /\ TrueOf(n, row)'
  <2>1. ASSUME NEW s \in RowStatus, NEW g \in Revisions, SaveRecord(n, RowWith(s, g)),
               g <= azure[n], s = "submitted" => wire[n] = "accepted",
               s # "submitted" => wire[n] \notin {"sent", "accepted"}
        PROVE  <1>6
    <3> DEFINE row == RowWith(s, g)
    <3>1. row \in Row /\ row.status = s /\ row.azure_status = g
      BY RowType
    <3>2. TrueOf(n, row)'
      BY <1>0, <1>2, <2>1, <3>1 DEF TrueOf
    <3> HIDE DEF row
    <3> QED
      BY <2>1, <3>1, <3>2 DEF SaveRecord, row
  <2>2. CASE Refused(w)
    BY <1>0, <2>2, <1>5 DEF Refused, ticketHistory
  <2>3. CASE Preview(w)
    <3>1. wire[n] = "unsent" /\ 0 <= azure[n]
      BY <1>0, <2>3, <1>3, <1>5, Numbers DEF Preview
    <3> QED
      BY <1>0, <2>3, <3>1, <2>1, Numbers, Steps DEF Preview
  <2>4. CASE Submitted(w)
    BY <1>0, <2>4, <1>5, <2>1, Numbers, Steps DEF Submitted
  <2>5. CASE SubmitFailed(w)
    <3>1. 0 <= azure[n]
      BY <1>3, Numbers
    <3> QED
      BY <1>0, <2>5, <3>1, <2>1, Numbers, Steps DEF SubmitFailed
  <2>6. CASE RequestFailed(w)
    <3> DEFINE row == RowWith("failed", 0)
    <3>1. row \in Row /\ row.status = "failed" /\ row.azure_status = 0
      BY RowType, Numbers, Steps
    <3>2. TrueOf(n, row)'
      BY <1>0, <1>2, <1>3, <2>6, <3>1, Numbers DEF TrueOf, RequestFailed
    <3> HIDE DEF row
    <3> QED
      BY <1>0, <2>6, <3>1, <3>2 DEF RequestFailed, row
  <2> QED
    BY <2>2, <2>3, <2>4, <2>5, <2>6
<1>7. AtAzure' /\ RowsTrue'
  BY <1>0, <1>2, <1>3, <1>6 DEF Records, AtAzure, RowsTrue, TrueOf
<1>8. OneHandler' /\ Stages'
  BY <1>0, <1>1, <1>2 DEF Records, OneHandler, Stages, Handling, Others
<1>9. NoRowYet'
  BY <1>0, <1>1, <1>3, <1>4, <1>6
     DEF Records, NoRowYet, Handling, Holding, Others, Typed, Named
<1>10. HeldTrue' /\ GotTrue'
  BY <1>0, <1>1, <1>2 DEF Records, HeldTrue, GotTrue, TrueOf, Holding, Others
<1>11. Accounted'
  BY <1>0, <1>1, <1>2, <1>3, <1>6, NoRowIsNothing DEF Records, Accounted, Others
<1> QED
  BY <1>7, <1>8, <1>9, <1>10, <1>11 DEF Records

\* The steps of a refresh and of a close keep the rows, and what they carry is true.
LEMMA UpdateRecords ==
    ASSUME Typed, Records, NEW w \in Workers,
           \/ \E n \in Names : Refresh(w, n) \/ Close(w, n)
           \/ Poll(w) \/ ReadRow(w)
    PROVE  Records'
<1>1. Updates /\ ~ Handling(w)
  BY RefreshTyped, CloseTyped, PollTyped, ReadRowTyped
     DEF Refresh, Close, Poll, ReadRow, Handling
<1>2. /\ wire' = wire /\ rows' = rows /\ lost' = lost /\ unsaved' = unsaved /\ wiped' = wiped
  BY <1>1 DEF Updates
<1>3. /\ \A n \in Names : azure[n] \in Nat /\ azure[n] <= azure'[n] /\ azure'[n] \in Nat
      /\ \A n \in Names : azure'[n] > 0 <=> azure[n] > 0
      /\ \A n \in Names : rows[n] \in Row \cup {Nothing}
  <2>1. \A n \in Names : azure[n] \in Nat /\ rows[n] \in Row \cup {Nothing}
    BY Numbers DEF Typed, AzureTyped, RowsTyped
  <2>2. azure \in [Names -> Revisions]
    BY DEF Typed, AzureTyped
  <2>3. ASSUME NEW n \in Names, Close(w, n) PROVE <1>3
    BY <2>1, <2>2, <2>3, TicketsAssumption DEF Close
  <2> QED
    BY <2>1, <2>3, RefreshTyped, PollTyped, ReadRowTyped
<1>4. Others(w) \/ work' = work
  BY RefreshTyped, CloseTyped, PollTyped, ReadRowTyped
<1>5. \/ work' = work
      \/ /\ ~ Handling(w)'
         /\ Holding(w)' => /\ work'[w].name \in Names /\ work'[w].row \in Row
                           /\ TrueOf(work'[w].name, work'[w].row)
                           /\ \/ rows[work'[w].name] # Nothing
                              \/ Holding(w) /\ work'[w].name = work[w].name
         /\ work'[w].step \in {"read", "write"} =>
                work'[w].name \in Names /\ work'[w].got <= azure'[work'[w].name]
  <2>1. ASSUME NEW n \in Names, Refresh(w, n) PROVE <1>5
    <3>1. work'[w].step = "poll" /\ work'[w].name = n /\ work'[w].row = rows[n]
      BY <2>1, RefreshTyped
    <3>2. rows[n] # Nothing /\ rows[n] \in Row /\ TrueOf(n, rows[n])
      BY <2>1, <1>3 DEF Refresh, Records, RowsTrue
    <3> QED
      BY <3>1, <3>2 DEF Handling, Holding
  <2>2. ASSUME NEW n \in Names, Close(w, n) PROVE <1>5
    <3>1. azure'[n] = azure[n] + 1
      BY <2>2, CloseTyped DEF Typed, AzureTyped
    <3> QED
      BY <2>2, <3>1, <1>3, CloseTyped DEF Handling, Holding
  <2>3. CASE Poll(w)
    BY <2>3, <1>3, PollTyped, Engaged DEF Poll, Handling, Holding, Records, HeldTrue
  <2>4. CASE ReadRow(w)
    BY <2>4, <1>3, ReadRowTyped, Engaged DEF ReadRow, Handling, Holding, Records, RowsTrue, GotTrue
  <2> QED
    BY <2>1, <2>2, <2>3, <2>4
<1>6. \A n \in Names, row \in Row : TrueOf(n, row) => TrueOf(n, row)'
  <2>1. \A row \in Row : row.azure_status \in Nat
    BY RowFields, Numbers
  <2> QED
    BY <1>2, <1>3, <2>1 DEF TrueOf
<1>7. AtAzure' /\ RowsTrue'
  BY <1>2, <1>3, <1>6 DEF Records, AtAzure, RowsTrue
<1>8. OneHandler' /\ Stages'
  BY <1>1, <1>2, <1>4, <1>5 DEF Records, OneHandler, Stages, Handling, Others
<1>9. NoRowYet'
  BY <1>1, <1>2, <1>4, <1>5 DEF Records, NoRowYet, Handling, Holding, Others
<1>10. HeldTrue'
  BY <1>4, <1>5, <1>6 DEF Records, HeldTrue, Holding, Others, Typed, Named
<1>11. GotTrue'
  <2>1. \A v \in Workers : work[v].got \in Nat
    BY WorkFields, Numbers DEF Typed, WorkTyped
  <2> QED
    BY <1>3, <1>4, <1>5, <2>1 DEF Records, GotTrue, Others, Typed, Named
<1>12. Accounted'
  BY <1>1, <1>2, <1>4 DEF Records, Accounted, Handling, Others
<1> QED
  BY <1>7, <1>8, <1>9, <1>10, <1>11, <1>12 DEF Records

LEMMA WriteBackRecords ==
    ASSUME Typed, Records, NEW w \in Workers, WriteBack(w)
    PROVE  Records'
<1>0. PICK n \in Names : n = work[w].name
  BY Engaged DEF WriteBack
<1>1. Typed' /\ work'[w].step = "idle" /\ Others(w)
  BY WriteBackTyped
<1>2. /\ wire' = wire /\ azure' = azure /\ lost' = lost /\ unsaved' = unsaved /\ wiped' = wiped
      /\ ~ Handling(w) /\ Holding(w) /\ work[w].step = "write"
  BY DEF WriteBack, ticketHistory, Handling, Holding
<1>3. \/ rows' = rows
      \/ \E row \in Row : rows' = [rows EXCEPT ![n] = row] /\ TrueOf(n, row)
  <2> DEFINE back == RowWith(work[w].row.status, work[w].got)
  <2>1. work[w].row \in Row /\ work[w].row.status \in RowStatus /\ work[w].got \in Revisions
    BY <1>2, Engaged, RowFields DEF Holding
  <2>2. back \in Row /\ back.status = work[w].row.status /\ back.azure_status = work[w].got
    BY <2>1, RowType
  <2>3. TrueOf(n, work[w].row) /\ work[w].got <= azure[n]
    BY <1>0, <1>2 DEF Records, HeldTrue, GotTrue
  <2>4. TrueOf(n, back)
    BY <2>2, <2>3 DEF TrueOf
  <2>5. rows' = rows \/ rows' = [rows EXCEPT ![n] = back]
    BY <1>0 DEF WriteBack
  <2> HIDE DEF back
  <2> QED
    BY <2>2, <2>4, <2>5
<1>4. rows \in [Names -> Row \cup {Nothing}]
  BY DEF Typed, RowsTyped
<1>5. \A m \in Names, row \in Row : TrueOf(m, row) => TrueOf(m, row)'
  BY <1>2 DEF TrueOf
<1>6. AtAzure' /\ RowsTrue'
  BY <1>2, <1>3, <1>4, <1>5 DEF Records, AtAzure, RowsTrue
<1>7. OneHandler' /\ Stages'
  BY <1>1, <1>2 DEF Records, OneHandler, Stages, Handling, Others
<1>8. NoRowYet'
  BY <1>0, <1>1, <1>2, <1>3, <1>4 DEF Records, NoRowYet, Handling, Holding, Others, Typed, Named
<1>9. HeldTrue' /\ GotTrue'
  BY <1>1, <1>2 DEF Records, HeldTrue, GotTrue, TrueOf, Holding, Others
<1>10. Accounted'
  BY <1>1, <1>2, <1>3, <1>4, NoRowIsNothing DEF Records, Accounted, Others
<1> QED
  BY <1>6, <1>7, <1>8, <1>9, <1>10 DEF Records

LEMMA AzureRecords ==
    ASSUME Typed, Records, NEW n \in Names, AzureAccepts(n) \/ AzureRefuses(n) \/ AzureMovesOn(n)
    PROVE  Records'
<1>1. /\ work' = work /\ rows' = rows /\ lost' = lost /\ unsaved' = unsaved /\ wiped' = wiped
  BY DEF AzureAccepts, AzureRefuses, AzureMovesOn, ticketHistory
<1>2. /\ wire \in [Names -> Wire] /\ azure \in [Names -> Revisions]
      /\ \A m \in Names : azure[m] \in Nat
  BY Numbers DEF Typed, AzureTyped
<1>3. \/ /\ wire[n] = "sent" /\ azure[n] = 0
         /\ wire' = [wire EXCEPT ![n] = "accepted"] /\ azure' = [azure EXCEPT ![n] = 1]
      \/ /\ wire[n] = "sent" /\ azure' = azure /\ azure[n] = 0
         /\ \E answer \in {"refused", "mfa_required"} : wire' = [wire EXCEPT ![n] = answer]
      \/ wire' = wire /\ azure[n] > 0 /\ azure' = [azure EXCEPT ![n] = @ + 1]
  BY <1>2 DEF AzureAccepts, AzureRefuses, AzureMovesOn, Records, AtAzure
<1>4. AtAzure'
  BY <1>2, <1>3 DEF Records, AtAzure
<1>5. \A m \in Names, row \in Row : TrueOf(m, row) => TrueOf(m, row)'
  <2>1. \A row \in Row : row.azure_status \in Nat
    BY RowFields, Numbers
  <2> QED
    BY <1>1, <1>2, <1>3, <2>1 DEF TrueOf
<1>6. RowsTrue' /\ HeldTrue'
  BY <1>1, <1>5 DEF Typed, RowsTyped, Named, Records, RowsTrue, HeldTrue, Holding
<1>7. GotTrue'
  <2>1. \A v \in Workers : work[v].got \in Nat
    BY WorkFields, Numbers DEF Typed, WorkTyped
  <2> QED
    BY <1>1, <1>2, <1>3, <2>1 DEF Records, GotTrue, Typed, Named
<1>8. OneHandler' /\ NoRowYet'
  BY <1>1 DEF Records, OneHandler, NoRowYet, Handling, Holding
<1>9. Stages' /\ Accounted'
  BY <1>1, <1>2, <1>3 DEF Records, Stages, Accounted, Typed, Named
<1> QED
  BY <1>4, <1>6, <1>7, <1>8, <1>9 DEF Records

LEMMA PageRecords ==
    ASSUME Typed, Records, NEW a \in Asks, ClosePage(a)
    PROVE  Records'
  BY DEF ClosePage, Records, AtAzure, OneHandler, Stages, NoRowYet, RowsTrue, HeldTrue, GotTrue,
         Accounted, TrueOf, Handling, Holding

LEMMA WipeRecords ==
    ASSUME Typed, Records, WipeTickets
    PROVE  Records'
<1>1. /\ work' = work /\ wire' = wire /\ azure' = azure /\ lost' = lost /\ unsaved' = unsaved
      /\ rows' = [n \in Names |-> Nothing]
      /\ wiped' = wiped \cup {n \in Names : rows[n] # Nothing}
  BY DEF WipeTickets
<1>2. NoRowYet'
  BY <1>1 DEF Typed, Named, Records, NoRowYet, Handling, Holding
<1>3. Accounted'
  BY <1>1 DEF Records, Accounted
<1> QED
  BY <1>1, <1>2, <1>3 DEF Records, AtAzure, OneHandler, Stages, RowsTrue, HeldTrue, GotTrue,
                          TrueOf, Handling, Holding

LEMMA RestartRecords ==
    ASSUME Typed, Records, RestartServer
    PROVE  Records'
<1>1. /\ wire' = wire /\ azure' = azure /\ rows' = rows /\ unsaved' = unsaved /\ wiped' = wiped
      /\ lost' = lost \cup {work[w].name : w \in {v \in Workers : work[v].step = "put"}}
  BY DEF RestartServer
<1>2. \A w \in Workers : work'[w].step = "idle"
  BY TaskFields DEF RestartServer, Idle
<1>3. RowsTrue'
  BY <1>1 DEF Records, RowsTrue, TrueOf
<1>4. Accounted'
  BY <1>1 DEF Records, Accounted
<1> QED
  BY <1>1, <1>2, <1>3, <1>4
     DEF Records, AtAzure, OneHandler, Stages, NoRowYet, HeldTrue, GotTrue, Handling, Holding

LEMMA TicketsStart == TicketsInit => Typed /\ Records
<1> SUFFICES ASSUME TicketsInit PROVE Typed /\ Records
  OBVIOUS
<1>1. Idle \in Work /\ Idle.step = "idle"
  BY TaskType, TaskFields, Numbers, Steps DEF Idle
<1>2. Typed
  BY <1>1, Numbers, TicketsAssumption
     DEF TicketsInit, Typed, WorkTyped, Named, PageTyped, AzureTyped, RowsTyped, HistoryTyped,
         Fresh, Wire, Told
<1>3. Records
  BY <1>1, Numbers
     DEF TicketsInit, Records, AtAzure, OneHandler, Stages, NoRowYet, RowsTrue, HeldTrue, GotTrue,
         Accounted, Handling, Holding
<1> QED
  BY <1>2, <1>3

LEMMA RecordsStep ==
    ASSUME Typed, Records, [TicketsNext]_ticketVars
    PROVE  Typed' /\ Records'
<1>1. CASE UNCHANGED ticketVars
  BY <1>1 DEF ticketVars, page, ticketHistory, Typed, WorkTyped, Named, PageTyped, AzureTyped,
              RowsTyped, HistoryTyped, Fresh, Records, AtAzure, OneHandler, Stages, NoRowYet,
              RowsTrue, HeldTrue, GotTrue, Accounted, TrueOf, Handling, Holding
<1>2. ASSUME NEW a \in Asks, NEW w \in Workers, NEW n \in Names, Submit(a, w, n)
      PROVE  Typed' /\ Records'
  BY <1>2, SubmitTyped, SubmitRecords
<1>3. ASSUME NEW w \in Workers, Put(w)
      PROVE  Typed' /\ Records'
  BY <1>3, PutTyped, PutRecords
<1>4. ASSUME NEW w \in Workers,
             Refused(w) \/ Preview(w) \/ Submitted(w) \/ SubmitFailed(w) \/ RequestFailed(w)
      PROVE  Typed' /\ Records'
  BY <1>4, HandlerEndsTyped, HandlerEndsRecords
<1>5. ASSUME NEW w \in Workers, 
             \/ \E n \in Names : Refresh(w, n) \/ Close(w, n)
             \/ Poll(w) \/ ReadRow(w)
      PROVE  Typed' /\ Records'
  BY <1>5, RefreshTyped, CloseTyped, PollTyped, ReadRowTyped, UpdateRecords
<1>6. ASSUME NEW w \in Workers, WriteBack(w)
      PROVE  Typed' /\ Records'
  BY <1>6, WriteBackTyped, WriteBackRecords
<1>7. ASSUME NEW n \in Names, AzureAccepts(n) \/ AzureRefuses(n) \/ AzureMovesOn(n)
      PROVE  Typed' /\ Records'
  BY <1>7, OthersTyped, AzureRecords
<1>8. ASSUME NEW a \in Asks, ClosePage(a)
      PROVE  Typed' /\ Records'
  BY <1>8, OthersTyped, PageRecords
<1>9. CASE WipeTickets
  BY <1>9, OthersTyped, WipeRecords
<1>10. CASE RestartServer
  BY <1>10, RestartTyped, RestartRecords
<1> QED
  BY <1>1, <1>2, <1>3, <1>4, <1>5, <1>6, <1>7, <1>8, <1>9, <1>10 DEF TicketsNext

LEMMA RecordsInvariant == TicketsSpec => [](Typed /\ Records)
  BY TicketsStart, RecordsStep, PTL DEF TicketsSpec

\* Type correctness, for any number of asks, names, threads and faults.
THEOREM TicketsTypeCorrect == TicketsSpec => []TicketsTypeOK
<1>1. Typed => TicketsTypeOK
  BY DEF Typed, WorkTyped, PageTyped, AzureTyped, RowsTyped, HistoryTyped, TicketsTypeOK
<1> QED
  BY <1>1, RecordsInvariant, PTL

\* Our table and Azure agree about every ticket (api/_shared/support_tickets:
\* create_ticket, refresh_status, close_azure_ticket), whatever the order of the
\* requests, the answers and the failures.
THEOREM TicketsTracked == TicketsSpec => []Tracked
<1>1. Typed /\ Records => Tracked
  <2> SUFFICES ASSUME Typed, Records, NEW n \in Names
               PROVE  /\ azure[n] > 0 =>
                           \/ rows[n] # Nothing /\ rows[n].status = "submitted"
                           \/ n \in lost \cup unsaved \cup wiped
                           \/ \E w \in Workers : work[w].step = "put" /\ work[w].name = n
                      /\ rows[n] # Nothing =>
                           /\ rows[n].azure_status <= azure[n]
                           /\ rows[n].status = "submitted" => azure[n] > 0
    BY DEF Tracked
  <2> QED
    BY DEF Records, AtAzure, Accounted, RowsTrue, TrueOf
<1> QED
  BY <1>1, RecordsInvariant, PTL

------------------------------------------------------------------------------
(***************************************************************************)
(* One ask, one ticket: an invariant of the pages and the PUTs.            *)
(***************************************************************************)
Reached(n) == wire[n] \in {"sent", "accepted"}
Unanswered(n) == n \in lost \cup unheard

PageWaits ==
    \A w \in Workers :
        Handling(w) /\ work[w].name \notin unheard =>
            /\ awaits[asked[work[w].name]] = work[w].name
            /\ told[asked[work[w].name]] # "filed"
FiledIsOver == \A a \in Asks : told[a] = "filed" => awaits[a] = Nothing
PutsAnswered ==
    \A n \in Names :
        Reached(n) =>
            \/ \E w \in Workers : Handling(w) /\ work[w].name = n
            \/ Unanswered(n)
            \/ told[asked[n]] = "filed"
OnePerAsk ==
    \A m, n \in Names :
        m # n /\ asked[m] = asked[n] /\ Reached(m) /\ Reached(n) => Unanswered(m) \/ Unanswered(n)

Filing == PageWaits /\ FiledIsOver /\ PutsAnswered /\ OnePerAsk

LEMMA SubmitFiling ==
    ASSUME Typed, Records, Filing,
           NEW a \in Asks, NEW w \in Workers, NEW n \in Names, Submit(a, w, n)
    PROVE  Filing'
<1>1. work'[w].step = "checking" /\ work'[w].name = n /\ Others(w)
  BY SubmitTyped
<1>2. /\ wire' = wire /\ told' = told /\ lost' = lost /\ unheard' = unheard
      /\ awaits[a] = Nothing /\ told[a] # "filed" /\ asked[n] = Nothing /\ work[w].step = "idle"
      /\ asked' = [asked EXCEPT ![n] = a] /\ awaits' = [awaits EXCEPT ![a] = n]
  BY DEF Submit, ticketHistory
<1>3. /\ asked \in [Names -> Asks \cup {Nothing}] /\ awaits \in [Asks -> Names \cup {Nothing}]
      /\ wire[n] = "unsent" /\ Nothing \notin Names /\ Nothing \notin Asks
      /\ \A v \in Workers :
            work[v].step # "idle" => work[v].name \in Names /\ asked[work[v].name] \in Asks
      /\ \A v \in Workers : work[v].step # "idle" => work[v].name # n
  BY <1>2, TicketsAssumption DEF Typed, PageTyped, Fresh, Named
<1>4. PageWaits'
  BY <1>1, <1>2, <1>3 DEF Filing, PageWaits, Handling, Others
<1>5. FiledIsOver'
  BY <1>2, <1>3 DEF Filing, FiledIsOver
<1>6. PutsAnswered'
  BY <1>1, <1>2, <1>3 DEF Filing, PutsAnswered, Reached, Unanswered, Handling, Others
<1>7. OnePerAsk'
  BY <1>2, <1>3 DEF Filing, OnePerAsk, Reached, Unanswered
<1> QED
  BY <1>4, <1>5, <1>6, <1>7 DEF Filing

LEMMA PutFiling ==
    ASSUME Typed, Records, Filing, NEW w \in Workers, Put(w)
    PROVE  Filing'
<1>0. PICK n \in Names : n = work[w].name /\ asked[n] \in Asks
  BY Engaged DEF Put
<1>1. work'[w].step = "put" /\ work'[w].name = n /\ Others(w)
  BY <1>0, PutTyped
<1>2. /\ wire' = [wire EXCEPT ![n] = "sent"] /\ wire \in [Names -> Wire]
      /\ asked' = asked /\ awaits' = awaits /\ told' = told /\ lost' = lost /\ unheard' = unheard
      /\ Handling(w) /\ wire[n] = "unsent"
  BY <1>0 DEF Put, page, ticketHistory, Typed, AzureTyped, Records, Stages, Handling
<1>3. PageWaits'
  BY <1>0, <1>1, <1>2 DEF Filing, PageWaits, Handling, Others
<1>4. FiledIsOver'
  BY <1>2 DEF Filing, FiledIsOver
<1>5. PutsAnswered'
  BY <1>0, <1>1, <1>2 DEF Filing, PutsAnswered, Reached, Unanswered, Handling, Others
<1>6. ASSUME NEW m \in Names, m # n, asked[m] = asked[n], Reached(m)
      PROVE  Unanswered(m) \/ Unanswered(n)
  <2>1. CASE n \in unheard
    BY <2>1 DEF Unanswered
  <2>2. CASE n \notin unheard
    <3>1. awaits[asked[n]] = n /\ told[asked[n]] # "filed"
      BY <2>2, <1>0, <1>2 DEF Filing, PageWaits
    <3>2. \A v \in Workers : Handling(v) /\ work[v].name = m => m \in unheard
      BY <3>1, <1>6 DEF Filing, PageWaits
    <3> QED
      BY <3>1, <3>2, <1>6 DEF Filing, PutsAnswered, Unanswered
  <2> QED
    BY <2>1, <2>2
<1>7. OnePerAsk'
  BY <1>0, <1>2, <1>6 DEF Filing, OnePerAsk, Reached, Unanswered
<1> QED
  BY <1>3, <1>4, <1>5, <1>7 DEF Filing

LEMMA HandlerEndsFiling ==
    ASSUME Typed, Records, Filing, NEW w \in Workers,
           Refused(w) \/ Preview(w) \/ Submitted(w) \/ SubmitFailed(w) \/ RequestFailed(w)
    PROVE  Filing'
<1>0. PICK n \in Names : n = work[w].name /\ asked[n] \in Asks
  BY Engaged DEF Refused, Preview, Submitted, SubmitFailed, RequestFailed
<1>1. work'[w].step = "idle" /\ Others(w)
  BY HandlerEndsTyped
<1>2. /\ wire' = wire /\ asked' = asked /\ lost \subseteq lost' /\ unheard' = unheard
      /\ Handling(w)
  BY DEF Refused, Preview, Submitted, SubmitFailed, RequestFailed, ticketHistory, Handling
<1>3. \E what \in Told :
          /\ Answer(n, what)
          /\ what = "filed" \/ n \in lost' \/ ~ Reached(n)
  BY <1>0 DEF Refused, Preview, Submitted, SubmitFailed, RequestFailed, Told, Reached,
              Records, Stages
<1>4. PICK what \in Told :
          /\ what = "filed" \/ n \in lost' \/ ~ Reached(n)
          /\ \/ /\ awaits[asked[n]] = n
                /\ told' = [told EXCEPT ![asked[n]] = what]
                /\ awaits' = [awaits EXCEPT ![asked[n]] = Nothing]
             \/ awaits[asked[n]] # n /\ told' = told /\ awaits' = awaits
  BY <1>3 DEF Answer
<1>5. /\ told \in [Asks -> Told] /\ awaits \in [Asks -> Names \cup {Nothing}]
      /\ asked \in [Names -> Asks \cup {Nothing}] /\ Nothing \notin Names /\ Nothing \notin Asks
      /\ \A m \in Names : Reached(m) => asked[m] \in Asks
      /\ \A v \in Workers :
            work[v].step # "idle" => work[v].name \in Names /\ asked[work[v].name] \in Asks
  BY TicketsAssumption DEF Typed, PageTyped, Named, Fresh, Reached
<1>6. \A v \in Workers \ {w} : Handling(v) => work[v].name # n
  BY <1>0, <1>2 DEF Records, OneHandler
<1>7. PageWaits'
  BY <1>0, <1>1, <1>2, <1>4, <1>5, <1>6 DEF Filing, PageWaits, Handling, Others
<1>8. FiledIsOver'
  BY <1>0, <1>4, <1>5 DEF Filing, FiledIsOver
<1>9. \A a \in Asks : told[a] = "filed" => told'[a] = "filed"
  BY <1>0, <1>4, <1>5 DEF Filing, FiledIsOver
<1>10. Reached(n) => Unanswered(n)' \/ told'[asked[n]] = "filed"
  BY <1>0, <1>2, <1>4, <1>5 DEF Filing, PageWaits, Unanswered
<1>11. PutsAnswered'
  BY <1>0, <1>1, <1>2, <1>5, <1>6, <1>9, <1>10
     DEF Filing, PutsAnswered, Reached, Unanswered, Handling, Others
<1>12. OnePerAsk'
  BY <1>2 DEF Filing, OnePerAsk, Reached, Unanswered
<1> QED
  BY <1>7, <1>8, <1>11, <1>12 DEF Filing

\* Steps after which the same pages wait for the same handlers.
LEMMA OthersFiling ==
    ASSUME Typed, Filing,
           asked' = asked /\ awaits' = awaits /\ told' = told /\ lost' = lost /\ unheard' = unheard,
           \A n \in Names : Reached(n)' => Reached(n),
           \A w \in Workers : \/ work'[w] = work[w]
                              \/ ~ Handling(w) /\ ~ Handling(w)'
    PROVE  Filing'
<1>1. PageWaits' /\ FiledIsOver'
  BY DEF Filing, PageWaits, FiledIsOver, Handling
<1>2. PutsAnswered'
  BY DEF Filing, PutsAnswered, Unanswered, Handling
<1>3. OnePerAsk'
  BY DEF Filing, OnePerAsk, Unanswered
<1> QED
  BY <1>1, <1>2, <1>3 DEF Filing

LEMMA CloseFiling ==
    ASSUME Typed, Records, Filing, NEW a \in Asks, ClosePage(a)
    PROVE  Filing'
<1>1. /\ wire' = wire /\ asked' = asked /\ told' = told /\ lost' = lost /\ work' = work
      /\ awaits[a] # Nothing
      /\ unheard' = unheard \cup {awaits[a]} /\ awaits' = [awaits EXCEPT ![a] = Nothing]
  BY DEF ClosePage
<1>2. awaits \in [Asks -> Names \cup {Nothing}]
  BY DEF Typed, PageTyped
<1>3. PageWaits'
  BY <1>1, <1>2 DEF Filing, PageWaits, Handling, Typed, Named
<1>4. FiledIsOver' /\ PutsAnswered' /\ OnePerAsk'
  BY <1>1, <1>2 DEF Filing, FiledIsOver, PutsAnswered, OnePerAsk, Reached, Unanswered, Handling
<1> QED
  BY <1>3, <1>4 DEF Filing

LEMMA RestartFiling ==
    ASSUME Typed, Records, Filing, RestartServer
    PROVE  Filing'
<1>1. /\ wire' = wire /\ asked' = asked
      /\ lost' = lost \cup {work[w].name : w \in {v \in Workers : work[v].step = "put"}}
      /\ unheard' = unheard \cup {n \in Names : \E a \in Asks : awaits[a] = n}
      /\ told' = [a \in Asks |-> IF awaits[a] = Nothing THEN told[a] ELSE "failed"]
      /\ awaits' = [a \in Asks |-> Nothing]
  BY DEF RestartServer
<1>2. \A w \in Workers : work'[w].step = "idle"
  BY TaskFields DEF RestartServer, Idle
<1>3. PageWaits' /\ FiledIsOver'
  BY <1>1, <1>2 DEF PageWaits, FiledIsOver, Handling
<1>4. PutsAnswered'
  <2> SUFFICES ASSUME NEW n \in Names, Reached(n), ~ Unanswered(n)'
               PROVE  told'[asked[n]] = "filed"
    BY <1>1 DEF PutsAnswered, Reached
  <2>1. ~ Unanswered(n) /\ asked[n] \in Asks
    BY <1>1 DEF Unanswered, Reached, Typed, Fresh, PageTyped
  <2>2. ASSUME NEW w \in Workers, Handling(w), work[w].name = n
        PROVE  FALSE
    <3>1. work[w].step = "put"
      BY <2>2 DEF Handling, Reached, Records, Stages
    <3> QED
      BY <3>1, <2>2, <1>1 DEF Unanswered
  <2>3. told[asked[n]] = "filed"
    BY <2>1, <2>2 DEF Filing, PutsAnswered
  <2> QED
    BY <2>1, <2>3, <1>1 DEF Filing, FiledIsOver
<1>5. OnePerAsk'
  BY <1>1 DEF Filing, OnePerAsk, Reached, Unanswered
<1> QED
  BY <1>3, <1>4, <1>5 DEF Filing

LEMMA FilingStart == TicketsInit => Filing
<1>1. Idle.step = "idle"
  BY TaskFields DEF Idle
<1> QED
  BY <1>1 DEF TicketsInit, Filing, PageWaits, FiledIsOver, PutsAnswered, OnePerAsk, Reached, Handling

LEMMA FilingStep ==
    ASSUME Typed, Records, Filing, [TicketsNext]_ticketVars
    PROVE  Filing'
<1>1. CASE UNCHANGED ticketVars
  BY <1>1, OthersFiling DEF ticketVars, page, ticketHistory, Reached
<1>2. ASSUME NEW w \in Workers, NEW n \in Names, Refresh(w, n) \/ Close(w, n)
      PROVE  Filing'
  BY <1>2, RefreshTyped, CloseTyped, OthersFiling DEF Refresh, Close, Updates, Reached, Handling, Others
<1>3. ASSUME NEW w \in Workers, Poll(w) \/ ReadRow(w)
      PROVE  Filing'
  BY <1>3, PollTyped, ReadRowTyped, OthersFiling DEF Poll, ReadRow, Updates, Reached, Handling, Others
<1>4. ASSUME NEW w \in Workers, WriteBack(w)
      PROVE  Filing'
  BY <1>4, WriteBackTyped, OthersFiling
     DEF WriteBack, page, ticketHistory, Reached, Handling, Others
<1>5. ASSUME NEW n \in Names, AzureAccepts(n) \/ AzureRefuses(n) \/ AzureMovesOn(n)
      PROVE  Filing'
  <2>1. /\ work' = work /\ UNCHANGED <<page, ticketHistory>>
        /\ \/ wire' = wire
           \/ wire[n] = "sent" /\ \E answer \in Wire : wire' = [wire EXCEPT ![n] = answer]
    BY <1>5 DEF AzureAccepts, AzureRefuses, AzureMovesOn, Wire
  <2>2. \A m \in Names : Reached(m)' => Reached(m)
    BY <2>1 DEF Reached, Typed, AzureTyped
  <2> QED
    BY <2>1, <2>2, OthersFiling DEF page, ticketHistory
<1>6. CASE WipeTickets
  BY <1>6, OthersFiling DEF WipeTickets, page, Reached
<1> QED
  BY <1>1, <1>2, <1>3, <1>4, <1>5, <1>6, SubmitFiling, PutFiling, HandlerEndsFiling, CloseFiling,
     RestartFiling
     DEF TicketsNext

\* A refusal, an MFA challenge or a failing save never makes an ask file two tickets
\* (support_ticket_create and the dialog of app.js that calls it).
THEOREM FiledOnce == TicketsSpec => []FiledTwiceOnlyAfterLostAnswer
<1>1. Typed /\ Records /\ Filing => FiledTwiceOnlyAfterLostAnswer
  BY DEF Records, AtAzure, Filing, OnePerAsk, Reached, Unanswered, FiledTwiceOnlyAfterLostAnswer
<1>2. TicketsInit => Typed /\ Records /\ Filing
  BY TicketsStart, FilingStart
<1>3. Typed /\ Records /\ Filing /\ [TicketsNext]_ticketVars => (Typed /\ Records /\ Filing)'
  BY RecordsStep, FilingStep
<1> QED
  BY <1>1, <1>2, <1>3, PTL DEF TicketsSpec

------------------------------------------------------------------------------
(***************************************************************************)
(* The status shown: an invariant of the updates of a row.                 *)
(***************************************************************************)
Updater(w) == work[w].step \in {"poll", "read", "write"}

OneUpdate ==
    \A v, w \in Workers :
        v # w /\ Updater(v) /\ Updater(w) /\ work[v].name = work[w].name =>
            work[w].name \in overlapped
GotCurrent ==
    \A w \in Workers :
        work[w].step \in {"read", "write"} =>
            /\ work[w].got >= 1
            /\ work[w].name \notin overlapped /\ rows[work[w].name] # Nothing =>
                  rows[work[w].name].azure_status <= work[w].got
SameStatus ==
    \A w \in Workers :
        Holding(w) =>
            /\ rows[work[w].name] # Nothing =>
                  rows[work[w].name].status = work[w].row.status
            /\ \A v \in Workers :
                  Holding(v) /\ work[v].name = work[w].name =>
                      work[v].row.status = work[w].row.status

InTurn == OneUpdate /\ GotCurrent /\ SameStatus

\* Steps that leave the rows and the updates alone.
LEMMA OthersInTurn ==
    ASSUME InTurn, rows' = rows, overlapped' = overlapped,
           \A w \in Workers : work'[w] = work[w] \/ ~ Updater(w)'
    PROVE  InTurn'
<1>1. OneUpdate'
  BY DEF InTurn, OneUpdate, Updater
<1>2. GotCurrent'
  BY DEF InTurn, GotCurrent, Updater
<1>3. SameStatus'
  BY DEF InTurn, SameStatus, Updater, Holding
<1> QED
  BY <1>1, <1>2, <1>3 DEF InTurn

LEMMA HandlerEndsInTurn ==
    ASSUME Typed, Records, InTurn, NEW w \in Workers,
           Refused(w) \/ Preview(w) \/ Submitted(w) \/ SubmitFailed(w) \/ RequestFailed(w)
    PROVE  /\ InTurn'
           /\ \A n \in Names : rows[n] # Nothing => rows'[n] = rows[n]
<1>0. PICK n \in Names : n = work[w].name
  BY Engaged DEF Refused, Preview, Submitted, SubmitFailed, RequestFailed
<1>1. work'[w].step = "idle" /\ Others(w)
  BY HandlerEndsTyped
<1>2. overlapped' = overlapped /\ Handling(w)
  BY DEF Refused, Preview, Submitted, SubmitFailed, RequestFailed, ticketHistory, Handling
<1>3. /\ rows[n] = Nothing
      /\ \A v \in Workers \ {w} : Holding(v) => work[v].name # n
  BY <1>0, <1>2 DEF Records, NoRowYet
<1>4. /\ rows \in [Names -> Row \cup {Nothing}]
      /\ \A v \in Workers : Updater(v) => work[v].name \in Names
  BY DEF Typed, RowsTyped, Named, Updater
<1>5. \/ rows' = rows
      \/ \E row \in Row : rows' = [rows EXCEPT ![n] = row] /\ row.azure_status <= 1
  <2>1. \A s \in RowStatus, g \in Revisions :
            RowWith(s, g) \in Row /\ RowWith(s, g).azure_status = g
    BY RowType
  <2> QED
    BY <1>0, <2>1, Numbers, Steps
       DEF Refused, Preview, Submitted, SubmitFailed, RequestFailed, SaveRecord, ticketHistory
<1>6. OneUpdate'
  BY <1>1, <1>2 DEF InTurn, OneUpdate, Updater, Others
<1>7. GotCurrent'
  <2>1. \A v \in Workers : work[v].got \in Nat
    BY WorkFields, Numbers DEF Typed, WorkTyped
  <2>2. \A row \in Row : row.azure_status \in Nat
    BY RowFields, Numbers
  <2> QED
    BY <1>1, <1>2, <1>3, <1>4, <1>5, <2>1, <2>2 DEF InTurn, GotCurrent, Updater, Others
<1>8. SameStatus'
  BY <1>1, <1>2, <1>3, <1>4, <1>5 DEF InTurn, SameStatus, Updater, Holding, Others
<1> QED
  BY <1>3, <1>4, <1>5, <1>6, <1>7, <1>8 DEF InTurn

LEMMA RefreshInTurn ==
    ASSUME Typed, Records, InTurn, NEW w \in Workers, NEW n \in Names, Refresh(w, n)
    PROVE  InTurn'
<1>1. /\ work'[w].step = "poll" /\ work'[w].name = n /\ work'[w].row = rows[n] /\ Others(w)
      /\ rows' = rows
  BY RefreshTyped DEF Updates
<1>2. /\ work[w].step = "idle" /\ rows[n] # Nothing
      /\ overlapped' = IF Updating(n) THEN overlapped \cup {n} ELSE overlapped
  BY DEF Refresh, Overlap
<1>3. OneUpdate'
  BY <1>1, <1>2 DEF InTurn, OneUpdate, Updater, Updating, Others
<1>4. GotCurrent'
  BY <1>1, <1>2 DEF InTurn, GotCurrent, Others
<1>5. SameStatus'
  BY <1>1, <1>2 DEF InTurn, SameStatus, Holding, Others
<1> QED
  BY <1>3, <1>4, <1>5 DEF InTurn

LEMMA CloseInTurn ==
    ASSUME Typed, Records, InTurn, NEW w \in Workers, NEW n \in Names, Close(w, n)
    PROVE  InTurn'
<1>1. CASE work' = work
  BY <1>1, CloseTyped DEF Close, Overlap, Updates, InTurn, OneUpdate, GotCurrent, SameStatus, Updater, Holding
<1>2. CASE work' # work
  <2>1. /\ work'[w].step = "read" /\ work'[w].name = n /\ work'[w].got = azure[n] + 1
        /\ Others(w) /\ rows' = rows
    BY <1>2, CloseTyped DEF Updates
  <2>2. /\ work[w].step = "idle"
        /\ overlapped' = IF Updating(n) THEN overlapped \cup {n} ELSE overlapped
    BY <1>2 DEF Close, Overlap
  <2>3. azure[n] \in Nat /\ \A row \in Row : row.azure_status \in Nat
    BY RowFields, Numbers DEF Typed, AzureTyped
  <2>4. rows[n] # Nothing => rows[n] \in Row /\ rows[n].azure_status <= azure[n]
    BY DEF Typed, RowsTyped, Records, RowsTrue, TrueOf
  <2>5. OneUpdate'
    BY <2>1, <2>2 DEF InTurn, OneUpdate, Updater, Updating, Others
  <2>6. GotCurrent'
    BY <2>1, <2>2, <2>3, <2>4 DEF InTurn, GotCurrent, Others
  <2>7. SameStatus'
    BY <2>1, <2>2 DEF InTurn, SameStatus, Holding, Others
  <2> QED
    BY <2>5, <2>6, <2>7 DEF InTurn
<1> QED
  BY <1>1, <1>2

LEMMA ReadInTurn ==
    ASSUME Typed, Records, InTurn, NEW w \in Workers, Poll(w) \/ ReadRow(w)
    PROVE  InTurn'
<1>0. PICK n \in Names : n = work[w].name
  BY Engaged DEF Poll, ReadRow
<1>1. rows' = rows /\ overlapped' = overlapped /\ Others(w) /\ Updater(w)
  BY PollTyped, ReadRowTyped DEF Updates, Poll, ReadRow, Updater
<1>2. \/ work'[w].step = "idle"
      \/ /\ work[w].step = "poll" /\ work'[w].step = "write" /\ work'[w].name = n
         /\ work'[w].row = work[w].row /\ work'[w].got = azure[n] /\ azure[n] > 0
      \/ /\ work[w].step = "read" /\ work'[w].step = "write" /\ work'[w].name = n
         /\ work'[w].row = rows[n] /\ work'[w].got = work[w].got /\ rows[n] # Nothing
  BY <1>0, PollTyped, ReadRowTyped DEF Poll, ReadRow
<1>3. azure[n] \in Nat
  BY Numbers DEF Typed, AzureTyped
<1>4. OneUpdate'
  BY <1>0, <1>1, <1>2 DEF InTurn, OneUpdate, Updater, Others
<1>5. GotCurrent'
  BY <1>0, <1>1, <1>2, <1>3 DEF InTurn, GotCurrent, Others, Records, RowsTrue, TrueOf
<1>6. SameStatus'
  BY <1>0, <1>1, <1>2 DEF InTurn, SameStatus, Holding, Others
<1> QED
  BY <1>4, <1>5, <1>6 DEF InTurn

LEMMA WriteBackInTurn ==
    ASSUME Typed, Records, InTurn, NEW w \in Workers, WriteBack(w)
    PROVE  /\ InTurn'
           /\ \A n \in Names :
                 rows[n] # Nothing =>
                     /\ rows'[n].azure_status >= rows[n].azure_status \/ n \in overlapped
                     /\ rows'[n].status = rows[n].status
<1>0. PICK n \in Names : n = work[w].name
  BY Engaged DEF WriteBack
<1>1. work'[w].step = "idle" /\ Others(w)
  BY WriteBackTyped
<1>2. overlapped' = overlapped /\ Holding(w) /\ Updater(w) /\ work[w].step = "write"
  BY DEF WriteBack, ticketHistory, Holding, Updater
<1>3. /\ \A v \in Workers : work[v].got \in Nat
      /\ \A row \in Row : row.azure_status \in Nat
  BY WorkFields, RowFields, Numbers DEF Typed, WorkTyped
<1>4. /\ rows \in [Names -> Row \cup {Nothing}]
      /\ \A v \in Workers : Updater(v) => work[v].name \in Names
  BY DEF Typed, RowsTyped, Named, Updater
<1>5. PICK back \in Row :
          /\ back.status = work[w].row.status /\ back.azure_status = work[w].got
          /\ rows' = rows \/ rows' = [rows EXCEPT ![n] = back]
  <2>1. work[w].row.status \in RowStatus /\ work[w].got \in Revisions
    BY <1>2, Engaged, RowFields DEF Holding
  <2> DEFINE back == RowWith(work[w].row.status, work[w].got)
  <2>2. back \in Row /\ back.status = work[w].row.status /\ back.azure_status = work[w].got
    BY <2>1, RowType
  <2>3. rows' = rows \/ rows' = [rows EXCEPT ![n] = back]
    BY <1>0 DEF WriteBack
  <2> HIDE DEF back
  <2> QED
    BY <2>2, <2>3
<1>6. OneUpdate'
  BY <1>1, <1>2 DEF InTurn, OneUpdate, Updater, Others
<1>7. GotCurrent'
  <2> SUFFICES ASSUME NEW v \in Workers, work'[v].step \in {"read", "write"}
               PROVE  /\ work'[v].got >= 1
                      /\ work'[v].name \notin overlapped' /\ rows'[work'[v].name] # Nothing =>
                             rows'[work'[v].name].azure_status <= work'[v].got
    BY DEF GotCurrent
  <2>1. v # w /\ work'[v] = work[v] /\ Updater(v)
    BY <1>1 DEF Others, Updater
  <2>2. CASE work[v].name = n
    BY <2>1, <2>2, <1>0, <1>2 DEF InTurn, OneUpdate, GotCurrent
  <2>3. CASE work[v].name # n
    BY <2>1, <2>3, <1>2, <1>4, <1>5 DEF InTurn, GotCurrent
  <2> QED
    BY <2>2, <2>3
<1>8. SameStatus'
  <2> SUFFICES ASSUME NEW v \in Workers, Holding(v)'
               PROVE  /\ rows'[work'[v].name] # Nothing =>
                            rows'[work'[v].name].status = work'[v].row.status
                      /\ \A u \in Workers :
                            Holding(u)' /\ work'[u].name = work'[v].name =>
                                work'[u].row.status = work'[v].row.status
    BY DEF SameStatus
  <2>1. v # w /\ work'[v] = work[v] /\ Holding(v) /\ Updater(v)
    BY <1>1 DEF Others, Holding, Updater
  <2>2. rows'[work[v].name] # Nothing => rows'[work[v].name].status = work[v].row.status
    BY <2>1, <1>0, <1>2, <1>4, <1>5 DEF InTurn, SameStatus
  <2>3. \A u \in Workers : Holding(u)' => work'[u] = work[u] /\ Holding(u)
    BY <1>1 DEF Others, Holding
  <2> QED
    BY <2>1, <2>2, <2>3 DEF InTurn, SameStatus
<1>9. rows[n] # Nothing =>
          /\ rows[n].status = back.status
          /\ n \notin overlapped => rows[n].azure_status <= back.azure_status
  BY <1>0, <1>2, <1>5 DEF InTurn, GotCurrent, SameStatus
<1>10. \A m \in Names :
          rows[m] # Nothing =>
              /\ rows'[m].azure_status >= rows[m].azure_status \/ m \in overlapped
              /\ rows'[m].status = rows[m].status
  BY <1>3, <1>4, <1>5, <1>9
<1> QED
  BY <1>6, <1>7, <1>8, <1>10 DEF InTurn

LEMMA InTurnStart == TicketsInit => InTurn
<1>1. Idle.step = "idle"
  BY TaskFields DEF Idle
<1> QED
  BY <1>1 DEF TicketsInit, InTurn, OneUpdate, GotCurrent, SameStatus, Updater, Holding

LEMMA InTurnStep ==
    ASSUME Typed, Records, InTurn, [TicketsNext]_ticketVars
    PROVE  /\ InTurn'
           /\ \A n \in Names :
                 rows[n] # Nothing /\ rows'[n] # Nothing =>
                     /\ rows'[n].azure_status >= rows[n].azure_status \/ n \in overlapped
                     /\ rows'[n].status = rows[n].status
<1> DEFINE Advances ==
              \A n \in Names :
                 rows[n] # Nothing /\ rows'[n] # Nothing =>
                     /\ rows'[n].azure_status >= rows[n].azure_status \/ n \in overlapped
                     /\ rows'[n].status = rows[n].status
<1>0. ASSUME \A n \in Names : rows[n] # Nothing => rows'[n] = rows[n]
      PROVE  Advances
  <2>1. \A n \in Names : rows[n] # Nothing => rows[n].azure_status \in Nat
    BY RowFields, Numbers DEF Typed, RowsTyped
  <2> QED
    BY <1>0, <2>1
<1>1. CASE UNCHANGED ticketVars
  BY <1>0, <1>1, OthersInTurn DEF ticketVars, page, ticketHistory
<1>2. ASSUME NEW a \in Asks, NEW w \in Workers, NEW n \in Names, Submit(a, w, n)
      PROVE  InTurn' /\ Advances
  <2>1. rows' = rows /\ overlapped' = overlapped
    BY <1>2 DEF Submit, ticketHistory
  <2>2. \A v \in Workers : work'[v] = work[v] \/ ~ Updater(v)'
    BY <1>2, SubmitTyped DEF Others, Updater
  <2> QED
    BY <1>0, <2>1, <2>2, OthersInTurn
<1>3. ASSUME NEW w \in Workers, Put(w)
      PROVE  InTurn' /\ Advances
  <2>1. rows' = rows /\ overlapped' = overlapped
    BY <1>3 DEF Put, ticketHistory
  <2>2. \A v \in Workers : work'[v] = work[v] \/ ~ Updater(v)'
    BY <1>3, PutTyped DEF Others, Updater
  <2> QED
    BY <1>0, <2>1, <2>2, OthersInTurn
<1>4. ASSUME NEW w \in Workers,
             Refused(w) \/ Preview(w) \/ Submitted(w) \/ SubmitFailed(w) \/ RequestFailed(w)
      PROVE  InTurn' /\ Advances
  BY <1>4, <1>0, HandlerEndsInTurn
<1>5. ASSUME NEW w \in Workers, NEW n \in Names, Refresh(w, n) \/ Close(w, n)
      PROVE  InTurn' /\ Advances
  BY <1>5, <1>0, RefreshInTurn, CloseInTurn DEF Refresh, Close
<1>6. ASSUME NEW w \in Workers, Poll(w) \/ ReadRow(w)
      PROVE  InTurn' /\ Advances
  BY <1>6, <1>0, ReadInTurn DEF Poll, ReadRow
<1>7. ASSUME NEW w \in Workers, WriteBack(w)
      PROVE  InTurn' /\ Advances
  BY <1>7, WriteBackInTurn
<1>8. ASSUME NEW n \in Names, AzureAccepts(n) \/ AzureRefuses(n) \/ AzureMovesOn(n)
      PROVE  InTurn' /\ Advances
  BY <1>8, <1>0, OthersInTurn DEF AzureAccepts, AzureRefuses, AzureMovesOn, ticketHistory
<1>9. ASSUME NEW a \in Asks, ClosePage(a)
      PROVE  InTurn' /\ Advances
  BY <1>9, <1>0, OthersInTurn DEF ClosePage
<1>10. CASE WipeTickets
  <2>1. /\ work' = work /\ overlapped' = overlapped /\ rows' = [n \in Names |-> Nothing]
    BY <1>10 DEF WipeTickets
  <2>2. InTurn'
    BY <2>1 DEF InTurn, OneUpdate, GotCurrent, SameStatus, Updater, Holding, Typed, Named
  <2> QED
    BY <2>1, <2>2
<1>11. CASE RestartServer
  <2>1. rows' = rows /\ overlapped' = overlapped /\ \A w \in Workers : work'[w].step = "idle"
    BY <1>11, TaskFields DEF RestartServer, Idle
  <2> QED
    BY <1>0, <2>1, OthersInTurn DEF Updater
<1> QED
  BY <1>1, <1>2, <1>3, <1>4, <1>5, <1>6, <1>7, <1>8, <1>9, <1>10, <1>11 DEF TicketsNext

\* The status a user sees never goes back (refresh_status, close_azure_ticket and
\* the writes of _save_record), but for two updates of the row at once.
THEOREM StatusAdvances == TicketsSpec => StatusOnlyAdvances
<1> DEFINE Advances ==
              \A n \in Names :
                 rows[n] # Nothing /\ rows'[n] # Nothing =>
                     /\ rows'[n].azure_status >= rows[n].azure_status \/ n \in overlapped
                     /\ rows'[n].status = rows[n].status
<1>1. TicketsInit => Typed /\ Records /\ InTurn
  BY TicketsStart, InTurnStart
<1>2. Typed /\ Records /\ InTurn /\ [TicketsNext]_ticketVars => (Typed /\ Records /\ InTurn)'
  BY RecordsStep, InTurnStep
<1>3. Typed /\ Records /\ InTurn /\ [TicketsNext]_ticketVars => [Advances]_ticketVars
  BY InTurnStep
<1> QED
  BY <1>1, <1>2, <1>3, PTL DEF TicketsSpec, StatusOnlyAdvances
==============================================================================
