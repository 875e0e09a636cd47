--------------------------- MODULE StateSync_proofs ---------------------------
(***************************************************************************)
(* Proofs about the browser-held copy, for any customers, pages, changes   *)
(* and number of reloads, evictions and failing calls.                     *)
(***************************************************************************)
EXTENDS StateSync, TLAPS

------------------------------------------------------------------------------
\* A page that runs has a token; one that shows an account has a customer's; one
\* that replays has something to replay; timers and saves are of pages that run.
Placed ==
    /\ \A t \in Tabs : page[t] # "closed" => token[t] \in Accounts
    /\ \A t \in Tabs : page[t] \notin {"closed", "gate"} => account[t] \in Accounts
    /\ \A t \in Tabs : page[t] = "hydrating" => raw[t] # None
    /\ \A t \in Tabs : timer[t] => page[t] # "closed"
    /\ \A s \in saves : page[s.tab] # "closed" /\ s.from \in Accounts

TypeInv == TypeOK /\ Placed

Saves == [tab : Tabs, from : Keys, doc : {None} \cup Document]

LEMMA HappensType ==
    ASSUME NEW e \in Events, count \in [Events -> Nat], Happens(e)
    PROVE  count' \in [Events -> Nat]
<1> DEFINE n == count[e] + 1
<1>1. n \in Nat
  OBVIOUS
<1>2. count' = [count EXCEPT ![e] = n]
  BY DEF Happens
<1> HIDE DEF n
<1> QED
  BY <1>1, <1>2

\* Documents are filtered to documents.
LEMMA FilterType ==
    ASSUME NEW doc \in Document
    PROVE  LatestOnly(doc) \in Document /\ TablesOnly(doc) \in Document
  BY DEF Document, LatestOnly, TablesOnly

\* The page that waited for a save goes on; no other changes.
LEMMA EndSaveType ==
    ASSUME page \in [Tabs -> Pages], NEW s \in Saves, EndSave(s)
    PROVE  /\ page' \in [Tabs -> Pages]
           /\ \A t \in Tabs : \/ page'[t] = page[t]
                              \/ page[t] = "saving" /\ page'[t] = "leaving"
  BY DEF EndSave, Saves, Pages

\* An export that is asked for comes from a page that runs.
LEMMA AskExportType ==
    ASSUME TypeInv, NEW t \in Tabs, page[t] # "closed", AskExport(t)
    PROVE  /\ saves' \subseteq Saves
           /\ \A s \in saves' : s \in saves \/ s = [tab |-> t, from |-> token[t], doc |-> None]
           /\ \A s \in saves' : page[s.tab] # "closed" /\ s.from \in Accounts
<1> DEFINE new == [tab |-> t, from |-> token[t], doc |-> None]
<1>1. new \in Saves /\ new.tab = t /\ new.from = token[t] /\ token[t] \in Accounts
  BY DEF TypeInv, TypeOK, Placed, Saves
<1>2. saves' \subseteq saves \cup {new}
  BY DEF AskExport
<1>3. saves \subseteq Saves
  BY DEF TypeInv, TypeOK, Saves
<1> HIDE DEF new
<1>4. \A s \in saves' : page[s.tab] # "closed" /\ s.from \in Accounts
  BY <1>1, <1>2 DEF TypeInv, Placed
<1> QED
  BY <1>1, <1>2, <1>3, <1>4 DEF new

\* A page that starts afresh.
LEMMA BootType ==
    ASSUME TypeInv, NEW t \in Tabs, NEW a \in Accounts, Boot(t, a)
    PROVE  /\ page' \in [Tabs -> Pages] /\ account' \in [Tabs -> Keys]
           /\ token' \in [Tabs -> Keys] /\ raw' \in [Tabs -> {None} \cup Document]
           /\ page'[t] \in {"open", "hydrating"} /\ account'[t] = a /\ token'[t] = a
           /\ raw'[t] = local[a]
           /\ page'[t] = "hydrating" => raw'[t] # None
           /\ \A u \in Tabs \ {t} : /\ page'[u] = page[u] /\ account'[u] = account[u]
                                    /\ token'[u] = token[u] /\ raw'[u] = raw[u]
<1>1. local[a] \in {None} \cup Document /\ a \in Keys
  BY DEF TypeInv, TypeOK, Keys
<1> QED
  BY <1>1 DEF TypeInv, TypeOK, Boot, Pages

\* It is where it should be, and so are the others.
LEMMA BootPlaced ==
    ASSUME TypeInv, NEW t \in Tabs, NEW a \in Accounts, Boot(t, a),
           \A u \in Tabs \ {t} : timer'[u] = timer[u],
           saves' \subseteq saves
    PROVE  Placed'
<1>1. /\ page'[t] \in {"open", "hydrating"} /\ account'[t] = a /\ token'[t] = a
      /\ page'[t] = "hydrating" => raw'[t] # None
      /\ \A u \in Tabs \ {t} : /\ page'[u] = page[u] /\ account'[u] = account[u]
                               /\ token'[u] = token[u] /\ raw'[u] = raw[u]
  BY BootType
<1>2. \A u \in Tabs : page'[u] # "closed" => token'[u] \in Accounts
  BY <1>1 DEF TypeInv, Placed
<1>3. \A u \in Tabs : page'[u] \notin {"closed", "gate"} => account'[u] \in Accounts
  BY <1>1 DEF TypeInv, Placed
<1>4. \A u \in Tabs : page'[u] = "hydrating" => raw'[u] # None
  BY <1>1 DEF TypeInv, Placed
<1>5. \A u \in Tabs : timer'[u] => page'[u] # "closed"
  BY <1>1 DEF TypeInv, Placed
<1>6. \A s \in saves' : page'[s.tab] # "closed" /\ s.from \in Accounts
  BY <1>1 DEF TypeInv, TypeOK, Placed
<1> QED
  BY <1>2, <1>3, <1>4, <1>5, <1>6 DEF Placed

LEMMA TypeInit == Init => TypeInv
<1> SUFFICES ASSUME Init PROVE TypeInv
  OBVIOUS
<1>1. TypeOK
  BY DEF Init, TypeOK, Document, Keys, Pages, Events
<1>2. Placed
  BY DEF Init, Placed
<1> QED
  BY <1>1, <1>2 DEF TypeInv

\* Every action keeps the types.
LEMMA TypeStep == TypeInv /\ [Next]_vars => TypeInv'
<1> SUFFICES ASSUME TypeInv, [Next]_vars PROVE TypeInv'
  OBVIOUS
<1> USE DEF TypeInv, storage, session, history
<1>1. ASSUME NEW t \in Tabs, NEW a \in Accounts, Load(t, a) PROVE TypeInv'
  <2>1. TypeOK'
    BY <1>1, BootType DEF Load, TypeOK
  <2>2. Placed'
    BY <1>1, BootPlaced DEF Load
  <2> QED
    BY <2>1, <2>2
<1>2. ASSUME NEW t \in Tabs, NEW a \in Accounts, SignIn(t, a) PROVE TypeInv'
  <2>1. TypeOK'
    BY <1>2, BootType DEF SignIn, TypeOK
  <2>2. Placed'
    BY <1>2, BootPlaced DEF SignIn, TypeOK
  <2> QED
    BY <2>1, <2>2
<1>3. ASSUME NEW t \in Tabs, NEW c \in Changes, Apply(t, c), token[t] \in Accounts
      PROVE  server' \in [Accounts -> Document] /\ author' \in [Changes -> Accounts \cup {None}]
  <2>1. server[token[t]] \cup Made(c) \in Document
    BY <1>3 DEF TypeOK, Document, Made
  <2> QED
    BY <1>3, <2>1 DEF Apply, TypeOK
<1>4. ASSUME NEW t \in Tabs, NEW c \in Changes, Change(t, c) PROVE TypeInv'
  <2>1. token[t] \in Accounts /\ page[t] # "closed" /\ Apply(t, c)
    BY <1>4 DEF Change, Placed
  <2>2. timer' \in [Tabs -> BOOLEAN]
    BY <1>4 DEF Change, TypeOK
  <2>3. TypeOK'
    BY <1>3, <1>4, <2>1, <2>2 DEF Change, TypeOK
  <2>4. Placed'
    BY <1>4, <2>1 DEF Change, TypeOK, Placed
  <2> QED
    BY <2>3, <2>4
<1>5. ASSUME NEW t \in Tabs, NEW c \in Changes, ImportArchive(t, c) PROVE TypeInv'
  <2>1. token[t] \in Accounts /\ page[t] = "open" /\ Apply(t, c)
    BY <1>5 DEF ImportArchive, Placed
  <2>2. /\ timer' \in [Tabs -> BOOLEAN] /\ page' \in [Tabs -> Pages]
        /\ count' \in [Events -> Nat]
    BY <1>5, HappensType DEF ImportArchive, TypeOK, Pages, Events
  <2>3. TypeOK'
    BY <1>3, <1>5, <2>1, <2>2 DEF ImportArchive, TypeOK
  <2>4. Placed'
    BY <1>5, <2>1 DEF ImportArchive, TypeOK, Placed
  <2> QED
    BY <2>3, <2>4
<1>6. ASSUME NEW t \in Tabs, Hydrate(t) PROVE TypeInv'
  <2>1. token[t] \in Accounts /\ raw[t] \in Document /\ page[t] = "hydrating"
    BY <1>6 DEF Hydrate, Placed, TypeOK
  <2>2. server' \in [Accounts -> Document] /\ lost' \in [Accounts -> Document]
    BY <1>6, <2>1 DEF Hydrate, TypeOK, Document
  <2>3. count' \in [Events -> Nat] /\ page' \in [Tabs -> Pages]
    BY <1>6, HappensType DEF Hydrate, TypeOK, Events, Pages
  <2>4. TypeOK'
    BY <1>6, <2>2, <2>3 DEF Hydrate, TypeOK
  <2>5. Placed'
    BY <1>6, <2>1 DEF Hydrate, TypeOK, Placed
  <2> QED
    BY <2>4, <2>5
<1>7. ASSUME NEW t \in Tabs, Timer(t) PROVE TypeInv'
  <2>1. page[t] # "closed" /\ AskExport(t)
    BY <1>7 DEF Timer, Placed
  <2>2. saves' \subseteq Saves /\ \A s \in saves' : page[s.tab] # "closed" /\ s.from \in Accounts
    BY <2>1, AskExportType
  <2>3. TypeOK'
    BY <1>7, <2>2 DEF Timer, TypeOK, Saves
  <2>4. Placed'
    BY <1>7, <2>2 DEF Timer, TypeOK, Placed
  <2> QED
    BY <2>3, <2>4
<1>8. ASSUME NEW t \in Tabs, SaveNow(t) PROVE TypeInv'
  <2>1. page[t] = "restored" /\ AskExport(t)
    BY <1>8 DEF SaveNow
  <2>2. saves' \subseteq Saves /\ \A s \in saves' : page[s.tab] # "closed" /\ s.from \in Accounts
    BY <2>1, AskExportType
  <2>3. page' \in [Tabs -> Pages] /\ page'[t] \in {"leaving", "saving"}
        /\ \A u \in Tabs \ {t} : page'[u] = page[u]
    BY <1>8 DEF SaveNow, TypeOK, Pages
  <2>4. TypeOK'
    BY <1>8, <2>2, <2>3 DEF SaveNow, TypeOK, Saves
  <2>5. Placed'
    BY <1>8, <2>1, <2>2, <2>3 DEF SaveNow, TypeOK, Placed, Saves
  <2> QED
    BY <2>4, <2>5
<1>9. ASSUME NEW t \in Tabs, Reload(t) PROVE TypeInv'
  <2>1. account[t] \in Accounts /\ page[t] # "closed" /\ Boot(t, account[t])
    BY <1>9 DEF Reload, Placed
  <2>2. count' \in [Events -> Nat] /\ timer' \in [Tabs -> BOOLEAN]
    BY <1>9, HappensType DEF Reload, TypeOK, Events
  <2>3. TypeOK'
    BY <1>9, <2>1, <2>2, BootType DEF Reload, TypeOK
  <2>4. Placed'
    BY <1>9, <2>1, BootPlaced DEF Reload, TypeOK
  <2> QED
    BY <2>3, <2>4
<1>10. ASSUME NEW t \in Tabs, SignOut(t) PROVE TypeInv'
  <2>1. count' \in [Events -> Nat]
    BY <1>10, HappensType DEF SignOut, TypeOK, Events
  <2>2. TypeOK'
    BY <1>10, <2>1 DEF SignOut, TypeOK, Keys, Pages
  <2>3. Placed'
    BY <1>10 DEF SignOut, TypeOK, Placed
  <2> QED
    BY <2>2, <2>3
<1>11. ASSUME NEW s \in saves, Answer(s) PROVE TypeInv'
  <2>1. /\ s \in Saves /\ s.from \in Accounts /\ page[s.tab] # "closed"
        /\ LatestOnly(server[s.from]) \in Document
    BY <1>11, FilterType DEF TypeOK, Placed, Saves
  <2>2. CASE /\ saves' = (saves \ {s}) \cup {[s EXCEPT !.doc = LatestOnly(server[s.from])]}
             /\ UNCHANGED <<page, count>>
    <3> DEFINE answered == [s EXCEPT !.doc = LatestOnly(server[s.from])]
    <3>1. answered \in Saves /\ answered.tab = s.tab /\ answered.from = s.from
      BY <2>1 DEF Saves
    <3>2. saves' = (saves \ {s}) \cup {answered}
      BY <2>2
    <3> HIDE DEF answered
    <3>3. TypeOK'
      BY <1>11, <2>2, <3>1, <3>2 DEF Answer, TypeOK, Saves
    <3>4. Placed'
      BY <1>11, <2>1, <2>2, <3>1, <3>2 DEF Answer, Placed
    <3> QED
      BY <3>3, <3>4
  <2>3. CASE Happens("fault") /\ saves' = saves \ {s} /\ EndSave(s)
    <3>1. count' \in [Events -> Nat]
      BY <2>3, HappensType DEF TypeOK, Events
    <3>2. TypeOK'
      BY <1>11, <2>1, <2>3, <3>1, EndSaveType DEF Answer, TypeOK
    <3>3. Placed'
      BY <1>11, <2>1, <2>3, EndSaveType DEF Answer, TypeOK, Placed, Saves
    <3> QED
      BY <3>2, <3>3
  <2> QED
    BY <1>11, <2>2, <2>3 DEF Answer
<1>12. ASSUME NEW s \in saves, Write(s) PROVE TypeInv'
  <2>1. s \in Saves /\ s.doc \in Document
    BY <1>12 DEF Write, TypeOK, Saves
  <2>2. local' \in [Keys -> {None} \cup Document] /\ count' \in [Events -> Nat]
    BY <1>12, <2>1, FilterType, HappensType DEF Write, TypeOK, Events
  <2>3. saves' = saves \ {s} /\ EndSave(s)
    BY <1>12 DEF Write
  <2>4. TypeOK'
    BY <1>12, <2>1, <2>2, <2>3, EndSaveType DEF Write, TypeOK
  <2>5. Placed'
    BY <1>12, <2>1, <2>3, EndSaveType DEF Write, TypeOK, Placed, Saves
  <2> QED
    BY <2>4, <2>5
<1>13. ASSUME NEW a \in Accounts, Evict(a) PROVE TypeInv'
  <2>1. count' \in [Events -> Nat]
    BY <1>13, HappensType DEF Evict, TypeOK, Events
  <2>2. TypeOK'
    BY <1>13, <2>1 DEF Evict, TypeOK, Document
  <2>3. Placed'
    BY <1>13 DEF Evict, Placed
  <2> QED
    BY <2>2, <2>3
<1>14. CASE UNCHANGED vars
  BY <1>14 DEF vars, TypeOK, Placed
<1> QED
  BY <1>1, <1>2, <1>4, <1>5, <1>6, <1>7, <1>8, <1>9, <1>10, <1>11, <1>12, <1>13, <1>14 DEF Next

\* Every variable stays within its type; in particular an export is only asked
\* for by a page with a token, and a replay always has a document.
THEOREM TypeCorrect == Spec => []TypeOK
<1>1. TypeInv => TypeOK
  BY DEF TypeInv
<1> QED
  BY <1>1, TypeInit, TypeStep, PTL DEF Spec

------------------------------------------------------------------------------
(***************************************************************************)
(* A page writes an export to the copy of the account it shows by then.    *)
(* That is the account it asked for, unless the page signed out and in     *)
(* again while the export was under way: nothing in the code makes the     *)
(* sign-in wait for it (StateSync_switch shows what follows).              *)
(***************************************************************************)
\* Nobody signs in at a page whose export is under way.
Patient == \A t \in Tabs : page[t] = "gate" /\ page'[t] # "gate" => ~ SaveInFlight(t)

\* Then the token of a page, its requests and its localStorage key are all of the
\* account it shows, and a page that shows none writes to no account's copy.
Steady ==
    /\ \A t \in Tabs : page[t] \notin {"closed", "gate"} => token[t] = account[t]
    /\ \A t \in Tabs : page[t] \in {"closed", "gate"} => account[t] = Anon
    /\ \A s \in saves : s.from = token[s.tab]

LEMMA SteadyInit == Init => Steady
  BY DEF Init, Steady

\* A save is written to the copy of the customer it came from, or to no customer's.
LEMMA SaveKeys ==
    ASSUME TypeInv, Steady, NEW s \in saves
    PROVE  /\ s.tab \in Tabs /\ s.from \in Accounts /\ Anon \notin Accounts
           /\ account[s.tab] \in {s.from, Anon}
  BY StateSyncAssumption DEF TypeInv, TypeOK, Placed, Steady

LEMMA SteadyStep ==
    ASSUME TypeInv, Steady, [Next]_vars, Patient
    PROVE  Steady'
<1> USE DEF TypeInv, storage, session, history
<1>1. ASSUME NEW t \in Tabs, NEW a \in Accounts, Boot(t, a), saves' \subseteq saves,
             \A s \in saves' : s.tab # t
      PROVE  Steady'
  <2>1. \A s \in saves' : s \in saves /\ s.tab \in Tabs \ {t}
    BY <1>1 DEF TypeOK
  <2> QED
    BY <1>1, <2>1, BootType DEF Steady
<1>2. ASSUME NEW t \in Tabs, NEW a \in Accounts, Load(t, a) PROVE Steady'
  BY <1>1, <1>2 DEF Load, Placed
<1>3. ASSUME NEW t \in Tabs, NEW a \in Accounts, SignIn(t, a) PROVE Steady'
  <2>1. page[t] = "gate" /\ page'[t] # "gate"
    BY <1>3, BootType DEF SignIn
  <2>2. \A s \in saves : s.tab # t
    BY <2>1 DEF Patient, SaveInFlight
  <2> QED
    BY <1>1, <1>3, <2>2 DEF SignIn
<1>4. ASSUME NEW t \in Tabs, Reload(t) PROVE Steady'
  BY <1>1, <1>4 DEF Reload, Placed
<1>5. ASSUME NEW t \in Tabs, SignOut(t) PROVE Steady'
  BY <1>5 DEF SignOut, Steady, TypeOK
<1>6. ASSUME UNCHANGED <<account, token>>, \A s \in saves' : s.from = token[s.tab],
             \A t \in Tabs : \/ page'[t] = page[t]
                             \/ /\ page[t] \notin {"closed", "gate"}
                                /\ page'[t] \notin {"closed", "gate"}
      PROVE  Steady'
  BY <1>6 DEF Steady
<1>7. ASSUME NEW t \in Tabs, NEW c \in Changes, Change(t, c) PROVE Steady'
  BY <1>6, <1>7 DEF Change, Steady
<1>8. ASSUME NEW t \in Tabs, NEW c \in Changes, ImportArchive(t, c) PROVE Steady'
  BY <1>6, <1>8 DEF ImportArchive, Steady, TypeOK
<1>9. ASSUME NEW t \in Tabs, Hydrate(t) PROVE Steady'
  BY <1>6, <1>9 DEF Hydrate, Steady, TypeOK
<1>10. ASSUME NEW t \in Tabs, page[t] # "closed", AskExport(t) PROVE \A s \in saves' : s.from = token[s.tab]
  BY <1>10, AskExportType DEF Steady
<1>11. ASSUME NEW t \in Tabs, Timer(t) PROVE Steady'
  BY <1>6, <1>10, <1>11 DEF Timer, Placed
<1>12. ASSUME NEW t \in Tabs, SaveNow(t) PROVE Steady'
  BY <1>6, <1>10, <1>12 DEF SaveNow, TypeOK
<1>13. ASSUME NEW s \in saves, Answer(s) PROVE Steady'
  <2>1. s \in Saves
    BY <1>13 DEF TypeOK, Saves
  <2>2. CASE /\ saves' = (saves \ {s}) \cup {[s EXCEPT !.doc = LatestOnly(server[s.from])]}
             /\ UNCHANGED <<page, count>>
    <3> DEFINE answered == [s EXCEPT !.doc = LatestOnly(server[s.from])]
    <3>1. answered.tab = s.tab /\ answered.from = s.from
      BY <2>1 DEF Saves
    <3>2. saves' = (saves \ {s}) \cup {answered}
      BY <2>2
    <3> HIDE DEF answered
    <3> QED
      BY <1>6, <1>13, <2>2, <3>1, <3>2 DEF Answer, Steady
  <2>3. CASE Happens("fault") /\ saves' = saves \ {s} /\ EndSave(s)
    BY <1>6, <1>13, <2>1, <2>3, EndSaveType DEF Answer, Steady, TypeOK
  <2> QED
    BY <1>13, <2>2, <2>3 DEF Answer
<1>14. ASSUME NEW s \in saves, Write(s) PROVE Steady'
  <2>1. s \in Saves
    BY <1>14 DEF TypeOK, Saves
  <2> QED
    BY <1>6, <1>14, <2>1, EndSaveType DEF Write, Steady, TypeOK
<1>15. ASSUME NEW a \in Accounts, Evict(a) PROVE Steady'
  BY <1>6, <1>15 DEF Evict, Steady
<1>16. CASE UNCHANGED vars
  BY <1>16 DEF vars, Steady
<1> QED
  BY <1>2, <1>3, <1>4, <1>5, <1>7, <1>8, <1>9, <1>11, <1>12, <1>13, <1>14, <1>15, <1>16 DEF Next

------------------------------------------------------------------------------
\* A document of customer a holds changes he made.
Owned(a, doc) == doc # None => \A i \in doc : author[i.change] = a

Apart ==
    /\ \A a \in Accounts : Owned(a, server[a]) /\ Owned(a, local[a])
    /\ \A t \in Tabs : Owned(token[t], raw[t])
    /\ \A s \in saves : Owned(s.from, s.doc)

LEMMA ApartInit == Init => Apart
<1> SUFFICES ASSUME Init PROVE Apart
  OBVIOUS
<1>1. \A a \in Accounts : server[a] = {} /\ local[a] = None
  BY DEF Init, Keys
<1>2. saves = {} /\ \A t \in Tabs : raw[t] = None
  BY DEF Init
<1> QED
  BY <1>1, <1>2 DEF Apart, Owned

LEMMA DocumentsAreSets == None \notin Document
  BY StateSyncAssumption DEF Document, Items

\* Who made a change stays who he is, so that documents keep their owner.
LEMMA OwnedStays ==
    ASSUME TypeOK, NEW t \in Tabs, NEW c \in Changes, Apply(t, c),
           NEW a \in Keys, NEW doc, Owned(a, doc)
    PROVE  Owned(a, doc)'
  BY StateSyncAssumption DEF Owned, Apply, TypeOK, Keys

LEMMA ApartStep ==
    ASSUME TypeInv, Steady, Apart, [Next]_vars
    PROVE  Apart'
<1> USE DEF TypeInv, storage, session, history
<1>1. ASSUME author' = author, NEW a, NEW doc, Owned(a, doc) PROVE Owned(a, doc)'
  BY <1>1 DEF Owned
<1>2. ASSUME NEW t \in Tabs, NEW a \in Accounts, Boot(t, a), UNCHANGED <<storage, author>>,
             saves' \subseteq saves
      PROVE  Apart'
  <2>1. \A u \in Tabs : Owned(token[u], raw[u])'
    BY <1>2, BootType DEF Apart, Owned
  <2> QED
    BY <1>2, <2>1 DEF Apart, Owned
<1>3. ASSUME NEW t \in Tabs, NEW a \in Accounts, Load(t, a) PROVE Apart'
  BY <1>2, <1>3 DEF Load
<1>4. ASSUME NEW t \in Tabs, Reload(t) PROVE Apart'
  BY <1>2, <1>4 DEF Reload, Placed
<1>5. ASSUME NEW t \in Tabs, NEW a \in Accounts, SignIn(t, a) PROVE Apart'
  BY <1>2, <1>5 DEF SignIn
<1>6. ASSUME NEW t \in Tabs, SignOut(t) PROVE Apart'
  BY <1>1, <1>6 DEF SignOut, Apart
<1>7. ASSUME NEW t \in Tabs, NEW c \in Changes, Apply(t, c), page[t] # "closed",
             UNCHANGED <<local, token, raw, saves>>
      PROVE  Apart'
  <2>1. token[t] \in Accounts
    BY <1>7 DEF Placed
  <2>2. ASSUME NEW a \in Accounts PROVE Owned(a, server[a])' /\ Owned(a, local[a])'
    <3>1. Owned(a, local[a])'
      BY <1>7, OwnedStays DEF Apart, Owned, Keys
    <3>2. \A i \in server[a] : author'[i.change] = a
      BY <1>7, OwnedStays, DocumentsAreSets DEF Apart, Owned, TypeOK, Keys
    <3>3. a = token[t] => \A i \in Made(c) : author'[i.change] = a
      BY <1>7 DEF Apply, TypeOK, Made
    <3>4. server'[a] = IF a = token[t] THEN server[a] \cup Made(c) ELSE server[a]
      BY <1>7 DEF Apply, TypeOK
    <3> QED
      BY <3>1, <3>2, <3>3, <3>4 DEF Owned
  <2>3. ASSUME NEW u \in Tabs PROVE Owned(token[u], raw[u])'
    BY <1>7, OwnedStays DEF Apart, Owned, TypeOK
  <2>4. ASSUME NEW s \in saves PROVE Owned(s.from, s.doc)'
    BY <1>7, OwnedStays DEF Apart, Owned, Placed, Keys
  <2> QED
    BY <1>7, <2>2, <2>3, <2>4 DEF Apart
<1>8. ASSUME NEW t \in Tabs, NEW c \in Changes, Change(t, c) PROVE Apart'
  BY <1>7, <1>8 DEF Change
<1>9. ASSUME NEW t \in Tabs, NEW c \in Changes, ImportArchive(t, c) PROVE Apart'
  BY <1>7, <1>9 DEF ImportArchive
<1>10. ASSUME NEW t \in Tabs, Hydrate(t) PROVE Apart'
  <2>1. token[t] \in Accounts /\ raw[t] \in Document /\ Owned(token[t], raw[t])
    BY <1>10 DEF Hydrate, Placed, TypeOK, Apart
  <2>2. \A a \in Accounts : server'[a] = server[a] \/ (a = token[t] /\ server'[a] = raw[t])
    BY <1>10, <2>1 DEF Hydrate, TypeOK
  <2> QED
    BY <1>10, <2>1, <2>2 DEF Hydrate, Apart, Owned
<1>11. ASSUME NEW t \in Tabs, page[t] # "closed", AskExport(t), UNCHANGED <<storage, token, raw, author>>
       PROVE  Apart'
  <2>1. \A s \in saves' : s \in saves \/ s = [tab |-> t, from |-> token[t], doc |-> None]
    BY <1>11, AskExportType
  <2> QED
    BY <1>11, <2>1 DEF Apart, Owned
<1>12. ASSUME NEW t \in Tabs, Timer(t) PROVE Apart'
  BY <1>11, <1>12 DEF Timer, Placed
<1>13. ASSUME NEW t \in Tabs, SaveNow(t) PROVE Apart'
  BY <1>11, <1>13 DEF SaveNow
<1>14. ASSUME NEW s \in saves, Answer(s) PROVE Apart'
  <2>1. s \in Saves /\ s.from \in Accounts
    BY <1>14 DEF TypeOK, Saves, Placed
  <2> DEFINE answered == [s EXCEPT !.doc = LatestOnly(server[s.from])]
  <2>2. answered.from = s.from /\ answered.doc = LatestOnly(server[s.from])
    BY <2>1 DEF Saves
  <2>4. Owned(s.from, LatestOnly(server[s.from]))
    BY <2>1, DocumentsAreSets DEF Apart, Owned, LatestOnly, TypeOK
  <2>3. saves' \subseteq saves \cup {answered}
    BY <1>14 DEF Answer
  <2> HIDE DEF answered
  <2> QED
    BY <1>14, <2>1, <2>2, <2>3, <2>4 DEF Answer, Apart, Owned
<1>15. ASSUME NEW s \in saves, Write(s) PROVE Apart'
  <2>1. account[s.tab] \in {s.from, Anon} /\ s.from \in Accounts /\ Anon \notin Accounts
    BY <1>15, SaveKeys
  <2>2. \A a \in Accounts :
            local'[a] = local[a] \/ (a = s.from /\ local'[a] \in {s.doc, TablesOnly(s.doc)})
    BY <1>15, <2>1 DEF Write, TypeOK, Keys
  <2>3. Owned(s.from, s.doc) /\ Owned(s.from, TablesOnly(s.doc))
    BY <1>15 DEF Write, Apart, Owned, TablesOnly
  <2> QED
    BY <1>15, <2>1, <2>2, <2>3 DEF Write, Apart, Owned
<1>16. ASSUME NEW a \in Accounts, Evict(a) PROVE Apart'
  BY <1>16 DEF Evict, Apart, Owned, TypeOK
<1>17. CASE UNCHANGED vars
  BY <1>17 DEF vars, Apart, Owned
<1> QED
  BY <1>3, <1>4, <1>5, <1>6, <1>8, <1>9, <1>10, <1>12, <1>13, <1>14, <1>15, <1>16, <1>17 DEF Next

\* A step that changes nothing lets nobody sign in.
LEMMA PatientStep == [Patient]_vars => Patient
  BY DEF Patient, vars, session

\* As long as nobody signs in at a page whose export is still under way, customers
\* who share a machine, or a page one after the other, never get each other's data:
\* neither the server's store nor the copy the browser keeps for a customer ever
\* holds a change another one made.
THEOREM CustomersKeptApart == Spec /\ [][Patient]_vars => []AccountsKeptApart
<1> DEFINE Inv == TypeInv /\ Steady /\ Apart
<1>1. Init => Inv
  BY TypeInit, SteadyInit, ApartInit
<1>2. Inv /\ [Next]_vars /\ [Patient]_vars => Inv'
  BY TypeStep, SteadyStep, ApartStep, PatientStep
<1>3. Inv => AccountsKeptApart
  BY DocumentsAreSets DEF TypeInv, TypeOK, Apart, Owned, AccountsKeptApart
<1> HIDE DEF Inv
<1> QED
  BY <1>1, <1>2, <1>3, PTL DEF Spec

------------------------------------------------------------------------------
(***************************************************************************)
(* What the mirroring may lose.  A document a page got from the server, or *)
(* wrote to the copy, holds nothing the server's store does not have or    *)
(* has not lost (Traced).  A page has one export under way at most, so a   *)
(* copy that only one page writes was written before that export was       *)
(* answered, and the answer holds all of it that was neither lost nor      *)
(* superseded (UpToDate).                                                  *)
(* A second page that signs out after a write leaves the first page's      *)
(* account with a single page, and that page's export may be older than    *)
(* the write: hence the second hypothesis.                                 *)
(***************************************************************************)
\* Nobody signs out while another page uses his account.
AloneOut == \A t \in Tabs : page[t] # "gate" /\ page'[t] = "gate" => SinglePage(account[t])

OneSave == \A s, u \in saves : s.tab = u.tab => s = u

Known(a, doc) == doc # None => doc \subseteq server[a] \cup lost[a]

Traced ==
    /\ \A a \in Accounts : Known(a, local[a])
    /\ \A s \in saves : Known(s.from, s.doc)

UpToDate ==
    \A s \in saves :
        LET a == account[s.tab]
        IN  /\ a \in Accounts /\ s.doc # None
            /\ SinglePage(a) /\ local[a] # None
            => Gone(local[a], s.doc) \subseteq lost[a]

Mirrored == OneSave /\ Traced /\ UpToDate

LEMMA MirroredInit == Init => Mirrored
  BY DEF Init, Mirrored, OneSave, Traced, UpToDate, Known, Keys

\* An export has of the store what is not superseded in the export itself: it shows
\* all rows, and those decide.
LEMMA GoneFromExport ==
    ASSUME NEW doc, NEW old
    PROVE  Gone(old, LatestOnly(doc)) \subseteq old \ doc
<1> SUFFICES ASSUME NEW i \in Gone(old, LatestOnly(doc)), i \in doc PROVE FALSE
  BY DEF Gone
<1>1. Superseded(i, doc) /\ ~ Superseded(i, LatestOnly(doc))
  BY DEF Gone, LatestOnly
<1>2. PICK c \in Newer[i.change] : RowsOf(c) \in doc
  BY <1>1 DEF Superseded
<1>3. RowsOf(c) \in LatestOnly(doc)
  BY <1>2 DEF LatestOnly, Superseded, RowsOf
<1> QED
  BY <1>1, <1>2, <1>3 DEF Superseded

\* The tables-only document lacks snapshots, besides.
LEMMA GoneFromTables ==
    ASSUME NEW doc, NEW old, NEW i \in Gone(old, TablesOnly(doc)), i.part # "blob",
           old \in Document
    PROVE  i \in Gone(old, doc)
  BY DEF Gone, TablesOnly, Superseded, Document, Items

\* The items a store has or has lost only become more.
LEMMA NothingForgotten ==
    ASSUME TypeInv, [Next]_vars, NEW a \in Accounts
    PROVE  server[a] \cup lost[a] \subseteq server'[a] \cup lost'[a] /\ lost[a] \subseteq lost'[a]
<1> USE DEF TypeInv, storage, session, history
<1>1. ASSUME UNCHANGED <<server, lost>>
      PROVE  server[a] \cup lost[a] \subseteq server'[a] \cup lost'[a] /\ lost[a] \subseteq lost'[a]
  BY <1>1
<1>2. ASSUME NEW t \in Tabs, NEW c \in Changes, Change(t, c) \/ ImportArchive(t, c)
      PROVE  server[a] \subseteq server'[a] /\ lost' = lost
  BY <1>2 DEF Change, ImportArchive, Apply, TypeOK
<1>3. ASSUME NEW t \in Tabs, Hydrate(t)
      PROVE  server[a] \cup lost[a] \subseteq server'[a] \cup lost'[a] /\ lost[a] \subseteq lost'[a]
  BY <1>3 DEF Hydrate, TypeOK
<1>4. ASSUME NEW b \in Accounts, Evict(b)
      PROVE  server[a] \cup lost[a] \subseteq server'[a] \cup lost'[a] /\ lost[a] \subseteq lost'[a]
  BY <1>4 DEF Evict, TypeOK
<1> QED
  BY <1>1, <1>2, <1>3, <1>4 DEF Next, Load, SignIn, Timer, SaveNow, Reload, SignOut,
                                Answer, Write, vars

\* A page that asks for an export has none under way: one save of it, not answered.
LEMMA AskKeeps ==
    ASSUME TypeInv, Mirrored, NEW t \in Tabs, page[t] # "closed", AskExport(t),
           UNCHANGED <<storage, account, lost>>
    PROVE  Mirrored'
<1> DEFINE new == [tab |-> t, from |-> token[t], doc |-> None]
<1>1. saves' = IF SaveInFlight(t) THEN saves ELSE saves \cup {new}
  BY DEF AskExport
<1>2. new.tab = t /\ new.from = token[t] /\ new.doc = None
  OBVIOUS
<1> HIDE DEF new
<1> USE DEF storage
<1>3. OneSave'
  BY <1>1, <1>2 DEF Mirrored, OneSave, SaveInFlight
<1>4. Traced'
  BY <1>1, <1>2 DEF Mirrored, Traced, Known
<1>5. UpToDate'
  BY <1>1, <1>2 DEF Mirrored, UpToDate, SinglePage
<1> QED
  BY <1>3, <1>4, <1>5 DEF Mirrored

\* A step that asks for nothing, answers nothing and writes to no customer's copy,
\* and after which no page has an account for itself that it shared before.
LEMMA QuietKeeps ==
    ASSUME TypeInv, Steady, Mirrored, saves' \subseteq saves,
           \A a \in Accounts : /\ local'[a] = local[a]
                               /\ server[a] \cup lost[a] \subseteq server'[a] \cup lost'[a]
                               /\ lost[a] \subseteq lost'[a],
           \A s \in saves' : account'[s.tab] \in Accounts =>
                                 /\ account'[s.tab] = account[s.tab]
                                 /\ SinglePage(account[s.tab])' => SinglePage(account[s.tab])
    PROVE  Mirrored'
<1>1. OneSave'
  BY DEF Mirrored, OneSave
<1>2. \A s \in saves : s.from \in Accounts
  BY DEF TypeInv, Placed
<1>3. Traced'
  BY <1>2 DEF Mirrored, Traced, Known
<1>4. UpToDate'
  <2> SUFFICES ASSUME NEW s \in saves', account'[s.tab] \in Accounts, s.doc # None,
                      SinglePage(account[s.tab])', local'[account'[s.tab]] # None
               PROVE  Gone(local'[account'[s.tab]], s.doc) \subseteq lost'[account'[s.tab]]
    BY DEF UpToDate, Gone
  <2>1. s \in saves /\ SinglePage(account[s.tab]) /\ account'[s.tab] = account[s.tab]
    OBVIOUS
  <2> QED
    BY <2>1 DEF Mirrored, UpToDate
<1> QED
  BY <1>1, <1>3, <1>4 DEF Mirrored

LEMMA MirroredStep ==
    ASSUME TypeInv, Steady, Mirrored, [Next]_vars, Patient, AloneOut
    PROVE  Mirrored'
<1> USE DEF TypeInv, storage, session, history
<1>1. \A a \in Accounts : /\ server[a] \cup lost[a] \subseteq server'[a] \cup lost'[a]
                          /\ lost[a] \subseteq lost'[a]
  BY NothingForgotten
<1>2. ASSUME account' = account, saves' \subseteq saves, \A a \in Accounts : local'[a] = local[a]
      PROVE  Mirrored'
  BY <1>1, <1>2, QuietKeeps DEF SinglePage
<1>3. ASSUME NEW t \in Tabs, NEW a \in Accounts, Boot(t, a), account[t] = Anon,
             \A s \in saves : s.tab # t, UNCHANGED <<local, saves>>
      PROVE  Mirrored'
  <2>1. \A s \in saves : s.tab \in Tabs \ {t}
    BY <1>3 DEF TypeOK
  <2>2. \A u \in Tabs \ {t} : account'[u] = account[u]
    BY <1>3, BootType
  <2>3. \A s \in saves : account[s.tab] \in Accounts => account[s.tab] # account[t]
    BY <1>3, StateSyncAssumption
  <2>4. \A s \in saves : account[s.tab] \in Accounts =>
                             (SinglePage(account[s.tab])' => SinglePage(account[s.tab]))
    BY <2>1, <2>2, <2>3 DEF SinglePage
  <2> QED
    BY <1>1, <1>3, <2>1, <2>2, <2>4, QuietKeeps
<1>4. ASSUME NEW t \in Tabs, NEW a \in Accounts, Load(t, a) \/ SignIn(t, a) PROVE Mirrored'
  <2>1. Boot(t, a) /\ page[t] \in {"closed", "gate"} /\ UNCHANGED <<local, saves>>
    BY <1>4 DEF Load, SignIn
  <2>2. page'[t] \in {"open", "hydrating"}
    BY <2>1, BootType
  <2>3. \A s \in saves : s.tab # t
    BY <2>1, <2>2 DEF Placed, Patient, SaveInFlight
  <2>4. account[t] = Anon
    BY <2>1 DEF Steady
  <2> QED
    BY <1>3, <2>1, <2>3, <2>4
<1>5. ASSUME NEW t \in Tabs, SignOut(t) PROVE Mirrored'
  <2>1. /\ account'[t] = Anon /\ \A u \in Tabs \ {t} : account'[u] = account[u]
        /\ UNCHANGED <<local, saves>> /\ page[t] = "open" /\ page'[t] = "gate"
    BY <1>5 DEF SignOut, TypeOK
  <2>2. SinglePage(account[t])
    BY <2>1 DEF AloneOut
  <2>3. \A s \in saves : account'[s.tab] \in Accounts => s.tab \in Tabs \ {t}
    BY <2>1, StateSyncAssumption DEF TypeOK
  <2>4. \A u \in Tabs \ {t} : account[u] # account[t]
    BY <2>2 DEF SinglePage
  <2>5. \A s \in saves : account'[s.tab] \in Accounts =>
                             (SinglePage(account[s.tab])' => SinglePage(account[s.tab]))
    BY <2>1, <2>3, <2>4 DEF SinglePage
  <2> QED
    BY <1>1, <2>1, <2>3, <2>5, QuietKeeps
<1>6. ASSUME NEW t \in Tabs, Reload(t) PROVE Mirrored'
  <2>1. account' = account
    BY <1>6 DEF Reload, Boot, TypeOK
  <2> QED
    BY <1>2, <1>6, <2>1 DEF Reload
<1>7. ASSUME NEW t \in Tabs, NEW c \in Changes, Change(t, c) \/ ImportArchive(t, c) PROVE Mirrored'
  BY <1>2, <1>7 DEF Change, ImportArchive
<1>8. ASSUME NEW t \in Tabs, Hydrate(t) PROVE Mirrored'
  BY <1>2, <1>8 DEF Hydrate
<1>9. ASSUME NEW t \in Tabs, Timer(t) \/ SaveNow(t) PROVE Mirrored'
  BY <1>9, AskKeeps DEF Timer, SaveNow, Placed
<1>10. ASSUME NEW s \in saves, Answer(s) PROVE Mirrored'
  <2>1. CASE saves' = saves \ {s}
    BY <1>2, <1>10, <2>1 DEF Answer
  <2>2. CASE saves' = (saves \ {s}) \cup {[s EXCEPT !.doc = LatestOnly(server[s.from])]}
    <3> DEFINE answered == [s EXCEPT !.doc = LatestOnly(server[s.from])]
               a == s.from
    <3>1. s \in Saves /\ a \in Accounts /\ account[s.tab] \in {a, Anon} /\ Anon \notin Accounts
      BY <1>10, SaveKeys DEF TypeOK, Saves
    <3>2. answered.tab = s.tab /\ answered.from = a /\ answered.doc = LatestOnly(server[a])
      BY <3>1 DEF Saves
    <3>3. saves' = (saves \ {s}) \cup {answered}
      BY <2>2
    <3>4. UNCHANGED <<server, local, account, lost>>
      BY <1>10 DEF Answer
    <3> HIDE DEF answered
    <3>5. OneSave'
      BY <3>2, <3>3 DEF Mirrored, OneSave
    <3>6. Traced'
      BY <3>2, <3>3, <3>4 DEF Mirrored, Traced, Known, LatestOnly
    <3>7. local[a] # None => Gone(local[a], LatestOnly(server[a])) \subseteq lost[a]
      BY <3>1, GoneFromExport DEF Mirrored, Traced, Known
    <3>8. UpToDate'
      BY <3>1, <3>2, <3>3, <3>4, <3>7 DEF Mirrored, UpToDate, SinglePage
    <3> QED
      BY <3>5, <3>6, <3>8 DEF Mirrored
  <2> QED
    BY <1>10, <2>1, <2>2 DEF Answer
<1>11. ASSUME NEW s \in saves, Write(s) PROVE Mirrored'
  <2> DEFINE a == s.from
  <2>1. s.doc # None /\ a \in Accounts /\ s.tab \in Tabs
        /\ account[s.tab] \in {a, Anon} /\ Anon \notin Accounts
    BY <1>11, SaveKeys DEF Write
  <2>2. UNCHANGED <<server, account, lost>> /\ saves' = saves \ {s}
    BY <1>11 DEF Write
  <2>3. CASE local' = local
    BY <1>2, <2>2, <2>3
  <2> DEFINE written == {s.doc, TablesOnly(s.doc)}
  <2>4. CASE /\ \E doc \in written : local' = [local EXCEPT ![account[s.tab]] = doc]
             /\ account[s.tab] = Anon
    <3>1. \A b \in Accounts : local'[b] = local[b]
      BY <2>1, <2>4 DEF TypeOK
    <3> QED
      BY <1>2, <2>2, <3>1
  <2>5. CASE /\ \E doc \in written : local' = [local EXCEPT ![account[s.tab]] = doc]
             /\ account[s.tab] = a
    <3>1. /\ local'[a] \in written
          /\ \A b \in Accounts \ {a} : local'[b] = local[b]
      BY <2>1, <2>5 DEF TypeOK, Keys
    <3>2. OneSave'
      BY <2>2 DEF Mirrored, OneSave
    <3>3. Traced'
      BY <1>11, <2>1, <2>2, <3>1 DEF Mirrored, Traced, Known, TablesOnly
    <3>4. UpToDate'
      <4> SUFFICES ASSUME NEW u \in saves', account[u.tab] \in Accounts, u.doc # None,
                          SinglePage(account[u.tab]), local'[account[u.tab]] # None
                   PROVE  Gone(local'[account[u.tab]], u.doc) \subseteq lost[account[u.tab]]
        BY <2>2 DEF UpToDate, SinglePage, Gone
      <4>1. u \in saves /\ u # s /\ u.tab \in Tabs
        BY <2>2 DEF TypeOK
      <4>2. u.tab # s.tab
        BY <4>1 DEF Mirrored, OneSave
      <4>3. account[u.tab] # a
        BY <2>1, <2>5, <4>1, <4>2 DEF SinglePage
      <4>4. local'[account[u.tab]] = local[account[u.tab]]
        BY <3>1, <4>1, <4>3
      <4> QED
        BY <4>1, <4>4 DEF Mirrored, UpToDate
    <3> QED
      BY <3>2, <3>3, <3>4 DEF Mirrored
  <2> QED
    BY <1>11, <2>1, <2>3, <2>4, <2>5 DEF Write
<1>12. ASSUME NEW a \in Accounts, Evict(a) PROVE Mirrored'
  BY <1>2, <1>12 DEF Evict
<1>13. CASE UNCHANGED vars
  BY <1>2, <1>13 DEF vars
<1> QED
  BY <1>4, <1>5, <1>6, <1>7, <1>8, <1>9, <1>10, <1>11, <1>12, <1>13 DEF Next

\* Only a write changes the copy, and it keeps all that was neither lost nor
\* superseded, but for the snapshots when they do not fit.
LEMMA WriteLoses ==
    ASSUME TypeInv, Steady, Mirrored, [Next]_vars,
           NEW a \in Accounts, SinglePage(a), local[a] # None, local'[a] # None,
           NEW i \in Gone(local[a], local'[a])
    PROVE  i \in lost[a] \/ (i.part = "blob" /\ count'["fault"] # count["fault"])
<1> USE DEF storage, session, history
<1>1. CASE local' = local
  BY <1>1 DEF Gone
<1>2. ASSUME NEW s \in saves, Write(s)
      PROVE  i \in lost[a] \/ (i.part = "blob" /\ count'["fault"] # count["fault"])
  <2>1. s.doc # None /\ account[s.tab] \in {s.from, Anon}
    BY <1>2, SaveKeys DEF Write
  <2>2. \/ local'[a] = local[a]
        \/ account[s.tab] = a /\ local'[a] = s.doc
        \/ account[s.tab] = a /\ local'[a] = TablesOnly(s.doc) /\ Happens("fault")
    BY <1>2, <2>1 DEF Write, TypeInv, TypeOK, Keys
  <2>3. account[s.tab] = a => Gone(local[a], s.doc) \subseteq lost[a]
    BY <2>1 DEF Mirrored, UpToDate
  <2>4. Happens("fault") => count'["fault"] # count["fault"]
    <3> DEFINE n == count["fault"]
    <3>1. n \in Nat /\ "fault" \in Events
      BY DEF TypeInv, TypeOK, Events
    <3>2. Happens("fault") => count'["fault"] = n + 1
      BY <3>1 DEF Happens, TypeInv, TypeOK
    <3> HIDE DEF n
    <3>3. Happens("fault") => count'["fault"] # n
      BY <3>1, <3>2
    <3> QED
      BY <3>3 DEF n
  <2>5. CASE local'[a] = local[a]
    BY <2>5 DEF Gone
  <2>6. CASE account[s.tab] = a /\ local'[a] = s.doc
    BY <2>3, <2>6
  <2>7. CASE account[s.tab] = a /\ local'[a] = TablesOnly(s.doc) /\ Happens("fault")
    <3>1. local[a] \in Document
      BY DEF TypeInv, TypeOK, Keys
    <3> QED
      BY <2>3, <2>4, <2>7, <3>1, GoneFromTables
  <2> QED
    BY <2>2, <2>5, <2>6, <2>7
<1> QED
  BY <1>1, <1>2 DEF Next, Load, SignIn, Change, ImportArchive, Hydrate, Timer, SaveNow, Reload,
                    SignOut, Answer, Evict, vars

\* As long as nobody signs in at a page whose export is under way, or signs out
\* while another page uses his account, a row or a BOM's latest snapshot disappears
\* from the copy of a customer with a single page only if the server's store had lost
\* it before, or a snapshot because localStorage was full: exports that are answered
\* late, saves that are skipped, calls that fail, reloads, sign-outs, evictions and
\* imports do not make the mirroring itself roll the copy back.
THEOREM MirroringLosesNothing ==
    Spec /\ [][Patient /\ AloneOut]_vars => LosesOnlyWhatTheServerLost
<1> DEFINE Inv == TypeInv /\ Steady /\ Mirrored
           Loses == \A a \in Accounts :
                      (SinglePage(a) /\ local[a] # None /\ local'[a] # None) =>
                          \A i \in Gone(local[a], local'[a]) :
                              \/ i \in lost[a]
                              \/ i.part = "blob" /\ count'["fault"] # count["fault"]
<1>1. Init => Inv
  BY TypeInit, SteadyInit, MirroredInit
<1>2. [Patient /\ AloneOut]_vars => Patient /\ AloneOut
  BY DEF Patient, AloneOut, vars, session
<1>3. Inv /\ [Next]_vars /\ [Patient /\ AloneOut]_vars => Inv'
  BY <1>2, TypeStep, SteadyStep, MirroredStep
<1>4. Inv /\ [Next]_vars => [Loses]_vars
  BY WriteLoses
<1> HIDE DEF Inv, Loses
<1>5. Spec /\ [][Patient /\ AloneOut]_vars => [][Loses]_vars
  BY <1>1, <1>3, <1>4, PTL DEF Spec
<1> QED
  BY <1>5 DEF Loses, LosesOnlyWhatTheServerLost

------------------------------------------------------------------------------
(***************************************************************************)
(* "After any change we mirror the server's state back": what the code     *)
(* does for it, short of the fairness of timers and requests.  Whatever    *)
(* the copy of a customer lacks is on its way to it: the debounce timer of *)
(* his page is set, or an export is under way that has it or will have it. *)
(* And the reload after the import of an archive finds the copy complete.  *)
(*                                                                         *)
(* Each hypothesis keeps out one thing the code does not prevent: dropping *)
(* any of them makes the statement false, also for two changes.            *)
(***************************************************************************)
\* What the server would answer an export of customer a with.
Export(a) == LatestOnly(server[a])

Kept(a, c) == local[a] # None /\ c \in local[a]
AllKept(a) == \A c \in Export(a) : Kept(a, c)

Brings(s, c) == s.doc = None \/ c \in s.doc
OnItsWay(t, c) == timer[t] \/ \E s \in saves : s.tab = t /\ Brings(s, c)

SaveIsComing ==
    \A a \in Accounts : \A c \in Export(a) :
        Kept(a, c) \/ \E t \in Tabs : account[t] = a /\ OnItsWay(t, c)

ReloadsSaved == \A t \in Tabs : page[t] = "leaving" => AllKept(account[t])

\* No call fails, and customers use a page each.
Calm == count["fault"] = 0 /\ \A a \in Accounts : SinglePage(a)

\* No save falls due while another is under way, nor while the page still replays.
Prompt ==
    \A t \in Tabs : /\ Timer(t) \/ SaveNow(t) => ~ SaveInFlight(t)
                    /\ Timer(t) => page[t] # "hydrating"

\* The user reloads a page, or signs out at it, when its changes are saved.
LeftSaved ==
    \A t \in Tabs : page[t] = "open" /\ (Reload(t) \/ SignOut(t)) => AllKept(account[t])

\* A page that replays is about to put back exactly what the copy holds.
Replaying ==
    \A t \in Tabs : page[t] = "hydrating" => raw[t] = local[account[t]] /\ ~ SaveInFlight(t)

\* An answered export has all that the store still has and the copy already holds.
Current ==
    \A s \in saves :
        account[s.tab] \in Accounts /\ s.doc # None =>
            \A c \in Export(account[s.tab]) : Kept(account[s.tab], c) => c \in s.doc

\* The export a page waits for before it reloads will hold the whole store.
Saving ==
    \A t \in Tabs :
        page[t] = "saving" =>
            \E s \in saves : s.tab = t /\ \A c \in Export(account[t]) : Brings(s, c)

Tended == OneSave /\ Replaying /\ Current /\ Saving /\ ReloadsSaved /\ SaveIsComing

LEMMA TendedInit == Init => Tended
  BY DEF Init, Tended, OneSave, Replaying, Current, Saving, ReloadsSaved, SaveIsComing, Export,
         LatestOnly

LEMMA NoFault ==
    ASSUME TypeOK, Calm, Calm', Happens("fault")
    PROVE  FALSE
  BY DEF TypeOK, Calm, Happens, Events

\* A page that runs has its account for itself.
LEMMA OwnPage ==
    ASSUME TypeInv, Calm, NEW t \in Tabs, page[t] \notin {"closed", "gate"}
    PROVE  account[t] \in Accounts /\ \A u \in Tabs : account[u] = account[t] => u = t
  BY DEF TypeInv, Placed, Calm, SinglePage

\* What joins a store supersedes more, never less.
LEMMA LatestOnlyGrows ==
    ASSUME NEW doc, NEW more, NEW i \in LatestOnly(doc \cup more)
    PROVE  i \in more \/ i \in LatestOnly(doc)
  BY DEF LatestOnly, Superseded

\* A change joins the store of a page's customer: the page's timer is set.
LEMMA TendedApply ==
    ASSUME TypeInv, Steady, Apart, Tended, Calm, NEW t \in Tabs, NEW c \in Changes,
           page[t] \in {"hydrating", "open"}, Apply(t, c), timer' = [timer EXCEPT ![t] = TRUE],
           UNCHANGED <<local, account, raw, saves>>,
           \A u \in Tabs : page'[u] = page[u] \/ page'[u] = "restored"
    PROVE  Tended'
<1> DEFINE a == account[t]
<1>1. a \in Accounts /\ token[t] = a /\ \A u \in Tabs : account[u] = a => u = t
  BY OwnPage DEF Steady
<1>2. server'[a] = server[a] \cup Made(c) /\ \A b \in Accounts \ {a} : server'[b] = server[b]
  BY <1>1 DEF Apply, TypeInv, TypeOK
<1>3. \A i \in Made(c) : ~ Kept(a, i)
  BY <1>1, StateSyncAssumption DEF Apply, Apart, Owned, Kept, Made
<1>e. \A i \in LatestOnly(server'[a]) : i \in Made(c) \/ i \in LatestOnly(server[a])
  BY <1>2, LatestOnlyGrows DEF Export
<1>4. timer'[t] /\ \A u \in Tabs : timer[u] => timer'[u]
  BY DEF TypeInv, TypeOK
<1> HIDE DEF a
<1>5. OneSave' /\ Replaying'
  BY DEF Tended, OneSave, Replaying, SaveInFlight
<1>6. Current'
  <2> SUFFICES ASSUME NEW s \in saves, account[s.tab] \in Accounts, s.doc # None,
                      NEW i \in Export(account[s.tab])', Kept(account[s.tab], i)
               PROVE  i \in s.doc
    BY DEF Current, Kept
  <2>1. i \in Export(account[s.tab])
    BY <1>2, <1>3, <1>e DEF Export
  <2> QED
    BY <2>1 DEF Tended, Current
<1>7. ASSUME NEW u \in Tabs, page'[u] \in {"saving", "leaving"}
      PROVE  page[u] = page'[u] /\ server'[account[u]] = server[account[u]]
  <2>1. page[u] = page'[u] /\ u # t
    BY <1>7
  <2>2. account[u] \in Accounts
    BY <2>1, <1>7, OwnPage
  <2>3. account[u] # a
    BY <1>1, <2>1
  <2> QED
    BY <1>2, <2>1, <2>2, <2>3
<1>8. Saving'
  BY <1>7 DEF Tended, Saving, Brings, Export
<1>9. ReloadsSaved'
  BY <1>7 DEF Tended, ReloadsSaved, AllKept, Kept, Export
<1>10. SaveIsComing'
  <2> SUFFICES ASSUME NEW b \in Accounts, NEW d \in Export(b)', ~ Kept(b, d)
               PROVE  \E u \in Tabs : account[u] = b /\ OnItsWay(u, d)'
    BY DEF SaveIsComing, Kept
  <2>1. CASE d \in Export(b)
    BY <1>4, <2>1 DEF Tended, SaveIsComing, OnItsWay
  <2>2. CASE d \notin Export(b)
    <3>1. b = a
      BY <1>2, <2>2 DEF Export
    <3> QED
      BY <1>4, <3>1 DEF OnItsWay, a
  <2> QED
    BY <2>1, <2>2
<1> QED
  BY <1>5, <1>6, <1>8, <1>9, <1>10 DEF Tended

\* A store may be dropped.
LEMMA TendedShrink ==
    ASSUME Tended, UNCHANGED <<local, page, account, raw, timer, saves>>,
           TypeInv, \A a \in Accounts : Export(a)' \subseteq Export(a)
    PROVE  Tended'
<1>1. OneSave' /\ Replaying' /\ Current'
  BY DEF Tended, OneSave, Replaying, SaveInFlight, Current, Kept
<1>2. \A t \in Tabs : page[t] \in {"saving", "leaving"} => account[t] \in Accounts
  BY DEF TypeInv, Placed
<1>3. Saving' /\ ReloadsSaved'
  BY <1>2 DEF Tended, Saving, Brings, ReloadsSaved, AllKept, Kept
<1>4. SaveIsComing'
  BY DEF Tended, SaveIsComing, OnItsWay, Brings, Kept
<1> QED
  BY <1>1, <1>3, <1>4 DEF Tended

\* An export is asked for: by the timer, or by a page that waits for it.
LEMMA TendedAsk ==
    ASSUME TypeInv, Tended, NEW t \in Tabs, AskExport(t), ~ SaveInFlight(t),
           page[t] \notin {"closed", "hydrating", "saving"},
           UNCHANGED <<storage, account, raw>>,
           \A u \in Tabs \ {t} : timer'[u] = timer[u] /\ page'[u] = page[u],
           page'[t] = page[t] \/ page'[t] = "saving"
    PROVE  Tended'
<1> USE DEF Export
<1> DEFINE new == [tab |-> t, from |-> token[t], doc |-> None]
<1>1. saves' = saves \cup {new}
  BY DEF AskExport
<1>2. new.tab = t /\ new.doc = None
  OBVIOUS
<1> HIDE DEF new
<1>3. OneSave'
  BY <1>1, <1>2 DEF Tended, OneSave, SaveInFlight
<1>4. Replaying'
  BY <1>1, <1>2 DEF Tended, Replaying, SaveInFlight, storage
<1>5. Current'
  BY <1>1, <1>2 DEF Tended, Current, Kept, storage
<1>6. Saving'
  BY <1>1, <1>2 DEF Tended, Saving, Brings, storage
<1>7. ReloadsSaved'
  BY DEF Tended, ReloadsSaved, AllKept, Kept, storage
<1>8. SaveIsComing'
  <2> SUFFICES ASSUME NEW a \in Accounts, NEW c \in Export(a), ~ Kept(a, c)
               PROVE  \E u \in Tabs : account[u] = a /\ OnItsWay(u, c)'
    BY DEF SaveIsComing, Kept, storage
  <2>1. PICK u \in Tabs : account[u] = a /\ OnItsWay(u, c)
    BY DEF Tended, SaveIsComing
  <2>2. OnItsWay(u, c)'
    BY <1>1, <1>2, <2>1 DEF OnItsWay, Brings
  <2> QED
    BY <2>1, <2>2
<1> QED
  BY <1>3, <1>4, <1>5, <1>6, <1>7, <1>8 DEF Tended

\* An export is answered with the store as it is.
LEMMA TendedAnswer ==
    ASSUME TypeInv, Steady, Tended, NEW s \in saves, s.doc = None,
           saves' = (saves \ {s}) \cup {[s EXCEPT !.doc = LatestOnly(server[s.from])]},
           UNCHANGED <<storage, page, account, raw, timer>>
    PROVE  Tended'
<1> USE DEF Export
<1> DEFINE answered == [s EXCEPT !.doc = LatestOnly(server[s.from])]
<1>1. /\ s \in Saves /\ s.tab \in Tabs
      /\ account[s.tab] \in Accounts => account[s.tab] = s.from
  BY SaveKeys DEF TypeInv, TypeOK, Saves
<1>2. answered.tab = s.tab /\ answered.doc = Export(s.from)
  BY <1>1 DEF Saves
<1>3. saves' = (saves \ {s}) \cup {answered}
  OBVIOUS
<1> HIDE DEF answered
<1> USE DEF storage
<1>4. OneSave'
  BY <1>2, <1>3 DEF Tended, OneSave
<1>5. Replaying'
  BY <1>2, <1>3 DEF Tended, Replaying, SaveInFlight
<1>6. Current'
  BY <1>1, <1>2, <1>3 DEF Tended, Current, Kept
<1>7. ASSUME NEW u \in saves, NEW c \in Export(account[u.tab]), Brings(u, c),
             account[u.tab] \in Accounts
      PROVE  \E v \in saves' : v.tab = u.tab /\ Brings(v, c)
  BY <1>1, <1>2, <1>3, <1>7 DEF Brings
<1>8. Saving'
  <2> SUFFICES ASSUME NEW t \in Tabs, page[t] = "saving"
               PROVE  \E v \in saves' : v.tab = t /\ \A c \in Export(account[t]) : Brings(v, c)
    BY DEF Saving, Brings
  <2>1. PICK u \in saves : u.tab = t /\ \A c \in Export(account[t]) : Brings(u, c)
    BY DEF Tended, Saving
  <2>2. account[t] \in Accounts
    BY DEF TypeInv, Placed
  <2>3. CASE u = s
    BY <1>1, <1>2, <1>3, <2>1, <2>2, <2>3 DEF Brings
  <2>4. CASE u # s
    BY <1>3, <2>1, <2>4
  <2> QED
    BY <2>3, <2>4
<1>9. ReloadsSaved'
  BY DEF Tended, ReloadsSaved, AllKept, Kept
<1>10. SaveIsComing'
  <2> SUFFICES ASSUME NEW a \in Accounts, NEW c \in Export(a), ~ Kept(a, c)
               PROVE  \E u \in Tabs : account[u] = a /\ OnItsWay(u, c)'
    BY DEF SaveIsComing, Kept
  <2>1. PICK t \in Tabs : account[t] = a /\ OnItsWay(t, c)
    BY DEF Tended, SaveIsComing
  <2>2. OnItsWay(t, c)'
    BY <1>7, <2>1 DEF OnItsWay, Brings
  <2> QED
    BY <2>1, <2>2
<1> QED
  BY <1>4, <1>5, <1>6, <1>8, <1>9, <1>10 DEF Tended

\* An export is written, to the customer's copy or, at the gate, to nobody's.
LEMMA TendedWrite ==
    ASSUME TypeInv, Steady, Tended, Calm, NEW s \in saves, Write(s),
           local' = [local EXCEPT ![account[s.tab]] = s.doc]
    PROVE  Tended'
<1> USE DEF Export
<1> DEFINE a == account[s.tab]
<1>1. /\ s \in Saves /\ s.tab \in Tabs /\ s.doc # None /\ saves' = saves \ {s}
      /\ a \in {s.from, Anon} /\ s.from \in Accounts /\ Anon \notin Accounts
      /\ UNCHANGED <<server, account, raw, timer>> /\ EndSave(s)
  BY SaveKeys DEF Write, TypeInv, TypeOK, Saves
<1>2. \A b \in Accounts : local'[b] = IF b = a THEN s.doc ELSE local[b]
  BY <1>1 DEF TypeInv, TypeOK, Keys
<1>3. \A t \in Tabs : \/ page'[t] = page[t] /\ ~ (t = s.tab /\ page[t] = "saving")
                      \/ t = s.tab /\ page[t] = "saving" /\ page'[t] = "leaving"
  BY <1>1 DEF EndSave, TypeInv, TypeOK
<1>4. \A t \in Tabs : page[t] \in {"hydrating", "saving", "leaving"} =>
                          account[t] \in Accounts /\ (account[t] = a => t = s.tab)
  BY <1>1, OwnPage
<1>5. \A u \in saves : u # s => u.tab # s.tab
  BY DEF Tended, OneSave
<1>6. \A t \in Tabs : account[t] = a /\ a \in Accounts => t = s.tab
  BY <1>1 DEF Calm, SinglePage
<1>7. \A c \in Export(a) : a \in Accounts /\ Kept(a, c) => c \in s.doc
  BY <1>1 DEF Tended, Current
<1> HIDE DEF a
<1>8. OneSave'
  BY <1>1 DEF Tended, OneSave
<1>9. Replaying'
  BY <1>1, <1>2, <1>3, <1>4 DEF Tended, Replaying, SaveInFlight
<1>10. Current'
  <2> SUFFICES ASSUME NEW u \in saves, u # s, account[u.tab] \in Accounts, u.doc # None,
                      NEW c \in Export(account[u.tab]), Kept(account[u.tab], c)'
               PROVE  c \in u.doc
    BY <1>1 DEF Current, Kept
  <2>1. u.tab \in Tabs /\ u.tab # s.tab
    BY <1>5 DEF TypeInv, TypeOK
  <2>2. account[u.tab] # a
    BY <1>6, <2>1
  <2>3. Kept(account[u.tab], c)
    BY <1>1, <1>2, <2>2 DEF Kept
  <2> QED
    BY <2>3 DEF Tended, Current
<1>11. Saving'
  BY <1>1, <1>3 DEF Tended, Saving, Brings
<1>12. ReloadsSaved'
  <2> SUFFICES ASSUME NEW t \in Tabs, page'[t] = "leaving", NEW c \in Export(account[t])'
               PROVE  Kept(account[t], c)'
    BY <1>1 DEF ReloadsSaved, AllKept, Kept
  <2>0. c \in Export(account[t])
    BY <1>1
  <2>1. CASE t = s.tab
    <3>1. account[t] = a /\ a \in Accounts
      BY <1>3, <1>4, <2>1 DEF a
    <3>2. c \in s.doc
      <4>1. CASE page[t] = "leaving"
        BY <1>7, <2>0, <3>1, <4>1 DEF Tended, ReloadsSaved, AllKept
      <4>2. CASE page[t] = "saving"
        <5>1. PICK u \in saves : u.tab = t /\ \A d \in Export(account[t]) : Brings(u, d)
          BY <4>2 DEF Tended, Saving
        <5>2. u = s
          BY <1>5, <2>1, <5>1
        <5> QED
          BY <1>1, <2>0, <5>1, <5>2 DEF Brings
      <4> QED
        BY <1>3, <4>1, <4>2
    <3> QED
      BY <1>1, <1>2, <3>1, <3>2 DEF Kept
  <2>2. CASE t # s.tab
    <3>1. page[t] = "leaving" /\ account[t] \in Accounts /\ account[t] # a
      BY <1>3, <1>4, <2>2
    <3>2. Kept(account[t], c)
      BY <2>0, <3>1 DEF Tended, ReloadsSaved, AllKept
    <3> QED
      BY <1>1, <1>2, <3>1, <3>2 DEF Kept
  <2> QED
    BY <2>1, <2>2
<1>13. SaveIsComing'
  <2> SUFFICES ASSUME NEW b \in Accounts, NEW c \in Export(b), ~ Kept(b, c)'
               PROVE  \E t \in Tabs : account[t] = b /\ OnItsWay(t, c)'
    BY <1>1 DEF SaveIsComing, Kept
  <2>1. b = a => c \notin s.doc
    BY <1>1, <1>2 DEF Kept
  <2>2. ~ Kept(b, c)
    BY <1>2, <1>7, <2>1 DEF Kept
  <2>3. PICK t \in Tabs : account[t] = b /\ OnItsWay(t, c)
    BY <2>2 DEF Tended, SaveIsComing
  <2>4. ~ (t = s.tab /\ Brings(s, c))
    BY <1>1, <2>1, <2>3 DEF Brings, a
  <2>5. OnItsWay(t, c)'
    BY <1>1, <2>3, <2>4 DEF OnItsWay, Brings
  <2> QED
    BY <1>1, <2>3, <2>5
<1> QED
  BY <1>8, <1>9, <1>10, <1>11, <1>12, <1>13 DEF Tended

\* A replay puts back what the copy holds.
LEMMA TendedHydrate ==
    ASSUME TypeInv, Steady, Tended, Calm, NEW t \in Tabs, page[t] = "hydrating",
           server' = [server EXCEPT ![token[t]] = raw[t]],
           page' = [page EXCEPT ![t] = "open"],
           UNCHANGED <<local, account, raw, timer, saves>>
    PROVE  Tended'
<1> DEFINE a == account[t]
<1>1. a \in Accounts /\ token[t] = a /\ \A u \in Tabs : account[u] = a => u = t
  BY OwnPage DEF Steady
<1>2. server'[a] = local[a] /\ \A b \in Accounts \ {a} : server'[b] = server[b]
  BY <1>1 DEF Tended, Replaying, TypeInv, TypeOK
<1>3. local[a] # None /\ ~ SaveInFlight(t)
  BY <1>1 DEF Tended, Replaying, TypeInv, Placed
<1>4. page'[t] = "open" /\ \A u \in Tabs \ {t} : page'[u] = page[u]
  BY DEF TypeInv, TypeOK
<1>5. \A s \in saves : s.tab \in Tabs /\ account[s.tab] # a
  BY <1>1, <1>3 DEF SaveInFlight, TypeInv, TypeOK
<1> HIDE DEF a
<1>6. OneSave' /\ Replaying'
  BY <1>4 DEF Tended, OneSave, Replaying, SaveInFlight
<1>7. Current'
  BY <1>2, <1>5 DEF Tended, Current, Kept, Export
<1>8. ASSUME NEW u \in Tabs, page'[u] \in {"saving", "leaving"}
      PROVE  page[u] = page'[u] /\ server'[account[u]] = server[account[u]]
  <2>1. page[u] = page'[u] /\ u # t
    BY <1>4, <1>8
  <2>2. account[u] \in Accounts
    BY <2>1, <1>8, OwnPage
  <2> QED
    BY <1>1, <1>2, <2>1, <2>2
<1>9. Saving'
  BY <1>8 DEF Tended, Saving, Brings, Export
<1>10. ReloadsSaved'
  BY <1>8 DEF Tended, ReloadsSaved, AllKept, Kept, Export
<1>11. SaveIsComing'
  BY <1>2, <1>3 DEF Tended, SaveIsComing, OnItsWay, Brings, Kept, Export, LatestOnly
<1> QED
  BY <1>6, <1>7, <1>9, <1>10, <1>11 DEF Tended

\* A page leaves its account with everything saved, for none or for another; its
\* requests are gone, or are none of a customer's any more.
LEMMA TendedLeave ==
    ASSUME TypeInv, Tended, NEW t \in Tabs,
           account[t] \in Accounts => AllKept(account[t]),
           UNCHANGED storage, saves' \subseteq saves,
           \A s \in saves : s.tab # t => s \in saves',
           \A u \in Tabs \ {t} : /\ page'[u] = page[u] /\ account'[u] = account[u]
                                 /\ raw'[u] = raw[u] /\ timer'[u] = timer[u],
           page'[t] \notin {"saving", "leaving"},
           page'[t] = "hydrating" => raw'[t] = local[account'[t]],
           account'[t] \in Accounts => \A s \in saves' : s.tab # t,
           page'[t] = "hydrating" => account'[t] \in Accounts
    PROVE  Tended'
<1> USE DEF storage, Export
<1>1. \A s \in saves : s.tab \in Tabs
  BY DEF TypeInv, TypeOK
<1>2. OneSave'
  BY DEF Tended, OneSave
<1>3. Replaying'
  BY DEF Tended, Replaying, SaveInFlight
<1>4. Current'
  BY <1>1 DEF Tended, Current, Kept
<1>5. Saving'
  BY DEF Tended, Saving, Brings
<1>6. ReloadsSaved'
  BY DEF Tended, ReloadsSaved, AllKept, Kept
<1>7. SaveIsComing'
  <2> SUFFICES ASSUME NEW a \in Accounts, NEW c \in Export(a), ~ Kept(a, c)
               PROVE  \E u \in Tabs : account'[u] = a /\ OnItsWay(u, c)'
    BY DEF SaveIsComing, Kept
  <2>1. PICK u \in Tabs : account[u] = a /\ OnItsWay(u, c)
    BY DEF Tended, SaveIsComing
  <2>2. u # t
    BY <2>1 DEF AllKept
  <2> QED
    BY <2>1, <2>2 DEF OnItsWay, Brings
<1> QED
  BY <1>2, <1>3, <1>4, <1>5, <1>6, <1>7 DEF Tended

LEMMA TendedStep ==
    ASSUME TypeInv, Steady, Apart, Tended, Calm, Calm', Next, Patient, Prompt, LeftSaved
    PROVE  Tended'
<1> USE DEF session, history
<1>1. ASSUME NEW t \in Tabs, NEW a \in Accounts, Load(t, a) \/ SignIn(t, a) PROVE Tended'
  <2>1. Boot(t, a) /\ page[t] \in {"closed", "gate"} /\ UNCHANGED <<storage, saves>>
    BY <1>1 DEF Load, SignIn
  <2>2. /\ page'[t] \in {"open", "hydrating"} /\ raw'[t] = local[a] /\ account'[t] = a
        /\ \A u \in Tabs \ {t} : /\ page'[u] = page[u] /\ account'[u] = account[u]
                                 /\ raw'[u] = raw[u]
    BY <2>1, BootType
  <2>3. \A s \in saves : s.tab # t
    BY <2>1, <2>2 DEF TypeInv, Placed, Patient, SaveInFlight
  <2>4. account[t] \notin Accounts
    BY <2>1, StateSyncAssumption DEF Steady
  <2>5. \A u \in Tabs \ {t} : timer'[u] = timer[u]
    BY <1>1 DEF Load, SignIn, TypeInv, TypeOK
  <2> QED
    BY <2>1, <2>2, <2>3, <2>4, <2>5, TendedLeave
<1>2. ASSUME NEW t \in Tabs, Reload(t) PROVE Tended'
  <2>1. /\ account[t] \in Accounts /\ Boot(t, account[t]) /\ UNCHANGED storage
        /\ saves' = {s \in saves : s.tab # t}
    BY <1>2 DEF Reload, TypeInv, Placed
  <2>2. /\ page'[t] \in {"open", "hydrating"} /\ raw'[t] = local[account[t]]
        /\ account'[t] = account[t]
        /\ \A u \in Tabs \ {t} : /\ page'[u] = page[u] /\ account'[u] = account[u]
                                 /\ raw'[u] = raw[u]
    BY <2>1, BootType
  <2>3. AllKept(account[t])
    BY <1>2 DEF Reload, LeftSaved, Tended, ReloadsSaved
  <2>4. \A u \in Tabs \ {t} : timer'[u] = timer[u]
    BY <1>2 DEF Reload, TypeInv, TypeOK
  <2> QED
    BY <2>1, <2>2, <2>3, <2>4, TendedLeave
<1>3. ASSUME NEW t \in Tabs, SignOut(t) PROVE Tended'
  <2>1. /\ page'[t] = "gate" /\ account'[t] = Anon /\ Anon \notin Accounts
        /\ UNCHANGED <<storage, saves>>
        /\ \A u \in Tabs \ {t} : /\ page'[u] = page[u] /\ account'[u] = account[u]
                                 /\ raw'[u] = raw[u] /\ timer'[u] = timer[u]
    BY <1>3, StateSyncAssumption DEF SignOut, TypeInv, TypeOK
  <2>2. AllKept(account[t])
    BY <1>3 DEF SignOut, LeftSaved
  <2> QED
    BY <2>1, <2>2, TendedLeave
<1>4. ASSUME NEW t \in Tabs, NEW c \in Changes, Change(t, c) PROVE Tended'
  BY <1>4, TendedApply DEF Change
<1>5. ASSUME NEW t \in Tabs, NEW c \in Changes, ImportArchive(t, c) PROVE Tended'
  <2>1. \A u \in Tabs : page'[u] = page[u] \/ page'[u] = "restored"
    BY <1>5 DEF ImportArchive, TypeInv, TypeOK
  <2> QED
    BY <1>5, <2>1, TendedApply DEF ImportArchive
<1>6. ASSUME NEW t \in Tabs, Hydrate(t) PROVE Tended'
  <2>1. server' = [server EXCEPT ![token[t]] = raw[t]]
    BY <1>6, NoFault DEF Hydrate, TypeInv
  <2> QED
    BY <1>6, <2>1, TendedHydrate DEF Hydrate
<1>7. ASSUME NEW t \in Tabs, Timer(t) PROVE Tended'
  <2>1. ~ SaveInFlight(t) /\ page[t] # "hydrating"
    BY <1>7 DEF Prompt
  <2>2. page[t] \notin {"closed", "saving"}
    BY <1>7, <2>1 DEF Timer, TypeInv, Placed, Tended, Saving, SaveInFlight
  <2>3. \A u \in Tabs \ {t} : timer'[u] = timer[u]
    BY <1>7 DEF Timer, TypeInv, TypeOK
  <2> QED
    BY <1>7, <2>1, <2>2, <2>3, TendedAsk DEF Timer
<1>8. ASSUME NEW t \in Tabs, SaveNow(t) PROVE Tended'
  <2>1. ~ SaveInFlight(t)
    BY <1>8 DEF Prompt
  <2>2. page'[t] = "saving" /\ \A u \in Tabs \ {t} : page'[u] = page[u]
    BY <1>8, <2>1 DEF SaveNow, TypeInv, TypeOK
  <2> QED
    BY <1>8, <2>1, <2>2, TendedAsk DEF SaveNow
<1>9. ASSUME NEW s \in saves, Answer(s) PROVE Tended'
  <2>1. /\ saves' = (saves \ {s}) \cup {[s EXCEPT !.doc = LatestOnly(server[s.from])]}
        /\ UNCHANGED page
    BY <1>9, NoFault DEF Answer, TypeInv
  <2> QED
    BY <1>9, <2>1, TendedAnswer DEF Answer
<1>10. ASSUME NEW s \in saves, Write(s) PROVE Tended'
  <2>1. local' = [local EXCEPT ![account[s.tab]] = s.doc]
    BY <1>10, NoFault DEF Write, TypeInv
  <2> QED
    BY <1>10, <2>1, TendedWrite
<1>11. ASSUME NEW a \in Accounts, Evict(a) PROVE Tended'
  <2>1. \A b \in Accounts : Export(b)' \subseteq Export(b)
    BY <1>11 DEF Evict, TypeInv, TypeOK, Export, LatestOnly
  <2> QED
    BY <1>11, <2>1, TendedShrink DEF Evict
<1> QED
  BY <1>1, <1>2, <1>3, <1>4, <1>5, <1>6, <1>7, <1>8, <1>9, <1>10, <1>11 DEF Next

\* While customers use a page each, calls succeed, no save falls due during another
\* one or during the replay, and pages are left with their changes saved, every row
\* and every BOM's latest snapshot the server has and the copy lacks has a timer or
\* an export that will bring it, through any evictions, reloads, sign-outs and
\* imports; and a page that reloads itself after an import finds them all in the
\* copy.
THEOREM ChangesAreOnTheirWay ==
    Spec /\ []Calm /\ [][Patient /\ Prompt /\ LeftSaved]_vars
        => [](SaveIsComing /\ ReloadsSaved)
<1> DEFINE Inv == TypeInv /\ Steady /\ Apart /\ Tended
<1>1. Init => Inv
  BY TypeInit, SteadyInit, ApartInit, TendedInit
<1>2. Inv /\ Calm /\ Calm' /\ [Next]_vars /\ [Patient /\ Prompt /\ LeftSaved]_vars => Inv'
  <2>1. CASE UNCHANGED vars
    BY <2>1 DEF Inv, vars, storage, session, history, TypeInv, TypeOK, Placed, Steady, Apart,
                Owned, Tended, OneSave, Replaying, SaveInFlight, Current, Saving,
                ReloadsSaved, SaveIsComing, AllKept, OnItsWay, Kept, Brings, Export
  <2>2. CASE Next /\ Patient /\ Prompt /\ LeftSaved
    BY <2>2, TypeStep, SteadyStep, ApartStep, TendedStep
  <2> QED
    BY <2>1, <2>2
<1>3. Inv => SaveIsComing /\ ReloadsSaved
  BY DEF Tended
<1> HIDE DEF Inv
<1> QED
  BY <1>1, <1>2, <1>3, PTL DEF Spec

===============================================================================
