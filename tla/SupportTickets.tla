---------------------------- MODULE SupportTickets ----------------------------
(***************************************************************************)
(* Azure support tickets (api/_shared/support_tickets.py, the endpoints    *)
(* support_ticket_create, support_ticket_get and support_azure_ticket_     *)
(* close, and the dialog that calls them): a ticket is created at Azure by *)
(* a PUT under a name of our own, and a row of the table supporttickets    *)
(* tells the user what became of it.  The row is written only after Azure  *)
(* answered; the later updates of a row (a refresh, a close) read it, ask  *)
(* Azure and write the whole of it back.                                   *)
(***************************************************************************)
EXTENDS Integers, FiniteSets

CONSTANTS
    Asks,          \* what users ask Azure for
    Names,         \* ticket names: a time stamp and a random suffix, never reused
    Workers,       \* threads that serve requests
    MaxRevision,   \* bound: how often the status of a ticket changes
    MaxFaults,     \* bound: time-outs, failing saves, closed pages, restarts, wipes
    Nothing

ASSUME TicketsAssumption ==
    /\ Nothing \notin Names \cup Asks
    /\ MaxRevision \in Nat \ {0}
    /\ MaxFaults \in Nat

VARIABLES
    demo,          \* DEMO_MODE: nothing is sent to Azure
    wire,          \* the PUT of a name: unsent, on its way, or Azure's answer
    azure,         \* the revision of the ticket's status at Azure, 0: no ticket
    rows,          \* the table: [status, azure_status], or Nothing
    asked,         \* what a name was chosen for, Nothing when it is still free
    awaits,        \* the name whose answer the page of an ask waits for
    told,          \* what that page said last
    work,          \* what a thread is doing, for which name, with what it read
    faults,
    lost,          \* history: the server never read Azure's answer to the PUT
    unheard,       \* history: the page never got the server's answer
    unsaved,       \* history: _save_record swallowed a failing write
    wiped,         \* history: local_state_wipe dropped the row
    overlapped     \* history: two updates of one row were in flight at once

page == <<asked, awaits, told>>
ticketHistory == <<faults, lost, unheard, unsaved, wiped, overlapped>>
ticketVars == <<demo, wire, azure, rows, page, work, ticketHistory>>

Revisions == 0 .. MaxRevision
Row == [status : {"preview", "failed", "submitted"}, azure_status : Revisions]
RowWith(status, revision) == [status |-> status, azure_status |-> revision]
ASSUME NoRowIsNothing == Nothing \notin Row
Wire == {"unsent", "sent", "accepted", "refused", "mfa_required"}
Told == {"nothing", "filed", "failed", "mfa_required"}
Work == [step : {"idle", "checking", "put", "poll", "read", "write"},
         name : Names \cup {Nothing}, row : Row \cup {Nothing}, got : Revisions]
Task(step, name, row, got) == [step |-> step, name |-> name, row |-> row, got |-> got]
Idle == Task("idle", Nothing, Nothing, 0)

Updating(n) == \E w \in Workers : work[w].step \in {"poll", "read", "write"} /\ work[w].name = n
Fault == faults < MaxFaults /\ faults' = faults + 1

\* The server's answer reaches the page that waits for it.
Answer(n, what) ==
    LET a == asked[n]
    IN  IF awaits[a] = n
        THEN /\ told' = [told EXCEPT ![a] = what]
             /\ awaits' = [awaits EXCEPT ![a] = Nothing]
        ELSE UNCHANGED <<told, awaits>>

\* _save_record(): a failing write is logged and swallowed.
SaveRecord(n, row) ==
    \/ rows' = [rows EXCEPT ![n] = row] /\ UNCHANGED <<faults, unsaved>>
    \/ Fault /\ unsaved' = unsaved \cup {n} /\ UNCHANGED rows

------------------------------------------------------------------------------
TicketsInit ==
    /\ demo \in BOOLEAN
    /\ wire = [n \in Names |-> "unsent"]
    /\ azure = [n \in Names |-> 0]
    /\ rows = [n \in Names |-> Nothing]
    /\ asked = [n \in Names |-> Nothing]
    /\ awaits = [a \in Asks |-> Nothing]
    /\ told = [a \in Asks |-> "nothing"]
    /\ work = [w \in Workers |-> Idle]
    /\ faults = 0
    /\ lost = {}
    /\ unheard = {}
    /\ unsaved = {}
    /\ wiped = {}
    /\ overlapped = {}

\* The user submits, or submits again after a failure (after an MFA challenge
\* with a stronger token): the button is disabled until the answer is there.
Submit(a, w, n) ==
    /\ awaits[a] = Nothing
    /\ told[a] # "filed"
    /\ work[w].step = "idle"
    /\ asked[n] = Nothing
    /\ asked' = [asked EXCEPT ![n] = a]
    /\ awaits' = [awaits EXCEPT ![a] = n]
    /\ work' = [work EXCEPT ![w] = Task("checking", n, Nothing, 0)]
    /\ UNCHANGED <<demo, wire, azure, rows, told, ticketHistory>>

\* No token, bad input, an incomplete contact profile, or no problem
\* classification: an error, and no row.
Refused(w) ==
    /\ work[w].step = "checking"
    /\ Answer(work[w].name, "failed")
    /\ work' = [work EXCEPT ![w] = Idle]
    /\ UNCHANGED <<demo, wire, azure, rows, asked, ticketHistory>>

Preview(w) ==
    /\ work[w].step = "checking"
    /\ demo
    /\ SaveRecord(work[w].name, RowWith("preview", 0))
    /\ Answer(work[w].name, "filed")
    /\ work' = [work EXCEPT ![w] = Idle]
    /\ UNCHANGED <<demo, wire, azure, asked, lost, unheard, wiped, overlapped>>

Put(w) ==
    /\ work[w].step = "checking"
    /\ ~demo
    /\ wire' = [wire EXCEPT ![work[w].name] = "sent"]
    /\ work' = [work EXCEPT ![w] = Task("put", work[w].name, Nothing, 0)]
    /\ UNCHANGED <<demo, azure, rows, page, ticketHistory>>

\* Azure serves the PUT, whether or not anyone still waits for the answer.
AzureAccepts(n) ==
    /\ wire[n] = "sent"
    /\ wire' = [wire EXCEPT ![n] = "accepted"]
    /\ azure' = [azure EXCEPT ![n] = 1]
    /\ UNCHANGED <<demo, rows, page, work, ticketHistory>>

AzureRefuses(n) ==
    /\ wire[n] = "sent"
    /\ \E answer \in {"refused", "mfa_required"} : wire' = [wire EXCEPT ![n] = answer]
    /\ UNCHANGED <<demo, azure, rows, page, work, ticketHistory>>

AzureMovesOn(n) ==
    /\ azure[n] \in 1 .. MaxRevision - 1
    /\ azure' = [azure EXCEPT ![n] = @ + 1]
    /\ UNCHANGED <<demo, wire, rows, page, work, ticketHistory>>

\* Faults: the answer's code is not looked at; a failing save fails the request.
SubmittedAnyway(w) ==
    /\ work[w].step = "put"
    /\ wire[work[w].name] # "sent"
    /\ SaveRecord(work[w].name, RowWith("submitted", 1))
    /\ Answer(work[w].name, "filed")
    /\ work' = [work EXCEPT ![w] = Idle]
    /\ UNCHANGED <<demo, wire, azure, asked, lost, unheard, wiped, overlapped>>
SubmittedIfSaved(w) ==
    /\ work[w].step = "put"
    /\ wire[work[w].name] = "accepted"
    /\ SaveRecord(work[w].name, RowWith("submitted", 1))
    /\ Answer(work[w].name, IF rows' = rows THEN "failed" ELSE "filed")
    /\ work' = [work EXCEPT ![w] = Idle]
    /\ UNCHANGED <<demo, wire, azure, asked, lost, unheard, wiped, overlapped>>

Submitted(w) ==
    /\ work[w].step = "put"
    /\ wire[work[w].name] = "accepted"
    /\ SaveRecord(work[w].name, RowWith("submitted", 1))
    /\ Answer(work[w].name, "filed")
    /\ work' = [work EXCEPT ![w] = Idle]
    /\ UNCHANGED <<demo, wire, azure, asked, lost, unheard, wiped, overlapped>>

SubmitFailed(w) ==
    /\ work[w].step = "put"
    /\ wire[work[w].name] \in {"refused", "mfa_required"}
    /\ SaveRecord(work[w].name, RowWith("failed", 0))
    /\ Answer(work[w].name, IF wire[work[w].name] = "refused" THEN "failed" ELSE "mfa_required")
    /\ work' = [work EXCEPT ![w] = Idle]
    /\ UNCHANGED <<demo, wire, azure, asked, lost, unheard, wiped, overlapped>>

\* The PUT fails or times out: Azure may have served it, or may serve it yet.
RequestFailed(w) ==
    /\ work[w].step = "put"
    /\ Fault
    /\ rows' = [rows EXCEPT ![work[w].name] = RowWith("failed", 0)]
    /\ lost' = lost \cup {work[w].name}
    /\ Answer(work[w].name, "failed")
    /\ work' = [work EXCEPT ![w] = Idle]
    /\ UNCHANGED <<demo, wire, azure, asked, unheard, unsaved, wiped, overlapped>>

------------------------------------------------------------------------------
Overlap(n) == overlapped' = IF Updating(n) THEN overlapped \cup {n} ELSE overlapped

\* refresh_status() reads the row, polls Azure, writes the row back.
Refresh(w, n) ==
    /\ work[w].step = "idle"
    /\ rows[n] # Nothing
    /\ rows[n].status # "preview"
    /\ work' = [work EXCEPT ![w] = Task("poll", n, rows[n], 0)]
    /\ Overlap(n)
    /\ UNCHANGED <<demo, wire, azure, rows, page, faults, lost, unheard, unsaved, wiped>>

\* Faults: an answer without a status is written as none, or as "Open".
PollWithoutStatus(w) ==
    /\ work[w].step = "poll"
    /\ work' = [work EXCEPT ![w] = Task("write", @.name, @.row, Nothing)]
    /\ UNCHANGED <<demo, wire, azure, rows, page, ticketHistory>>
PollDefaultsToOpen(w) ==
    /\ work[w].step = "poll"
    /\ \/ /\ azure[work[w].name] > 0
          /\ work' = [work EXCEPT ![w] = Task("write", @.name, @.row, 1)]
       \/ work' = [work EXCEPT ![w] = Idle]
    /\ UNCHANGED <<demo, wire, azure, rows, page, ticketHistory>>

\* Azure answers, or there is no such ticket, or the call fails.
Poll(w) ==
    /\ work[w].step = "poll"
    /\ \/ /\ azure[work[w].name] > 0
          /\ work' = [work EXCEPT ![w] = Task("write", @.name, @.row, azure[@.name])]
       \/ work' = [work EXCEPT ![w] = Idle]
    /\ UNCHANGED <<demo, wire, azure, rows, page, ticketHistory>>

\* close_azure_ticket() asks Azure, then reads the row, if there is one, and
\* writes it back.
Close(w, n) ==
    /\ ~demo
    /\ work[w].step = "idle"
    /\ azure[n] \in 1 .. MaxRevision - 1
    /\ azure' = [azure EXCEPT ![n] = @ + 1]
    /\ \/ /\ work' = [work EXCEPT ![w] = Task("read", n, Nothing, azure[n] + 1)]
          /\ Overlap(n)
       \/ UNCHANGED <<work, overlapped>>
    /\ UNCHANGED <<demo, wire, rows, page, faults, lost, unheard, unsaved, wiped>>

ReadRow(w) ==
    /\ work[w].step = "read"
    /\ \/ /\ rows[work[w].name] # Nothing
          /\ work' = [work EXCEPT ![w] = Task("write", @.name, rows[@.name], @.got)]
       \/ work' = [work EXCEPT ![w] = Idle]
    /\ UNCHANGED <<demo, wire, azure, rows, page, ticketHistory>>

\* The whole row goes back, with the status Azure gave; a failure is swallowed.
WriteBack(w) ==
    /\ work[w].step = "write"
    /\ \/ rows' = [rows EXCEPT ![work[w].name] =
                     RowWith(work[w].row.status, work[w].got)]
       \/ UNCHANGED rows
    /\ work' = [work EXCEPT ![w] = Idle]
    /\ UNCHANGED <<demo, wire, azure, page, ticketHistory>>

------------------------------------------------------------------------------
ClosePage(a) ==
    /\ awaits[a] # Nothing
    /\ Fault
    /\ unheard' = unheard \cup {awaits[a]}
    /\ awaits' = [awaits EXCEPT ![a] = Nothing]
    /\ UNCHANGED <<demo, wire, azure, rows, asked, told, work, lost, unsaved, wiped, overlapped>>

\* The server stops: what its threads held is gone, the table stays.
RestartServer ==
    /\ Fault
    /\ lost' = lost \cup {work[w].name : w \in {v \in Workers : work[v].step = "put"}}
    /\ unheard' = unheard \cup {n \in Names : \E a \in Asks : awaits[a] = n}
    /\ told' = [a \in Asks |-> IF awaits[a] = Nothing THEN told[a] ELSE "failed"]
    /\ awaits' = [a \in Asks |-> Nothing]
    /\ work' = [w \in Workers |-> Idle]
    /\ UNCHANGED <<demo, wire, azure, rows, asked, unsaved, wiped, overlapped>>

\* local_state_wipe drops the table; requests in flight go on.
WipeTickets ==
    /\ Fault
    /\ wiped' = wiped \cup {n \in Names : rows[n] # Nothing}
    /\ rows' = [n \in Names |-> Nothing]
    /\ UNCHANGED <<demo, wire, azure, page, work, lost, unheard, unsaved, overlapped>>

TicketsNext ==
    \/ \E a \in Asks, w \in Workers, n \in Names : Submit(a, w, n)
    \/ \E w \in Workers :
        \/ Refused(w) \/ Preview(w) \/ Put(w)
        \/ Submitted(w) \/ SubmitFailed(w) \/ RequestFailed(w)
        \/ Poll(w) \/ ReadRow(w) \/ WriteBack(w)
    \/ \E w \in Workers, n \in Names : Refresh(w, n) \/ Close(w, n)
    \/ \E n \in Names : AzureAccepts(n) \/ AzureRefuses(n) \/ AzureMovesOn(n)
    \/ \E a \in Asks : ClosePage(a)
    \/ RestartServer
    \/ WipeTickets

TicketsSpec == TicketsInit /\ [][TicketsNext]_ticketVars

------------------------------------------------------------------------------
\* Type invariant; only names chosen for an ask have a row or a request.
TicketsTypeOK ==
    /\ demo \in BOOLEAN
    /\ wire \in [Names -> Wire]
    /\ azure \in [Names -> Revisions]
    /\ rows \in [Names -> Row \cup {Nothing}]
    /\ asked \in [Names -> Asks \cup {Nothing}]
    /\ awaits \in [Asks -> Names \cup {Nothing}]
    /\ told \in [Asks -> Told]
    /\ work \in [Workers -> Work]
    /\ faults \in 0 .. MaxFaults
    /\ {lost, unheard, unsaved, wiped, overlapped} \subseteq SUBSET Names

\* Our record and Azure agree: every ticket at Azure has a row that says it was
\* submitted, or its handler is about to write it, unless the answer was lost,
\* the save failed or the user wiped the table; and a row never claims a ticket
\* Azure does not have, nor a later status than the ticket's.
Tracked ==
    \A n \in Names :
        /\ azure[n] > 0 =>
            \/ rows[n] # Nothing /\ rows[n].status = "submitted"
            \/ n \in lost \cup unsaved \cup wiped
            \/ \E w \in Workers : work[w].step = "put" /\ work[w].name = n
        /\ rows[n] # Nothing =>
            /\ rows[n].azure_status <= azure[n]
            /\ rows[n].status = "submitted" => azure[n] > 0

\* One ask has two tickets at Azure only when the answer for one of them did not
\* reach the server or the page: a refusal, an MFA challenge or a failing save
\* never makes the user file a second one.
FiledTwiceOnlyAfterLostAnswer ==
    \A m, n \in Names :
        /\ m # n
        /\ asked[m] = asked[n]
        /\ azure[m] > 0
        /\ azure[n] > 0
        => {m, n} \cap (lost \cup unheard) # {}

\* The status a row shows never goes back, unless two updates of the row were in
\* flight at once; what became of the submission never changes.
StatusOnlyAdvances ==
    [][\A n \in Names :
          rows[n] # Nothing /\ rows'[n] # Nothing =>
            /\ rows'[n].azure_status >= rows[n].azure_status \/ n \in overlapped
            /\ rows'[n].status = rows[n].status]_ticketVars
===============================================================================
