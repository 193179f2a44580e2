----------------------------- MODULE LoginFlow -----------------------------
(***************************************************************************)
(* The login of an account binding (internal/plugins/account/store.go):    *)
(* "/account bind" issues a ticket, opening its link begins a transaction, *)
(* and the provider's callback consumes the transaction.                   *)
(*                                                                         *)
(* Every operation holds the store's mutex, drops what has expired,        *)
(* changes the memory and saves the whole file.  The save replaces the     *)
(* file or leaves it as it was; when it fails the operation undoes its     *)
(* change, but not the cleanup and not the removal of superseded tickets.  *)
(* An operation touches the file once, as its last effect, so that one     *)
(* action stands for all of it and a crash falls between two actions.      *)
(*                                                                         *)
(* The caller reads the clock before it waits for the mutex: an operation  *)
(* may see a time up to MaxLag in the past.                                *)
(*                                                                         *)
(* A login keeps one identifier from its ticket to its transaction.  Left  *)
(* out: the random values and their digests, the display names, and the    *)
(* bindings the same file carries (BindingStore).  consumeTicket and       *)
(* beginTransaction are used by no handler.                                *)
(***************************************************************************)
EXTENDS Naturals

CONSTANTS
    Users,
    TicketTTL,        \* bindTicketTTL
    TransactionTTL,   \* transactionTTL
    MaxLogins,        \* bound: tickets issued
    MaxTime,          \* bound: the clock
    MaxLag,           \* bound: the wait for the store's mutex
    MaxFaults         \* bound: saves that fail

ASSUME LoginAssumption ==
    {TicketTTL, TransactionTTL, MaxLogins, MaxTime, MaxLag, MaxFaults} \subseteq Nat

VARIABLES
    tickets,        \* the tickets in memory
    transactions,   \* the login transactions in memory
    disk,           \* the tickets and transactions of the file
    up,             \* whether the process runs
    clock,
    issued,         \* tickets issued
    issuedAt,       \* per login, when its ticket was handed out
    begun,          \* logins whose ticket was exchanged for a transaction
    consumed,       \* logins whose transaction was handed to the exchange
    dropped,        \* logins an operation took out of memory without the file,
                    \* since the memory and the file last met
    faults

vars == <<tickets, transactions, disk, up, clock, issued, issuedAt, begun, consumed,
          dropped, faults>>

Logins == 1..MaxLogins

Ticket == [id : Logins, user : Users, expires : Nat]

\* A transaction sealed under another key than the present one is unreadable.
Transaction == [id : Logins, user : Users, expires : Nat, readable : BOOLEAN]

Init ==
    /\ tickets = {}
    /\ transactions = {}
    /\ disk = [tickets |-> {}, transactions |-> {}]
    /\ up = TRUE
    /\ clock = 0
    /\ issued = 0
    /\ issuedAt = [i \in Logins |-> 0]
    /\ begun = {}
    /\ consumed = {}
    /\ dropped = {}
    /\ faults = 0

-----------------------------------------------------------------------------
\* Mutant: honours a ticket or transaction in the second it expires.
LiveThrough(items, t) == {x \in items : x.expires >= t}

\* cleanup, and the filter of load.
Live(items, t) == {x \in items : x.expires > t}

Ids(items) == {x.id : x \in items}

SeenTime(t) == t <= clock /\ clock <= t + MaxLag

Save ==
    /\ disk' = [tickets |-> tickets', transactions |-> transactions']
    /\ dropped' = {}
    /\ UNCHANGED faults

\* The save fails, and the operation takes the given logins out of memory all
\* the same.
SaveFails(gone) ==
    /\ faults < MaxFaults
    /\ faults' = faults + 1
    /\ dropped' = dropped \union gone
    /\ UNCHANGED disk

\* Mutant: a new ticket leaves the user's earlier one alone.
SupersedeNone(u, t) == Live(tickets, t)

Supersede(u, t) == {x \in Live(tickets, t) : x.user # u}

\* issueTicket, its save done.
IssueTicket(u, t) ==
    /\ up /\ SeenTime(t) /\ issued < MaxLogins
    /\ issued' = issued + 1
    /\ tickets' = Supersede(u, t) \union
           {[id |-> issued', user |-> u, expires |-> t + TicketTTL]}
    /\ transactions' = Live(transactions, t)
    /\ Save
    /\ issuedAt' = [issuedAt EXCEPT ![issued'] = clock]
    /\ UNCHANGED <<up, clock, begun, consumed>>

\* issueTicket, its save failed: the new ticket is dropped and never seen, the
\* user's earlier ticket is gone from memory.
IssueTicketFails(u, t) ==
    /\ up /\ SeenTime(t)
    /\ tickets' = Supersede(u, t)
    /\ transactions' = Live(transactions, t)
    /\ SaveFails(Ids(tickets \ Supersede(u, t)))
    /\ UNCHANGED <<up, clock, issued, issuedAt, begun, consumed>>

\* lookupTicket, for the confirmation page: only its cleanup changes anything.
LookupTicket(t) ==
    /\ up /\ SeenTime(t)
    /\ tickets' = Live(tickets, t)
    /\ transactions' = Live(transactions, t)
    /\ UNCHANGED <<disk, up, clock, issued, issuedAt, begun, consumed, dropped, faults>>

\* Mutant: the ticket is not deleted.
BeginFromTicketKeeping(x, t) ==
    /\ up /\ SeenTime(t) /\ x \in Live(tickets, t)
    /\ tickets' = Live(tickets, t)
    /\ transactions' = Live(transactions, t) \union
           {[id |-> x.id, user |-> x.user, expires |-> t + TransactionTTL,
             readable |-> TRUE]}
    /\ begun' = begun \union {x.id}
    /\ Save
    /\ UNCHANGED <<up, clock, issued, issuedAt, consumed>>

\* beginFromTicket: the ticket becomes a transaction.
BeginFromTicket(x, t) ==
    /\ up /\ SeenTime(t) /\ x \in Live(tickets, t)
    /\ tickets' = Live(tickets, t) \ {x}
    /\ transactions' = Live(transactions, t) \union
           {[id |-> x.id, user |-> x.user, expires |-> t + TransactionTTL,
             readable |-> TRUE]}
    /\ begun' = begun \union {x.id}
    /\ Save
    /\ UNCHANGED <<up, clock, issued, issuedAt, consumed>>

\* Mutant: the failed exchange leaves its transaction in memory.
BeginFromTicketFailsKeeping(x, t) ==
    /\ up /\ SeenTime(t) /\ x \in Live(tickets, t)
    /\ tickets' = Live(tickets, t)
    /\ transactions' = Live(transactions, t) \union
           {[id |-> x.id, user |-> x.user, expires |-> t + TransactionTTL,
             readable |-> TRUE]}
    /\ SaveFails({})
    /\ UNCHANGED <<up, clock, issued, issuedAt, begun, consumed>>

\* Mutant: the failed exchange does not put the ticket back.
BeginFromTicketFailsLosing(x, t) ==
    /\ up /\ SeenTime(t) /\ x \in Live(tickets, t)
    /\ tickets' = Live(tickets, t) \ {x}
    /\ transactions' = Live(transactions, t)
    /\ SaveFails({})
    /\ UNCHANGED <<up, clock, issued, issuedAt, begun, consumed>>

\* The save failed: the ticket is back and the transaction is not.
BeginFromTicketFails(x, t) ==
    /\ up /\ SeenTime(t) /\ x \in Live(tickets, t)
    /\ tickets' = Live(tickets, t)
    /\ transactions' = Live(transactions, t)
    /\ SaveFails({})
    /\ UNCHANGED <<up, clock, issued, issuedAt, begun, consumed>>

\* consumeTransaction, called by the callback handler also when the provider
\* reports an error.
ConsumeTransaction(x, t) ==
    /\ up /\ SeenTime(t) /\ x \in Live(transactions, t)
    /\ x.readable
    /\ tickets' = Live(tickets, t)
    /\ transactions' = Live(transactions, t) \ {x}
    /\ consumed' = consumed \union {x.id}
    /\ Save
    /\ UNCHANGED <<up, clock, issued, issuedAt, begun>>

ConsumeTransactionFails(x, t) ==
    /\ up /\ SeenTime(t) /\ x \in Live(transactions, t)
    /\ x.readable
    /\ tickets' = Live(tickets, t)
    /\ transactions' = Live(transactions, t)
    /\ SaveFails({})
    /\ UNCHANGED <<up, clock, issued, issuedAt, begun, consumed>>

\* The secrets of the transaction cannot be opened: it is dropped, whether or
\* not the save succeeds.
DropTransaction(x, t) ==
    /\ up /\ SeenTime(t) /\ x \in Live(transactions, t)
    /\ ~x.readable
    /\ tickets' = Live(tickets, t)
    /\ transactions' = Live(transactions, t) \ {x}
    /\ Save \/ SaveFails({x.id})
    /\ UNCHANGED <<up, clock, issued, issuedAt, begun, consumed>>

\* An operation on bindings saves the same file, without a cleanup.
SaveBindings ==
    /\ up
    /\ UNCHANGED <<tickets, transactions, up, clock, issued, issuedAt, begun, consumed>>
    /\ Save

-----------------------------------------------------------------------------
Tick ==
    /\ clock < MaxTime
    /\ clock' = clock + 1
    /\ UNCHANGED <<tickets, transactions, disk, up, issued, issuedAt, begun, consumed,
                   dropped, faults>>

Crash ==
    /\ up
    /\ up' = FALSE
    /\ tickets' = {}
    /\ transactions' = {}
    /\ UNCHANGED <<disk, clock, issued, issuedAt, begun, consumed, dropped, faults>>

Load(readable) ==
    /\ ~up
    /\ up' = TRUE
    /\ tickets' = Live(disk.tickets, clock)
    /\ transactions' = {[x EXCEPT !.readable = @ /\ readable] :
                            x \in Live(disk.transactions, clock)}
    /\ dropped' = {}
    /\ UNCHANGED <<disk, clock, issued, issuedAt, begun, consumed, faults>>

\* The process restarts, with its key or with another one: load opens the
\* tokens of bindings, but not the secrets of transactions.
Restart == Load(TRUE)

RestartWithNewKey == Load(FALSE)

TicketStep(t) ==
    \/ \E u \in Users : IssueTicket(u, t) \/ IssueTicketFails(u, t)
    \/ \E x \in tickets : BeginFromTicket(x, t) \/ BeginFromTicketFails(x, t)
    \/ LookupTicket(t)

TransactionStep(t) ==
    \E x \in transactions :
        \/ ConsumeTransaction(x, t)
        \/ ConsumeTransactionFails(x, t)
        \/ DropTransaction(x, t)

Next ==
    \/ \E t \in 0..MaxTime : TicketStep(t) \/ TransactionStep(t)
    \/ SaveBindings
    \/ Tick \/ Crash \/ Restart \/ RestartWithNewKey

Spec == Init /\ [][Next]_vars

-----------------------------------------------------------------------------
(* Properties.                                                             *)

\* Every variable holds a value of its kind.
TypeOK ==
    /\ tickets \subseteq Ticket
    /\ transactions \subseteq Transaction
    /\ disk.tickets \subseteq Ticket
    /\ disk.transactions \subseteq Transaction
    /\ up \in BOOLEAN
    /\ clock \in 0..MaxTime
    /\ issued \in 0..MaxLogins
    /\ issuedAt \in [Logins -> 0..MaxTime]
    /\ begun \subseteq Logins
    /\ consumed \subseteq Logins
    /\ dropped \subseteq Logins
    /\ faults \in 0..MaxFaults

\* A link works once and a login completes once: after its ticket was
\* exchanged, or its transaction consumed, neither a failed save nor a restart
\* brings it back ("TestBindingStoreTicketsAndTransactionsAreSingleUse").
SpentStaysSpent ==
    /\ begun \cap (Ids(tickets) \union Ids(disk.tickets)) = {}
    /\ consumed \cap (Ids(transactions) \union Ids(disk.transactions)) = {}

\* A login is never a ticket and a transaction at once, in memory or on disk:
\* the exchange of one for the other takes effect whole or not at all.
LoginInOneStage ==
    /\ Ids(tickets) \cap Ids(transactions) = {}
    /\ Ids(disk.tickets) \cap Ids(disk.transactions) = {}

\* A user has at most one open link: a new one invalidates the one before, also
\* after failed saves and restarts.
OneTicketPerUser ==
    /\ \A x, y \in tickets : x.user = y.user => x = y
    /\ \A x, y \in disk.tickets : x.user = y.user => x = y

\* The memory and the file tell of the same logins, after every failed save and
\* every restart.  Nothing is in memory that the file does not know, so that
\* each link and login still honoured would survive a restart; and the file has
\* nothing unexpired that a restart would bring back, except what issueTicket
\* superseded or consumeTransaction could not open in an operation whose save
\* failed, and no save has succeeded since.
FileAgrees ==
    /\ tickets \subseteq disk.tickets
    /\ \A x \in transactions : \E y \in disk.transactions :
          x.id = y.id /\ x.expires = y.expires
    /\ up => /\ Ids(Live(disk.tickets, clock)) \ Ids(tickets) \subseteq dropped
             /\ Ids(Live(disk.transactions, clock)) \ Ids(transactions)
                    \subseteq dropped

\* A login is completed within the lifetimes of its ticket and its transaction
\* after the ticket was handed out, however often the process restarted in
\* between; only the wait for the mutex comes on top.
LoginWindow ==
    [][\A i \in consumed' \ consumed :
          clock < issuedAt[i] + TicketTTL + TransactionTTL + MaxLag]_vars
=============================================================================
