-------------------------- MODULE LoginFlowProofs --------------------------
(***************************************************************************)
(* What holds of the login of an account binding for any number of users,  *)
(* logins, failed saves and restarts, and for any lifetimes and delays.    *)
(*                                                                         *)
(* The memory is what the next save writes and the file what the next      *)
(* start reads, so that the invariant says the same of both.               *)
(***************************************************************************)
EXTENDS LoginFlow, TLAPS

\* What is known of tickets T, wherever they are kept: their links are not
\* used, no two belong to one user or one login, and they end in time.
TicketsGood(T) ==
    /\ T \subseteq Ticket
    /\ \A x \in T : /\ x.id <= issued /\ x.id \notin begun
                    /\ x.expires <= issuedAt[x.id] + TicketTTL
    /\ \A x, y \in T : x.user = y.user \/ x.id = y.id => x = y

\* What is known of transactions X, wherever they are kept.
TransactionsGood(X) ==
    /\ X \subseteq Transaction
    /\ \A x \in X : /\ x.id \in begun /\ x.id \notin consumed
                    /\ x.expires <= issuedAt[x.id] + TicketTTL + TransactionTTL
    /\ \A x, y \in X : x.id = y.id => x = y

\* A login that began had its ticket issued.
BegunInv == \A i \in begun : i <= issued

\* A login that ended had begun.
ConsumedInv == consumed \subseteq begun

IInv ==
    /\ TypeOK /\ BegunInv /\ ConsumedInv /\ FileAgrees
    /\ TicketsGood(tickets) /\ TransactionsGood(transactions)
    /\ TicketsGood(disk.tickets) /\ TransactionsGood(disk.transactions)

\* Nothing that the invariant measures items by changes.
LedgerStays == UNCHANGED <<issued, issuedAt, begun, consumed>>

-----------------------------------------------------------------------------
LEMMA Bounds ==
    /\ TicketTTL \in Nat /\ TransactionTTL \in Nat /\ MaxLogins \in Nat
    /\ MaxTime \in Nat /\ MaxLag \in Nat /\ MaxFaults \in Nat
BY LoginAssumption

LEMMA InvInit == Init => IInv
<1> SUFFICES ASSUME Init PROVE IInv
  OBVIOUS
<1>1. 0 \in 0..MaxTime /\ 0 \in 0..MaxLogins /\ 0 \in 0..MaxFaults
  BY Bounds
<1>2. TypeOK
  BY <1>1 DEF Init, TypeOK
<1>3. FileAgrees
  BY DEF Init, FileAgrees, Ids, Live
<1> QED
  BY <1>2, <1>3 DEF Init, IInv, BegunInv, ConsumedInv, TicketsGood, TransactionsGood

\* The file is what the memory has become.
LEMMA CopyAgrees ==
    ASSUME disk'.tickets = tickets', disk'.transactions = transactions'
    PROVE  FileAgrees'
BY DEF FileAgrees, Ids, Live

\* The file stays and the items that leave the memory have expired, or are
\* noted in dropped.
LeavesNoted ==
    /\ disk' = disk /\ dropped \subseteq dropped'
    /\ up' => up /\ clock <= clock'
    /\ \A x \in tickets \ tickets' : up' => x.expires <= clock' \/ x.id \in dropped'
    /\ \A x \in transactions \ transactions' :
           up' => x.expires <= clock' \/ x.id \in dropped'

LEMMA LeaveAgrees ==
    ASSUME IInv, LeavesNoted, clock' \in 0..MaxTime,
           tickets' \subseteq tickets, transactions' \subseteq transactions
    PROVE  FileAgrees'
<1>1. /\ tickets' \subseteq disk'.tickets
      /\ \A x \in transactions' : \E y \in disk'.transactions :
            x.id = y.id /\ x.expires = y.expires
  BY DEF IInv, FileAgrees, LeavesNoted
<1>2. ASSUME up', NEW y \in disk.tickets, y.expires > clock'
      PROVE  y.id \in Ids(tickets') \/ y.id \in dropped'
  <2>1. /\ y.expires \in Nat /\ clock \in Nat /\ clock' \in Nat
        /\ up /\ clock <= clock' /\ dropped \subseteq dropped'
    BY <1>2, Bounds DEF IInv, TypeOK, TicketsGood, Ticket, LeavesNoted
  <2>2. y.expires > clock
    BY <1>2, <2>1
  <2>3. CASE y.id \in dropped
    BY <2>1, <2>3
  <2>4. CASE y.id \notin dropped
    <3>1. PICK x \in tickets : x.id = y.id
      BY <2>1, <2>2, <2>4 DEF IInv, FileAgrees, Ids, Live
    <3>2. x = y
      BY <3>1 DEF IInv, FileAgrees, TicketsGood
    <3>3. ~(y.expires <= clock')
      BY <1>2, <2>1
    <3> QED BY <1>2, <3>1, <3>2, <3>3 DEF LeavesNoted, Ids
  <2> QED BY <2>3, <2>4
<1>3. ASSUME up', NEW y \in disk.transactions, y.expires > clock'
      PROVE  y.id \in Ids(transactions') \/ y.id \in dropped'
  <2>1. /\ y.expires \in Nat /\ clock \in Nat /\ clock' \in Nat
        /\ up /\ clock <= clock' /\ dropped \subseteq dropped'
    BY <1>3, Bounds DEF IInv, TypeOK, TransactionsGood, Transaction, LeavesNoted
  <2>2. y.expires > clock
    BY <1>3, <2>1
  <2>3. CASE y.id \in dropped
    BY <2>1, <2>3
  <2>4. CASE y.id \notin dropped
    <3>1. PICK x \in transactions : x.id = y.id
      BY <2>1, <2>2, <2>4 DEF IInv, FileAgrees, Ids, Live
    <3>2. PICK z \in disk.transactions : x.id = z.id /\ x.expires = z.expires
      BY DEF IInv, FileAgrees
    <3>3. z = y
      BY <3>1, <3>2 DEF IInv, TransactionsGood
    <3>4. ~(x.expires <= clock')
      BY <1>3, <2>1, <3>2, <3>3
    <3> QED BY <1>3, <3>1, <3>4 DEF LeavesNoted, Ids
  <2> QED BY <2>3, <2>4
<1>4. disk' = disk
  BY DEF LeavesNoted
<1> QED BY <1>1, <1>2, <1>3, <1>4 DEF FileAgrees, Ids, Live

\* An operation that at most drops items, and saves what is left or does not.
LEMMA DropKeeps ==
    ASSUME IInv, LedgerStays,
           tickets' \subseteq tickets, transactions' \subseteq transactions,
           \/ LeavesNoted
           \/ disk' = [tickets |-> tickets', transactions |-> transactions'],
           up' \in BOOLEAN, clock' \in 0..MaxTime, faults' \in 0..MaxFaults,
           dropped' \subseteq Logins
    PROVE  IInv'
<1> USE DEF IInv
<1>1. TicketsGood(tickets)' /\ TransactionsGood(transactions)'
  BY DEF TicketsGood, TransactionsGood, LedgerStays
<1>2. /\ TicketsGood(disk.tickets)' /\ TransactionsGood(disk.transactions)'
      /\ FileAgrees'
  <2>1. CASE LeavesNoted
    <3>1. TicketsGood(disk.tickets)' /\ TransactionsGood(disk.transactions)'
      BY <2>1 DEF TicketsGood, TransactionsGood, LedgerStays, LeavesNoted
    <3> QED BY <2>1, <3>1, LeaveAgrees
  <2>2. CASE disk' = [tickets |-> tickets', transactions |-> transactions']
    <3>1. TicketsGood(disk.tickets)' /\ TransactionsGood(disk.transactions)'
      BY <1>1, <2>2 DEF TicketsGood, TransactionsGood
    <3> QED BY <2>2, <3>1, CopyAgrees
  <2> QED BY <2>1, <2>2
<1>3. TypeOK' /\ BegunInv' /\ ConsumedInv'
  BY <1>1, <1>2 DEF TypeOK, BegunInv, ConsumedInv, LedgerStays, TicketsGood, TransactionsGood
<1> QED BY <1>1, <1>2, <1>3

LEMMA FailKeepsBound ==
    ASSUME TypeOK, NEW gone, SaveFails(gone)
    PROVE  faults' \in 0..MaxFaults
BY Bounds DEF TypeOK, SaveFails

\* The save replaces the file by what the memory has become.
LEMMA SaveCopies ==
    ASSUME Save, TicketsGood(tickets)', TransactionsGood(transactions)'
    PROVE  /\ TicketsGood(disk.tickets)' /\ TransactionsGood(disk.transactions)'
           /\ disk'.tickets = tickets' /\ disk'.transactions = transactions'
           /\ dropped' \subseteq Logins
           /\ FileAgrees'
<1>1. disk' = [tickets |-> tickets', transactions |-> transactions'] /\ dropped' = {}
  BY DEF Save
<1>2. TicketsGood(disk.tickets)' /\ TransactionsGood(disk.transactions)'
  BY <1>1 DEF TicketsGood, TransactionsGood
<1>3. FileAgrees'
  BY <1>1, CopyAgrees
<1> QED BY <1>1, <1>2, <1>3

LEMMA IssueKeeps ==
    ASSUME IInv, NEW u \in Users, NEW t \in 0..MaxTime, IssueTicket(u, t)
    PROVE  IInv'
<1> USE DEF IInv
<1> DEFINE new == [id |-> issued + 1, user |-> u, expires |-> t + TicketTTL]
<1>1. /\ issued' = issued + 1 /\ issued < MaxLogins /\ t <= clock
      /\ tickets' = Supersede(u, t) \union {new}
      /\ transactions' = Live(transactions, t)
      /\ Save /\ faults' = faults
      /\ issuedAt' = [issuedAt EXCEPT ![issued + 1] = clock]
      /\ up' = up /\ clock' = clock /\ begun' = begun /\ consumed' = consumed
  BY DEF IssueTicket, SeenTime, Save
<1>2. /\ issued \in Nat /\ clock \in 0..MaxTime /\ t \in Nat
      /\ issued + 1 \in Logins /\ t + TicketTTL \in Nat
      /\ TicketTTL \in Nat /\ TransactionTTL \in Nat
  BY <1>1, Bounds DEF TypeOK, Logins
<1>3. new \in Ticket /\ new.id = issued + 1 /\ new.user = u
      /\ new.expires = t + TicketTTL
  BY <1>2 DEF Ticket
<1>4. /\ issuedAt'[issued + 1] = clock
      /\ \A i \in Logins : i <= issued => issuedAt'[i] = issuedAt[i]
      /\ issuedAt' \in [Logins -> 0..MaxTime]
  BY <1>1, <1>2 DEF TypeOK, Logins
<1>5. /\ Supersede(u, t) \subseteq tickets /\ \A x \in Supersede(u, t) : x.user # u
      /\ Live(transactions, t) \subseteq transactions
  BY DEF Supersede, Live
<1> HIDE DEF new
<1>6. TicketsGood(tickets)'
  <2>1. tickets' \subseteq Ticket
    BY <1>1, <1>3, <1>5 DEF TicketsGood
  <2>2. \A x \in tickets' : /\ x.id <= issued' /\ x.id \notin begun'
                            /\ x.expires <= issuedAt'[x.id] + TicketTTL
    <3> TAKE x \in tickets'
    <3>1. CASE x = new
      <4>1. issued + 1 \notin begun
        BY <1>2 DEF BegunInv
      <4> QED BY <1>1, <1>2, <1>3, <1>4, <3>1, <4>1
    <3>2. CASE x \in tickets
      <4>1. x.id \in Logins /\ x.id \in Nat
        BY <3>2 DEF TicketsGood, Ticket, Logins
      <4> QED BY <1>1, <1>2, <1>4, <3>2, <4>1 DEF TicketsGood
    <3> QED BY <1>1, <1>5, <3>1, <3>2
  <2>3. \A x \in tickets : x.id # issued + 1
    BY <1>2 DEF TicketsGood, Ticket, Logins
  <2>4. \A x, y \in tickets' : x.user = y.user \/ x.id = y.id => x = y
    BY <1>1, <1>3, <1>5, <2>3 DEF TicketsGood
  <2> QED BY <2>1, <2>2, <2>4 DEF TicketsGood
<1>7. TransactionsGood(transactions)'
  <2>1. \A x \in transactions : x.id \in Logins /\ issuedAt'[x.id] = issuedAt[x.id]
    BY <1>4 DEF TransactionsGood, Transaction, BegunInv
  <2> QED BY <1>1, <1>5, <2>1 DEF TransactionsGood
<1>8. TypeOK'
  <2>1. issued' \in 0..MaxLogins
    BY <1>1, <1>2, Bounds DEF Logins
  <2> QED
    BY <1>1, <1>4, <1>6, <1>7, <2>1, SaveCopies
    DEF TypeOK, TicketsGood, TransactionsGood
<1>9. BegunInv'
  BY <1>1, <1>2 DEF BegunInv, TypeOK, Logins
<1>10. ConsumedInv'
  BY <1>1 DEF ConsumedInv
<1> QED BY <1>1, <1>6, <1>7, <1>8, <1>9, <1>10, SaveCopies

LEMMA BeginKeeps ==
    ASSUME IInv, NEW x \in tickets, NEW t \in 0..MaxTime, BeginFromTicket(x, t)
    PROVE  IInv'
<1> USE DEF IInv
<1> DEFINE new == [id |-> x.id, user |-> x.user, expires |-> t + TransactionTTL,
                   readable |-> TRUE]
<1>1. /\ tickets' = Live(tickets, t) \ {x}
      /\ transactions' = Live(transactions, t) \union {new}
      /\ begun' = begun \union {x.id} /\ x.expires > t
      /\ Save /\ faults' = faults /\ up' = up /\ clock' = clock
      /\ issued' = issued /\ issuedAt' = issuedAt /\ consumed' = consumed
  BY DEF BeginFromTicket, Save, Live
<1>2. /\ x.id \in Logins /\ x.user \in Users /\ x.expires \in Nat
      /\ t \in Nat /\ t + TransactionTTL \in Nat
      /\ TicketTTL \in Nat /\ TransactionTTL \in Nat
      /\ x.id <= issued /\ x.id \notin begun
      /\ x.expires <= issuedAt[x.id] + TicketTTL /\ issuedAt[x.id] \in Nat
  BY Bounds DEF TicketsGood, Ticket, TypeOK
<1>3. /\ new \in Transaction /\ new.id = x.id
      /\ new.expires = t + TransactionTTL
  BY <1>2 DEF Transaction
<1>4. new.expires <= issuedAt[x.id] + TicketTTL + TransactionTTL
  BY <1>1, <1>2, <1>3
<1> HIDE DEF new
<1>5. x.id \notin consumed
  BY <1>2 DEF ConsumedInv
<1>6. TicketsGood(tickets)'
  <2>1. tickets' \subseteq tickets /\ \A y \in tickets' : y # x
    BY <1>1 DEF Live
  <2>2. \A y \in tickets' : y.id # x.id
    BY <2>1 DEF TicketsGood
  <2> QED BY <1>1, <2>1, <2>2 DEF TicketsGood
<1>7. TransactionsGood(transactions)'
  <2>1. /\ \A y \in transactions' : y = new \/ y \in transactions
        /\ \A y \in transactions : y.id # x.id
    BY <1>1, <1>2 DEF Live, TransactionsGood
  <2> QED BY <1>1, <1>3, <1>4, <1>5, <2>1 DEF TransactionsGood
<1>8. TypeOK'
  BY <1>1, <1>2, <1>6, <1>7, SaveCopies DEF TypeOK, TicketsGood, TransactionsGood
<1>9. BegunInv' /\ ConsumedInv'
  BY <1>1, <1>2 DEF BegunInv, ConsumedInv
<1> QED BY <1>1, <1>6, <1>7, <1>8, <1>9, SaveCopies

LEMMA ConsumeKeeps ==
    ASSUME IInv, NEW x \in transactions, NEW t \in 0..MaxTime,
           ConsumeTransaction(x, t)
    PROVE  IInv'
<1> USE DEF IInv
<1>1. /\ tickets' = Live(tickets, t) /\ transactions' = Live(transactions, t) \ {x}
      /\ consumed' = consumed \union {x.id}
      /\ Save /\ faults' = faults /\ up' = up /\ clock' = clock
      /\ issued' = issued /\ issuedAt' = issuedAt /\ begun' = begun
  BY DEF ConsumeTransaction, Save
<1>2. x.id \in begun /\ x.id \in Logins
  BY DEF TransactionsGood, Transaction
<1>3. TicketsGood(tickets)'
  BY <1>1 DEF TicketsGood, Live
<1>4. TransactionsGood(transactions)'
  <2>1. transactions' \subseteq transactions /\ \A y \in transactions' : y # x
    BY <1>1 DEF Live
  <2>2. \A y \in transactions' : y.id # x.id
    BY <2>1 DEF TransactionsGood
  <2> QED BY <1>1, <2>1, <2>2 DEF TransactionsGood
<1>5. TypeOK' /\ BegunInv' /\ ConsumedInv'
  BY <1>1, <1>2, <1>3, <1>4, SaveCopies
  DEF TypeOK, BegunInv, ConsumedInv, TicketsGood, TransactionsGood
<1> QED BY <1>1, <1>3, <1>4, <1>5, SaveCopies

LEMMA LoadKeeps ==
    ASSUME IInv, NEW readable \in BOOLEAN, Load(readable)
    PROVE  IInv'
<1> USE DEF IInv
<1>1. /\ tickets' = Live(disk.tickets, clock)
      /\ transactions' = {[x EXCEPT !.readable = @ /\ readable] :
                              x \in Live(disk.transactions, clock)}
      /\ up' = TRUE /\ LedgerStays
      /\ disk' = disk /\ clock' = clock /\ faults' = faults /\ dropped' = {}
  BY DEF Load, LedgerStays
<1>2. /\ TicketsGood(disk.tickets)' /\ TransactionsGood(disk.transactions)'
      /\ TicketsGood(tickets)'
  BY <1>1 DEF TicketsGood, TransactionsGood, LedgerStays, Live
<1>3. \A y \in transactions' : \E x \in disk.transactions :
          /\ y = [x EXCEPT !.readable = @ /\ readable]
          /\ y \in Transaction
          /\ y.id = x.id /\ y.expires = x.expires
  <2> TAKE y \in transactions'
  <2>1. PICK x \in disk.transactions : y = [x EXCEPT !.readable = @ /\ readable]
    BY <1>1 DEF Live
  <2>2. x \in Transaction
    BY DEF TransactionsGood
  <2>3. y \in Transaction /\ y.id = x.id /\ y.expires = x.expires
    BY <2>1, <2>2 DEF Transaction
  <2> QED BY <2>1, <2>3
<1>4. TransactionsGood(transactions)'
  <2>1. \A x, y \in transactions' : x.id = y.id => x = y
    BY <1>3 DEF TransactionsGood
  <2>2. transactions' \subseteq Transaction
    BY <1>3
  <2>3. \A y \in transactions' :
            /\ y.id \in begun' /\ y.id \notin consumed'
            /\ y.expires <= issuedAt'[y.id] + TicketTTL + TransactionTTL
    BY <1>1, <1>3 DEF TransactionsGood, LedgerStays
  <2> QED BY <2>1, <2>2, <2>3 DEF TransactionsGood
<1>5. FileAgrees'
  <2>1. \A x \in Live(disk.transactions, clock) : x.id \in Ids(transactions')
    <3> TAKE x \in Live(disk.transactions, clock)
    <3>1. [x EXCEPT !.readable = @ /\ readable] \in transactions'
      BY <1>1
    <3>2. x \in Transaction
      BY DEF Live, TransactionsGood
    <3>3. [x EXCEPT !.readable = @ /\ readable].id = x.id
      BY <3>2 DEF Transaction
    <3> QED BY <3>1, <3>3 DEF Ids
  <2>2. \A x \in Live(disk.tickets, clock) : x.id \in Ids(tickets')
    BY <1>1 DEF Ids
  <2>3. /\ tickets' \subseteq disk'.tickets
        /\ \A x \in transactions' : \E y \in disk'.transactions :
              x.id = y.id /\ x.expires = y.expires
    BY <1>1, <1>3 DEF Live
  <2>4. /\ Ids(Live(disk.tickets, clock)) \subseteq Ids(tickets')
        /\ Ids(Live(disk.transactions, clock)) \subseteq Ids(transactions')
    BY <2>1, <2>2 DEF Ids
  <2> QED BY <1>1, <2>3, <2>4 DEF FileAgrees, Ids, Live
<1>6. TypeOK' /\ BegunInv' /\ ConsumedInv'
  BY <1>1, <1>2, <1>4
  DEF TypeOK, BegunInv, ConsumedInv, LedgerStays, TicketsGood, TransactionsGood
<1> QED BY <1>2, <1>4, <1>5, <1>6

-----------------------------------------------------------------------------
\* Every operation but an issue, an exchange, a consumption or a start drops
\* items at most.
Drops(t) ==
    \/ \E u \in Users : IssueTicketFails(u, t)
    \/ \E x \in tickets : BeginFromTicketFails(x, t)
    \/ LookupTicket(t)
    \/ \E x \in transactions : ConsumeTransactionFails(x, t) \/ DropTransaction(x, t)

LEMMA DropsNote ==
    ASSUME IInv, NEW t \in 0..MaxTime, Drops(t)
    PROVE  /\ tickets' \subseteq tickets /\ transactions' \subseteq transactions
           /\ LedgerStays /\ up' = up /\ clock' = clock /\ t <= clock
           /\ dropped' \subseteq Logins
           /\ faults' = faults \/ \E gone \in SUBSET Logins : SaveFails(gone)
           /\ \/ LeavesNoted
              \/ disk' = [tickets |-> tickets', transactions |-> transactions']
<1>1. /\ tickets' \subseteq tickets /\ transactions' \subseteq transactions
      /\ LedgerStays /\ up' = up /\ clock' = clock /\ t <= clock
  BY DEF Drops, IssueTicketFails, BeginFromTicketFails, LookupTicket, SeenTime,
         ConsumeTransactionFails, DropTransaction, LedgerStays, Live, Supersede
<1>2. /\ clock \in Nat /\ t \in Nat /\ dropped \subseteq Logins
      /\ \A x \in tickets : x.id \in Logins /\ x.expires \in Nat
      /\ \A x \in transactions : x.id \in Logins /\ x.expires \in Nat
  BY Bounds DEF IInv, TypeOK, TicketsGood, TransactionsGood, Ticket, Transaction
<1>3. /\ \A x \in tickets \ Live(tickets, t) : x.expires <= clock
      /\ \A x \in transactions \ Live(transactions, t) : x.expires <= clock
  BY <1>1, <1>2 DEF Live
<1>4. ASSUME NEW gone \in SUBSET Logins, SaveFails(gone),
             Live(tickets, t) \ tickets' \subseteq {x \in tickets : x.id \in gone},
             Live(transactions, t) \ transactions'
                 \subseteq {x \in transactions : x.id \in gone}
      PROVE  /\ dropped' \subseteq Logins /\ LeavesNoted
             /\ \E g \in SUBSET Logins : SaveFails(g)
  <2>1. dropped' = dropped \union gone /\ disk' = disk
    BY <1>4 DEF SaveFails
  <2> QED BY <1>1, <1>2, <1>3, <1>4, <2>1 DEF LeavesNoted
<1>5. ASSUME NEW u \in Users, IssueTicketFails(u, t)
      PROVE  \E gone \in SUBSET Logins :
                 /\ SaveFails(gone)
                 /\ Live(tickets, t) \ tickets' \subseteq {x \in tickets : x.id \in gone}
                 /\ Live(transactions, t) \ transactions'
                        \subseteq {x \in transactions : x.id \in gone}
  <2>1. Ids(tickets \ Supersede(u, t)) \in SUBSET Logins
    BY <1>2 DEF Ids
  <2>2. /\ SaveFails(Ids(tickets \ Supersede(u, t)))
        /\ tickets' = Supersede(u, t) /\ transactions' = Live(transactions, t)
    BY <1>5 DEF IssueTicketFails
  <2>3. Live(tickets, t) \ tickets'
            \subseteq {x \in tickets : x.id \in Ids(tickets \ Supersede(u, t))}
    BY <2>2 DEF Live, Ids
  <2> QED BY <2>1, <2>2, <2>3
<1>6. CASE \/ \E x \in tickets : BeginFromTicketFails(x, t)
           \/ \E x \in transactions : ConsumeTransactionFails(x, t)
  <2>1. SaveFails({}) /\ tickets' = Live(tickets, t) /\ transactions' = Live(transactions, t)
    BY <1>6 DEF BeginFromTicketFails, ConsumeTransactionFails
  <2> QED BY <1>1, <1>4, <2>1
<1>7. CASE LookupTicket(t)
  BY <1>1, <1>2, <1>3, <1>7 DEF LookupTicket, LeavesNoted
<1>8. ASSUME NEW x \in transactions, DropTransaction(x, t)
      PROVE  \/ /\ disk' = [tickets |-> tickets', transactions |-> transactions']
                /\ dropped' = {} /\ faults' = faults
             \/ \E gone \in SUBSET Logins :
                    /\ SaveFails(gone)
                    /\ Live(tickets, t) \ tickets' \subseteq {y \in tickets : y.id \in gone}
                    /\ Live(transactions, t) \ transactions'
                           \subseteq {y \in transactions : y.id \in gone}
  <2>1. CASE Save
    BY <2>1 DEF Save
  <2>2. CASE SaveFails({x.id})
    <3>1. /\ tickets' = Live(tickets, t)
          /\ Live(transactions, t) \ transactions' \subseteq {x}
          /\ {x.id} \in SUBSET Logins
      BY <1>2, <1>8 DEF DropTransaction
    <3> QED BY <2>2, <3>1
  <2> QED BY <1>8, <2>1, <2>2 DEF DropTransaction
<1> QED BY <1>1, <1>4, <1>5, <1>6, <1>7, <1>8 DEF Drops

LEMMA DropsKeep ==
    ASSUME IInv, NEW t \in 0..MaxTime, Drops(t)
    PROVE  IInv' /\ consumed' = consumed
<1>1. up' \in BOOLEAN /\ clock' \in 0..MaxTime /\ faults' \in 0..MaxFaults
  <2>1. TypeOK
    BY DEF IInv
  <2> QED BY <2>1, DropsNote, FailKeepsBound DEF TypeOK
<1> QED BY <1>1, DropsNote, DropKeeps DEF LedgerStays

LEMMA RestKeeps ==
    ASSUME IInv, SaveBindings \/ Tick \/ Crash \/ UNCHANGED vars
    PROVE  IInv' /\ consumed' = consumed
<1>1. TypeOK
  BY DEF IInv
<1>2. /\ tickets' \subseteq tickets /\ transactions' \subseteq transactions
      /\ LedgerStays /\ faults' = faults /\ up' \in {up, FALSE}
  BY DEF SaveBindings, Tick, Crash, vars, Save, LedgerStays
<1>3. clock' \in 0..MaxTime /\ clock <= clock'
  <2>1. CASE Tick
    BY <1>1, <2>1, Bounds DEF Tick, TypeOK
  <2>2. CASE ~Tick
    BY <1>1, <2>2, Bounds DEF SaveBindings, Crash, vars, TypeOK
  <2> QED BY <2>1, <2>2
<1>4. /\ dropped' \subseteq Logins
      /\ \/ LeavesNoted
         \/ disk' = [tickets |-> tickets', transactions |-> transactions']
  <2>1. CASE SaveBindings
    BY <2>1 DEF SaveBindings, Save
  <2>2. CASE Tick \/ UNCHANGED vars
    BY <1>1, <1>2, <1>3, <2>2 DEF Tick, vars, LeavesNoted, TypeOK
  <2>3. CASE Crash
    BY <1>1, <2>3 DEF Crash, LeavesNoted, TypeOK
  <2> QED BY <2>1, <2>2, <2>3
<1>5. up' \in BOOLEAN /\ faults' \in 0..MaxFaults
  BY <1>1, <1>2 DEF TypeOK
<1> QED BY <1>2, <1>3, <1>4, <1>5, DropKeeps DEF LedgerStays

\* A step keeps the invariant, and a login that it ends ends in time.
InTime ==
    \A i \in consumed' \ consumed :
        clock < issuedAt[i] + TicketTTL + TransactionTTL + MaxLag

LEMMA ConsumeInTime ==
    ASSUME IInv, NEW x \in transactions, NEW t \in 0..MaxTime,
           ConsumeTransaction(x, t)
    PROVE  InTime
<1>1. /\ consumed' = consumed \union {x.id} /\ x.expires > t
      /\ clock <= t + MaxLag
  BY DEF ConsumeTransaction, Live, SeenTime
<1>2. /\ x.id \in Logins /\ x.expires \in Nat
      /\ x.expires <= issuedAt[x.id] + TicketTTL + TransactionTTL
  BY DEF IInv, TransactionsGood, Transaction
<1>3. /\ issuedAt[x.id] \in Nat /\ clock \in Nat /\ t \in Nat
      /\ TicketTTL \in Nat /\ TransactionTTL \in Nat /\ MaxLag \in Nat
  BY <1>2, Bounds DEF IInv, TypeOK
<1>4. clock < issuedAt[x.id] + TicketTTL + TransactionTTL + MaxLag
  BY <1>1, <1>2, <1>3
<1> QED BY <1>1, <1>4 DEF InTime

LEMMA InvNext == IInv /\ [Next]_vars => IInv' /\ InTime
<1> SUFFICES ASSUME IInv, [Next]_vars PROVE IInv' /\ InTime
  OBVIOUS
<1>1. ASSUME NEW t \in 0..MaxTime, NEW u \in Users, IssueTicket(u, t)
      PROVE  IInv' /\ consumed' = consumed
  BY <1>1, IssueKeeps DEF IssueTicket
<1>2. ASSUME NEW t \in 0..MaxTime, NEW x \in tickets, BeginFromTicket(x, t)
      PROVE  IInv' /\ consumed' = consumed
  BY <1>2, BeginKeeps DEF BeginFromTicket
<1>3. ASSUME NEW t \in 0..MaxTime, NEW x \in transactions,
             ConsumeTransaction(x, t)
      PROVE  IInv' /\ InTime
  BY <1>3, ConsumeKeeps, ConsumeInTime
<1>4. CASE Restart \/ RestartWithNewKey
  <2>1. PICK r \in BOOLEAN : Load(r)
    BY <1>4 DEF Restart, RestartWithNewKey
  <2> QED BY <2>1, LoadKeeps DEF Load, InTime
<1>5. ASSUME NEW t \in 0..MaxTime, Drops(t)
      PROVE  IInv' /\ consumed' = consumed
  BY <1>5, DropsKeep
<1>6. CASE SaveBindings \/ Tick \/ Crash \/ UNCHANGED vars
  BY <1>6, RestKeeps DEF InTime
<1>7. consumed' = consumed => InTime
  BY DEF InTime
<1> QED
  BY <1>1, <1>2, <1>3, <1>4, <1>5, <1>6, <1>7
  DEF Next, TicketStep, TransactionStep, Drops

LEMMA InvAlways == Spec => []IInv
BY InvInit, InvNext, PTL DEF Spec

\* Types hold for any users, bounds and lifetimes.
THEOREM TypeCorrect == Spec => []TypeOK
<1>1. IInv => TypeOK
  BY DEF IInv
<1> QED BY <1>1, InvAlways, PTL

\* A link works once and a login completes once: what beginFromTicket and
\* consumeTransaction have spent comes back neither by the undo of a failed
\* save nor by load.
THEOREM SpentStaysSpentAlways == Spec => []SpentStaysSpent
<1>1. IInv => SpentStaysSpent
  BY DEF IInv, TicketsGood, TransactionsGood, SpentStaysSpent, Ids
<1> QED BY <1>1, InvAlways, PTL

\* beginFromTicket exchanges a ticket for a transaction whole or not at all, in
\* memory and in the file.
THEOREM LoginInOneStageAlways == Spec => []LoginInOneStage
<1>1. IInv => LoginInOneStage
  BY DEF IInv, TicketsGood, TransactionsGood, LoginInOneStage, Ids
<1> QED BY <1>1, InvAlways, PTL

\* issueTicket leaves a user one open link at most, whether or not its save
\* succeeds.
THEOREM OneTicketPerUserAlways == Spec => []OneTicketPerUser
<1>1. IInv => OneTicketPerUser
  BY DEF IInv, TicketsGood, OneTicketPerUser
<1> QED BY <1>1, InvAlways, PTL

\* Of the logins that have not expired, the memory and the file have the same
\* ones, through undone operations and load; the file alone may have those that
\* issueTicket or consumeTransaction dropped without saving, until the next save
\* or start.
THEOREM FileAgreesAlways == Spec => []FileAgrees
<1>1. IInv => FileAgrees
  BY DEF IInv
<1> QED BY <1>1, InvAlways, PTL

\* A login ends within the lifetimes of its ticket and its transaction, plus
\* the wait for the store's mutex: cleanup under any delay, and load after any
\* number of restarts, prolong nothing.
THEOREM LoginWindowAlways == Spec => LoginWindow
<1>1. IInv /\ [Next]_vars =>
          [\A i \in consumed' \ consumed :
              clock < issuedAt[i] + TicketTTL + TransactionTTL + MaxLag]_vars
  BY InvNext DEF InTime
<1> QED BY <1>1, InvAlways, PTL DEF Spec, LoginWindow
=============================================================================
