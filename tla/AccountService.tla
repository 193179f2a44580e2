--------------------------- MODULE AccountService ---------------------------
(***************************************************************************)
(* The account service (internal/plugins/account/service.go) between the   *)
(* binding store and the ERP provider.                                     *)
(*                                                                         *)
(* Goroutines of three kinds work on bindings at once: HTTP callbacks that *)
(* complete a login, Telegram handlers that refresh or unbind, and the     *)
(* workers of the periodic sweep.  A goroutine holds the lock of its user  *)
(* (UserLock) from Lock to Done.  It talks to the provider between two     *)
(* operations of the store, and the provider replaces a refresh token when *)
(* it is used: whoever presents the old one again, or loses the answer,    *)
(* has lost the account.                                                   *)
(*                                                                         *)
(* Each operation of the store is one action here, with the outcomes that  *)
(* BindingStore allows it: "book" is the memory, and the main file under   *)
(* the write-ahead binding is what a restart finds.  A request to the      *)
(* provider is one action, at the moment the provider acts on it; what it  *)
(* answered is in "job" until the goroutine handles it.                    *)
(*                                                                         *)
(* Left out: the tickets and transactions (LoginFlow), the time, so that a *)
(* binding becomes due at any moment and permissions do not expire, and    *)
(* answers of the provider that no exchange with a working one contains.   *)
(***************************************************************************)
EXTENDS Naturals

CONSTANTS
    Users,        \* Telegram users
    Subjects,     \* identities at the provider
    Handlers,     \* goroutines of Telegram handlers and HTTP callbacks
    Workers,      \* goroutines of the sweep
    MaxTokens,    \* bound: refresh tokens that exist at a time
    MaxFaults,    \* bound: operations of the store whose files fail
    MaxCrashes,   \* bound: restarts
    Mishaps,      \* which mishaps may happen
    None          \* no binding, no write-ahead binding, no owner, no job

VARIABLES
    book,        \* the bindings in memory
    main,        \* the bindings of the main file
    wal,         \* the write-ahead binding, with its user
    federated,   \* users with permissions of the provider in package auth
    due,         \* users whose refresh time has come
    queue,       \* the sweep's items that no worker has taken
    pc, job,     \* what each goroutine does, and for whom
    owner,       \* at the provider: whose identity a live token stands for
    access,      \* at the provider: the identities that may use the bot
    unbound,     \* users told that their binding is gone, until they log in again
    happened,    \* the mishaps so far
    faults, crashes

store == <<book, main, wal, federated, due>>
provider == <<owner, access>>
history == <<unbound, happened>>
bounds == <<faults, crashes>>
vars == <<store, queue, pc, job, provider, history, bounds>>

\* What can part the service and the provider through no fault of the code:
\* "lost", the provider replaced a token and its answer was lost, or the
\* process restarted; "dropped", it refused access after it had replaced the
\* token; "stray", a bound user logged in again, a login failed after its token
\* was issued, or a revocation failed.
AllMishaps == {"lost", "dropped", "stray"}

Happens(m) == m \in Mishaps /\ happened' = happened \union {m}

Goroutines == Handlers \union Workers

Tokens == 1..MaxTokens

Binding == [subject : Subjects, token : Tokens, perms : BOOLEAN]

Job == [op : {"login", "refresh", "sync", "unbind"}, user : Users,
        subject : Subjects \union {None}, token : Tokens \union {None},
        answer : {"none", "grant", "refused", "failed"}]

ASSUME ServiceAssumption ==
    /\ {MaxTokens, MaxFaults, MaxCrashes} \subseteq Nat
    /\ Mishaps \subseteq AllMishaps
    /\ Handlers \cap Workers = {}
    /\ None \notin Users \union Subjects \union Tokens \union Binding \union Job

Init ==
    /\ book = [u \in Users |-> None]
    /\ main = book
    /\ wal = None
    /\ federated = {}
    /\ due = {}
    /\ queue = {}
    /\ pc = [p \in Goroutines |-> "idle"]
    /\ job = [p \in Goroutines |-> None]
    /\ owner = [t \in Tokens |-> None]
    /\ access = Subjects
    /\ unbound = {}
    /\ happened = {}
    /\ faults = 0
    /\ crashes = 0

-----------------------------------------------------------------------------
(* The provider (outside this repository), as client.go meets it.          *)

Kept(t) ==
    \/ \E u \in Users : book[u] # None /\ book[u].token = t
    \/ \E u \in Users : main[u] # None /\ main[u].token = t
    \/ wal # None /\ wal.item.token = t
    \/ \E p \in Goroutines : job[p] # None /\ job[p].token = t

Unused == {t \in Tokens : owner[t] = None /\ ~Kept(t)}

\* The name of the next token is of no interest: the least one will do.
IsNext(t) == t \in Unused /\ \A s \in Unused : t <= s

\* A new token t for identity s.
Issue(s, t) == IsNext(t) /\ owner' = [owner EXCEPT ![t] = s]

\* The live token old is replaced by t.
Rotate(old, t) ==
    IsNext(t) /\ owner' = [owner EXCEPT ![t] = owner[old], ![old] = None]

\* The administrators of the ERP give and withdraw access to the bot.
ChangeAccess(s) ==
    /\ access' = IF s \in access THEN access \ {s} ELSE access \union {s}
    /\ UNCHANGED <<store, queue, pc, job, owner, history, bounds>>

-----------------------------------------------------------------------------
(* The goroutines and the user's lock.                                     *)

Go(p, stage) == pc' = [pc EXCEPT ![p] = stage]

Done(p) == Go(p, "idle") /\ job' = [job EXCEPT ![p] = None]

Holds(p, u) == pc[p] \notin {"idle", "waiting"} /\ job[p].user = u

Start(p, op, u) ==
    /\ pc[p] = "idle"
    /\ Go(p, "waiting")
    /\ job' = [job EXCEPT ![p] = [op |-> op, user |-> u, subject |-> None,
                                  token |-> None, answer |-> "none"]]
    /\ UNCHANGED <<store, queue, provider, history, bounds>>

\* complete, refreshNow and unbind, up to the lock.
Complete(p, u) == Start(p, "login", u)
RefreshNow(p, u) == Start(p, "refresh", u)
Unbind(p, u) == Start(p, "unbind", u)

\* Mutant: takes the lock although another goroutine holds it.
LockShared(p) ==
    /\ pc[p] = "waiting"
    /\ Go(p, "locked")
    /\ UNCHANGED <<store, queue, job, provider, history, bounds>>

Lock(p) ==
    /\ pc[p] = "waiting"
    /\ \A q \in Goroutines : ~Holds(q, job[p].user)
    /\ Go(p, "locked")
    /\ UNCHANGED <<store, queue, job, provider, history, bounds>>

\* refreshDue: sweepMu keeps sweeps apart, so that a sweep that finds another
\* one running does nothing.  The bindings that are due are copied; the
\* workers take the copies from a channel.
Sweeping == queue # {} \/ \E w \in Workers : pc[w] # "idle"

StartSweep ==
    /\ ~Sweeping
    /\ queue' = {[user |-> u, subject |-> book[u].subject] :
                    u \in {v \in due : book[v] # None}}
    /\ queue' # {}
    /\ UNCHANGED <<store, pc, job, provider, history, bounds>>

TakeItem(w, item) ==
    /\ pc[w] = "idle"
    /\ queue' = queue \ {item}
    /\ Go(w, "waiting")
    /\ job' = [job EXCEPT ![w] = [op |-> "sync", user |-> item.user,
                   subject |-> item.subject, token |-> None, answer |-> "none"]]
    /\ UNCHANGED <<store, provider, history, bounds>>

BecomeDue(u) ==
    /\ book[u] # None /\ u \notin due
    /\ due' = due \union {u}
    /\ UNCHANGED <<book, main, wal, federated, queue, pc, job, provider, history, bounds>>

-----------------------------------------------------------------------------
(* refreshOne, under the user's lock.                                      *)

\* The identity of the item: a worker's item is a copy made when the sweep
\* began, a handler's is the binding it finds first.
Identity(p) == IF job[p].subject = None THEN book[job[p].user].subject
                                        ELSE job[p].subject

StillBound(p) ==
    /\ book[job[p].user] # None
    /\ book[job[p].user].subject = Identity(p)

\* The token refreshOne presents, and whether the provider knows it.
Presented(p) == book[job[p].user].token

Known(p) == owner[Presented(p)] = Identity(p)

Replaced(p, t) == Known(p) /\ Rotate(Presented(p), t)

Presenting(p) ==
    pc[p] = "locked" /\ job[p].op \in {"refresh", "sync"} /\ StillBound(p)

\* client.refresh with the stored token, and its answer.
Answered(p, token, answer) ==
    /\ Go(p, "answered")
    /\ job' = [job EXCEPT ![p].subject = Identity(p), ![p].token = token,
                          ![p].answer = answer]
    /\ UNCHANGED <<store, queue, access, unbound, bounds>>

Granted(p) ==
    /\ Presenting(p)
    /\ Identity(p) \in access
    /\ \E t \in Tokens : Replaced(p, t) /\ Answered(p, t, "grant")
    /\ UNCHANGED happened

\* The answer has no new token: the present one is kept.
GrantedUnrotated(p) ==
    /\ Presenting(p)
    /\ Identity(p) \in access /\ Known(p)
    /\ Answered(p, Presented(p), "grant")
    /\ UNCHANGED <<owner, happened>>

\* errCredentialRejected for a dead token, errAccessDenied for a live one.
Refused(p) ==
    /\ Presenting(p)
    /\ Identity(p) \notin access \/ ~Known(p)
    /\ Answered(p, None, "refused")
    /\ UNCHANGED <<owner, happened>>

\* The token endpoint replaces the token, and the introspection of the new
\* access token then says that access is not allowed, or that the token is
\* not active: verifyGrant drops the grant with its new token.
RefusedAfterRotation(p) ==
    /\ Presenting(p)
    /\ Identity(p) \notin access
    /\ \E t \in Tokens : Replaced(p, t)
    /\ Answered(p, None, "refused")
    /\ Happens("dropped")

\* No answer, or none that can be used: the provider has not acted.
RefreshFails(p) ==
    /\ Presenting(p)
    /\ Answered(p, None, "failed")
    /\ UNCHANGED <<owner, happened>>

\* The same, but it has replaced the token.
RefreshLost(p) ==
    /\ Presenting(p)
    /\ \E t \in Tokens : Replaced(p, t)
    /\ Answered(p, None, "failed")
    /\ Happens("lost")

\* Mutant: a refusal is recorded like any other failure.
RecordFailureKeeping(p) ==
    LET u == job[p].user
    IN  /\ pc[p] = "answered" /\ job[p].answer # "grant"
        /\ book[u] # None
        /\ Done(p)
        /\ main' = book
        /\ due' = due \ {u}
        /\ UNCHANGED <<book, wal, federated, queue, provider, history, bounds>>

\* recordRefreshFailure.  Its save, as any, writes the whole memory.
RecordFailure(p) ==
    LET u == job[p].user
        clear == job[p].answer = "refused"
    IN  /\ pc[p] = "answered" /\ job[p].answer # "grant"
        /\ book[u] # None
        /\ Done(p)
        /\ book' = [book EXCEPT ![u].perms = @ /\ ~clear]
        /\ main' = book'
        /\ federated' = IF clear THEN federated \ {u} ELSE federated
        /\ due' = due \ {u}
        /\ UNCHANGED <<wal, queue, provider, history, bounds>>

Fault == faults < MaxFaults /\ faults' = faults + 1

\* Its save fails, and the memory is restored.
RecordFailureFails(p) ==
    /\ pc[p] = "answered" /\ job[p].answer # "grant"
    /\ book[job[p].user] # None
    /\ Fault
    /\ Done(p)
    /\ UNCHANGED <<store, queue, provider, history, crashes>>

\* A grant is stored only for the user that is still bound to its identity.
Accept(p) ==
    /\ pc[p] = "answered" /\ job[p].answer = "grant"
    /\ StillBound(p)
    /\ Go(p, "storing")
    /\ UNCHANGED <<store, queue, job, provider, history, bounds>>

-----------------------------------------------------------------------------
(* complete, under the user's lock.                                        *)

Exchanges(p) ==
    /\ pc[p] = "locked" /\ job[p].op = "login"
    /\ UNCHANGED <<store, queue, access, unbound, bounds>>

\* client.exchange: whoever followed the link has logged in to the provider
\* as s.
Exchange(p, s) ==
    /\ Exchanges(p)
    /\ s \in access
    /\ \E t \in Tokens :
           /\ Issue(s, t)
           /\ job' = [job EXCEPT ![p].subject = s, ![p].token = t,
                                 ![p].answer = "grant"]
    /\ Go(p, "storing")
    /\ UNCHANGED happened

ExchangeFails(p) ==
    /\ Exchanges(p)
    /\ Done(p)
    /\ UNCHANGED <<owner, happened>>

\* The exchange fails after the provider has issued its tokens.
ExchangeLost(p, s) ==
    /\ Exchanges(p)
    /\ \E t \in Tokens : Issue(s, t)
    /\ Done(p)
    /\ Happens("stray")

-----------------------------------------------------------------------------
(* persistGrant, putBinding and revokeUnstoredGrant.                       *)

Conflict(p) ==
    \/ \E v \in Users \ {job[p].user} :
           book[v] # None /\ book[v].subject = job[p].subject
    \/ book[job[p].user] # None /\ book[job[p].user].subject # job[p].subject

\* Mutant: the grant that met a conflict is forgotten.
StoreConflictForgets(p) ==
    /\ pc[p] = "storing"
    /\ Conflict(p)
    /\ Done(p)
    /\ UNCHANGED <<store, queue, provider, history, bounds>>

StoreConflict(p) ==
    /\ pc[p] = "storing"
    /\ Conflict(p)
    /\ Go(p, "unstored")
    /\ UNCHANGED <<store, queue, job, provider, history, bounds>>

PutInMemory(p) ==
    LET u == job[p].user
    IN  /\ pc[p] = "storing"
        /\ ~Conflict(p)
        /\ \E perms \in BOOLEAN :
               book' = [book EXCEPT ![u] = [subject |-> job[p].subject,
                            token |-> job[p].token, perms |-> perms]]
        /\ due' = due \ {u}
        /\ unbound' = IF job[p].op = "login" THEN unbound \ {u} ELSE unbound
        /\ happened' = IF job[p].op = "login" /\ book[u] # None
                         THEN happened \union {"stray"} ELSE happened

ReplaceFederated(u) ==
    federated' = IF book'[u].perms THEN federated \union {u} ELSE federated \ {u}

\* Mutant: writes ahead what the memory held before.
WALOfPrevious(p) == [user |-> job[p].user, item |-> book[job[p].user]]

WALOf(p) == [user |-> job[p].user, item |-> book'[job[p].user]]

\* putBinding succeeds: the write-ahead binding came and went, or could not
\* be written and was not needed.
Store(p) ==
    /\ PutInMemory(p)
    /\ main' = book'
    /\ \/ wal' = None /\ UNCHANGED faults
       \/ Fault /\ UNCHANGED wal
    /\ ReplaceFederated(job[p].user)
    /\ Done(p)
    /\ UNCHANGED <<queue, provider, crashes>>

\* putBinding fails: after it wrote the write-ahead binding, or with no file
\* written at all.  The memory holds the grant nevertheless.
StoreFails(p) ==
    /\ PutInMemory(p)
    /\ \/ /\ Fault
          /\ wal' = WALOf(p)
          /\ main' \in {main, book'}
          /\ UNCHANGED federated
       \/ /\ Fault
          /\ UNCHANGED <<main, wal>>
          /\ ReplaceFederated(job[p].user)
    /\ Go(p, "unstored")
    /\ UNCHANGED <<queue, job, provider, crashes>>

\* The memory may hold the grant that could not be stored.
InUse(p) ==
    LET b == book[job[p].user]
    IN  b # None /\ b.subject = job[p].subject /\ b.token = job[p].token

\* Mutant: revokes whether or not the grant is in use.
RevokeUnstoredAlways(p) ==
    /\ pc[p] = "unstored"
    /\ Go(p, "revoking")
    /\ UNCHANGED <<store, queue, job, provider, history, bounds>>

RevokeUnstored(p) ==
    /\ pc[p] = "unstored"
    /\ ~InUse(p)
    /\ Go(p, "revoking")
    /\ UNCHANGED <<store, queue, job, provider, history, bounds>>

Revoke(p) ==
    /\ pc[p] = "revoking"
    /\ owner' = [owner EXCEPT ![job[p].token] = None]
    /\ Done(p)
    /\ UNCHANGED <<store, queue, access, history, bounds>>

RevokeFails(p) ==
    /\ pc[p] = "revoking"
    /\ Done(p)
    /\ Happens("stray")
    /\ UNCHANGED <<store, queue, provider, unbound, bounds>>

-----------------------------------------------------------------------------
(* unbind and the store's remove.                                          *)

WALWithout(u) == IF wal # None /\ wal.user = u THEN None ELSE wal

Remove(p) ==
    LET u == job[p].user
    IN  /\ pc[p] = "locked" /\ job[p].op = "unbind"
        /\ book[u] # None
        /\ wal' = WALWithout(u)
        /\ book' = [book EXCEPT ![u] = None]
        /\ main' = book'
        /\ federated' = federated \ {u}
        /\ unbound' = unbound \union {u}
        /\ job' = [job EXCEPT ![p].subject = book[u].subject,
                              ![p].token = book[u].token]
        /\ Go(p, "revoking")
        /\ UNCHANGED <<due, queue, provider, happened, bounds>>

\* The write-ahead binding cannot be removed, or the main file not written.
RemoveFails(p) ==
    LET u == job[p].user
    IN  /\ pc[p] = "locked" /\ job[p].op = "unbind"
        /\ book[u] # None
        /\ Fault
        /\ wal' \in {wal, WALWithout(u)}
        /\ Done(p)
        /\ UNCHANGED <<book, main, federated, due, queue, provider, history, crashes>>

\* The returns that change nothing: refreshOne when the user is not bound to
\* the item's identity, or no longer when the answer comes; a grant that could
\* not be stored but is in memory; unbind without a binding.
NothingToDo(p) ==
    LET refreshing == job[p].op \in {"refresh", "sync"}
        gone == book[job[p].user] = None
    IN  \/ pc[p] = "locked" /\ refreshing /\ ~StillBound(p)
        \/ pc[p] = "answered" /\ job[p].answer = "grant" /\ ~StillBound(p)
        \/ pc[p] = "answered" /\ job[p].answer # "grant" /\ gone
        \/ pc[p] = "unstored" /\ InUse(p)
        \/ pc[p] = "locked" /\ job[p].op = "unbind" /\ gone

\* Mutant: returns without unlocking.
ReturnHolding(p) == NothingToDo(p) /\ UNCHANGED vars

Return(p) ==
    /\ NothingToDo(p)
    /\ Done(p)
    /\ UNCHANGED <<store, queue, provider, history, bounds>>

-----------------------------------------------------------------------------
\* The bindings a restart finds.
Recovered == IF wal = None THEN main ELSE [main EXCEPT ![wal.user] = wal.item]

\* The process dies wherever its goroutines are, and starts again.
Restart ==
    /\ crashes < MaxCrashes
    /\ crashes' = crashes + 1
    /\ Happens("lost")
    /\ book' = Recovered
    /\ main' = Recovered
    /\ wal' = None
    /\ federated' = {u \in Users : Recovered[u] # None /\ Recovered[u].perms}
    /\ queue' = {}
    /\ pc' = [p \in Goroutines |-> "idle"]
    /\ job' = [p \in Goroutines |-> None]
    /\ UNCHANGED <<due, provider, unbound, faults>>

Command(h) ==
    \E u \in Users : Complete(h, u) \/ RefreshNow(h, u) \/ Unbind(h, u)

\* The provider answers a refresh with a decision.
Decided(p) ==
    Granted(p) \/ GrantedUnrotated(p) \/ Refused(p) \/ RefusedAfterRotation(p)

RefreshStep(p) ==
    \/ Decided(p) \/ RefreshFails(p) \/ RefreshLost(p)
    \/ RecordFailure(p) \/ RecordFailureFails(p) \/ Accept(p)

LoginStep(p) ==
    \/ \E s \in Subjects : Exchange(p, s) \/ ExchangeLost(p, s)
    \/ ExchangeFails(p)

StoreStep(p) ==
    \/ StoreConflict(p) \/ Store(p) \/ StoreFails(p)
    \/ RevokeUnstored(p) \/ Revoke(p) \/ RevokeFails(p)

Work(p) ==
    \/ RefreshStep(p) \/ LoginStep(p) \/ StoreStep(p)
    \/ Remove(p) \/ RemoveFails(p) \/ Return(p)

Next ==
    \/ \E h \in Handlers : Command(h)
    \/ \E p \in Goroutines : Lock(p) \/ Work(p)
    \/ StartSweep
    \/ \E w \in Workers, item \in queue : TakeItem(w, item)
    \/ \E u \in Users : BecomeDue(u)
    \/ \E s \in Subjects : ChangeAccess(s)
    \/ Restart

\* Time passes and the sweep is started every minute; a goroutine that runs
\* goes on, for each of its requests ends within requestTimeout; the lock of a
\* user is served to those who wait (EveryWaiterServed in UserLock); and the
\* provider, if it is asked again and again, decides.
Fairness ==
    /\ WF_vars(StartSweep)
    /\ \A u \in Users : WF_vars(BecomeDue(u))
    /\ \A w \in Workers : WF_vars(\E item \in queue : TakeItem(w, item))
    /\ \A p \in Goroutines :
          WF_vars(Work(p)) /\ SF_vars(Lock(p)) /\ SF_vars(Decided(p))

Spec == Init /\ [][Next]_vars /\ Fairness

-----------------------------------------------------------------------------
(* Properties.                                                             *)

Books == [Users -> Binding \union {None}]

Stages == {"idle", "waiting", "locked", "answered", "storing", "unstored",
           "revoking"}

\* Every variable holds a value of its kind.
TypeOK ==
    /\ book \in Books
    /\ main \in Books
    /\ wal \in [user : Users, item : Binding] \union {None}
    /\ federated \subseteq Users
    /\ due \subseteq Users
    /\ queue \subseteq [user : Users, subject : Subjects]
    /\ pc \in [Goroutines -> Stages]
    /\ job \in [Goroutines -> Job \union {None}]
    /\ owner \in [Tokens -> Subjects \union {None}]
    /\ access \subseteq Subjects
    /\ unbound \subseteq Users
    /\ happened \subseteq AllMishaps
    /\ faults \in 0..MaxFaults
    /\ crashes \in 0..MaxCrashes

\* From the moment a refresh presents a token until its outcome is stored, the
\* user stays bound to the identity of the item: the branches of refreshOne
\* that would drop a grant, and its token with it, are never taken.
RefreshKeepsBinding ==
    \A p \in Goroutines :
        /\ pc[p] \in {"answered", "storing"}
        /\ job[p].op \in {"refresh", "sync"}
        => StillBound(p)

\* Refreshes rotate the token of an account, whichever of them overlap, and
\* saves fail: the service always holds the token that lives, unless an answer
\* was lost, access was refused half-way, or the process restarted.
TokenStaysLive ==
    happened \subseteq {"stray"} =>
        \A u \in Users :
            book[u] # None /\ (\A p \in Goroutines : ~Holds(p, u))
            => owner[book[u].token] = book[u].subject

\* "in-flight refresh must not recreate an unbound account": after the unbind
\* was acknowledged neither a refresh that was under way, nor a sweep whose
\* copy is older, nor a restart brings back the binding or its permissions.
UnbindWins ==
    \A u \in unbound :
        /\ book[u] = None
        /\ Recovered[u] = None
        /\ u \notin federated

\* A grant that is not stored is revoked: once all is quiet, and nothing was
\* lost, the provider holds no live token that the service does not.
NoStrayToken ==
    /\ happened = {}
    /\ \A p \in Goroutines : pc[p] = "idle"
    => \A t \in Tokens : owner[t] # None =>
           \E u \in Users : book[u] # None /\ book[u].token = t

\* A bound user whose access the provider withdrew loses the provider's
\* permissions, whatever else the user does meanwhile, unless access returns.
DenialTakesEffect ==
    \A u \in Users, s \in Subjects :
        (book[u] # None /\ book[u].subject = s /\ s \notin access)
        ~> (u \notin federated \/ s \in access)

\* Every goroutine comes to an end, and so does every sweep.
WorkEnds ==
    /\ \A p \in Goroutines : pc[p] # "idle" ~> pc[p] = "idle"
    /\ queue # {} ~> queue = {}

\* "the account binding is kept and will be refreshed on": the provider's
\* refusal leaves the service a token with which a later refresh can succeed.
DenialKeepsToken ==
    happened \subseteq {"dropped", "stray"} =>
        \A u \in Users :
            book[u] # None /\ (\A p \in Goroutines : ~Holds(p, u))
            => owner[book[u].token] = book[u].subject
=============================================================================
