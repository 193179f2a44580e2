-------------------------- MODULE RefreshSchedule --------------------------
(***************************************************************************)
(* When an account is refreshed, and how long its permissions last         *)
(* (internal/plugins/account/store.go and service.go, internal/auth).      *)
(*                                                                         *)
(* Every minute cron starts a sweep, unless the one before is still        *)
(* running.  The sweep refreshes the accounts that are due: the access     *)
(* they were granted ends soon, or their last refresh, good or bad, is a   *)
(* while ago.  Package auth holds the permissions until the access ends.   *)
(* Refreshes, denials, failed saves and restarts move these instants in    *)
(* the memory, in two files and in package auth, and not all at once.      *)
(*                                                                         *)
(* One account is modelled; the others appear as the time a sweep takes.   *)
(* An instant is represented by the time that is left until it, 0 when it  *)
(* has passed, so that no clock has to be bounded.  What a failing file    *)
(* operation leaves behind is taken from BindingStore: an operation of the *)
(* store is one action here.  Tokens and identities are in AccountService. *)
(***************************************************************************)
EXTENDS Integers, FiniteSetsExt

CONSTANTS
    Minute,       \* the units of time between two firings of cron
    Ahead,        \* refreshAhead: accesses ending so soon are renewed
    Interval,     \* permissionSyncInterval: time from a refresh to the next
    Lifetimes,    \* what is left of an access when its grant is stored
    SweepTime,    \* bound: how long a sweep takes
    MaxFaults,    \* bound: operations of the store that fail
    MaxRestarts,  \* bound: restarts of the process
    Tolerated,    \* setbacks in a row above which they are not counted
    NoExpiry,     \* AccessExpiresAt = 0
    NoBinding     \* no account is bound, or no file of it exists

ASSUME ScheduleAssumption ==
    /\ Minute \in Nat \ {0}
    /\ Ahead \in Nat
    /\ Interval \in Nat \ {0}
    /\ Lifetimes \subseteq Nat \ {0}
    /\ SweepTime \in Nat
    /\ MaxFaults \in Nat
    /\ MaxRestarts \in Nat
    /\ Tolerated \in Nat
    /\ NoExpiry \notin Nat

\* What of a binding the schedule depends on: whether the provider granted
\* permissions, when the access ends, and when the next refresh is due.
Binding == [perms : BOOLEAN, access : Nat \union {NoExpiry}, next : Nat]

ASSUME NoBindingAssumption == NoBinding \notin Binding

VARIABLES
    up,        \* the process is running
    item,      \* the binding in memory
    main,      \* the binding in the main file
    wal,       \* the binding in the write-ahead file
    grant,     \* package auth: how long the permissions still last
    cronIn,    \* time until cron fires
    sweep,     \* the sweep in progress, and the time it still has
    faults,    \* operations of the store that have failed
    restarts,  \* times the process has died
    word,      \* how long the provider's last word lets the permissions last
    current,   \* the places that hold nothing older than that word
    given,     \* the longest that a word which a place may still hold does
    quiet,     \* time during which a denied account is left in peace
    setbacks   \* refreshes failed and sweeps skipped since the last success

store == <<item, main, wal, grant>>

spoken == <<word, current, given>>

vars == <<up, store, cronIn, sweep, faults, restarts, spoken, quiet, setbacks>>

-----------------------------------------------------------------------------
Idle == [stage |-> "idle", left |-> 0]

\* The memory, the two files and package auth.
Places == {"item", "main", "wal", "auth"}

Unsaved == UNCHANGED <<main, wal>>

Fail == faults < MaxFaults /\ faults' = faults + 1

\* ReplaceFederatedPermissions: no permissions, or an instant that is not in
\* the future, clear the grant.
GrantOf(b) ==
    IF b = NoBinding \/ ~b.perms \/ b.access = NoExpiry THEN 0 ELSE b.access

Recovered == IF wal = NoBinding THEN main ELSE wal

\* The file that it comes from.
Source == IF wal = NoBinding THEN "main" ELSE "wal"

\* Mutant: the end of the access makes nothing due.
DueByInterval(b) == b # NoBinding /\ b.next = 0

\* due.
Due(b) ==
    /\ b # NoBinding
    /\ \/ b.next = 0
       \/ b.access # NoExpiry /\ b.access <= Ahead

\* putBinding's item, for a grant of the provider.
Granted(p, t) == [perms |-> p, access |-> t, next |-> Interval]

Init ==
    /\ up = FALSE
    /\ item = NoBinding /\ main = NoBinding /\ wal = NoBinding
    /\ grant = 0
    /\ cronIn = Minute
    /\ sweep = Idle
    /\ faults = 0 /\ restarts = 0
    /\ word = 0 /\ current = Places /\ given = 0
    /\ quiet = 0
    /\ setbacks = Tolerated

-----------------------------------------------------------------------------
(* putBinding, and what its failures leave.                                *)

\* The provider's word is b, and the places of c hold it: as long as others
\* do not, what they hold may still come back.
Speaks(b, c) ==
    /\ word' = GrantOf(b)
    /\ current' = c
    /\ given' = IF c = Places THEN GrantOf(b) ELSE Max({given, GrantOf(b)})

\* The write-ahead file holds nothing older when there is none.
NoOlderWAL == {x \in {"wal"} : wal = NoBinding}

Stored(b) ==
    /\ main' = b /\ wal' = NoBinding
    /\ grant' = GrantOf(b)
    /\ Speaks(b, Places)
    /\ setbacks' = 0
    /\ UNCHANGED faults

\* The write-ahead file cannot be written, the main file can.
StoredWithoutWAL(b) ==
    /\ Fail
    /\ main' = b /\ UNCHANGED wal
    /\ grant' = GrantOf(b)
    /\ Speaks(b, {"item", "main", "auth"} \union NoOlderWAL)
    /\ setbacks' = 0

\* The write-ahead file holds the binding, and the main file cannot be
\* written, or the write-ahead file cannot be removed afterwards.  putBinding
\* returns before it tells package auth.
StoredInWAL(b) ==
    /\ Fail
    /\ main' \in {main, b} /\ wal' = b
    /\ UNCHANGED grant
    /\ Speaks(b, {"item", "wal"} \union {x \in {"main"} : main' = b})
    /\ setbacks' = Tolerated

\* Mutant: when neither file can be written, package auth is not told.
NotStoredUntold(b) ==
    /\ Fail
    /\ Unsaved
    /\ UNCHANGED grant
    /\ Speaks(b, {"item", "auth"} \union NoOlderWAL)
    /\ setbacks' = 0

\* Neither file can be written: package auth is told all the same.
NotStored(b) ==
    /\ Fail
    /\ Unsaved
    /\ grant' = GrantOf(b)
    /\ Speaks(b, {"item", "auth"} \union NoOlderWAL)
    /\ setbacks' = 0

Put(b) ==
    /\ item' = b
    /\ quiet' = 0
    /\ Stored(b) \/ StoredWithoutWAL(b) \/ StoredInWAL(b) \/ NotStored(b)

-----------------------------------------------------------------------------
(* refreshOne: the provider grants, denies, or gives no answer.            *)

Setback == setbacks' = Min({setbacks + 1, Tolerated})

Renewed == \E p \in BOOLEAN, t \in Lifetimes : Put(Granted(p, t))

\* recordRefreshFailure(clearPermissions = false).
RecordFailure ==
    /\ item' = [item EXCEPT !.next = Interval]
    /\ main' = item'
    /\ current' = IF "item" \in current THEN current \union {"main"}
                                        ELSE current \ {"main"}
    /\ Setback
    /\ UNCHANGED <<wal, grant, faults, word, given, quiet>>

\* Mutants: a denied binding keeps the end of its access; or it loses its next
\* refresh with it.
DeniedItemExpiring == [perms |-> FALSE, access |-> item.access, next |-> Interval]

DeniedItemUnscheduled == [perms |-> FALSE, access |-> NoExpiry, next |-> NoExpiry]

DeniedItem == [perms |-> FALSE, access |-> NoExpiry, next |-> Interval]

\* recordRefreshFailure(clearPermissions = true).
RecordDenial ==
    /\ item' = DeniedItem
    /\ main' = item'
    /\ grant' = 0
    /\ Speaks(DeniedItem, {"item", "main", "auth"} \union NoOlderWAL)
    /\ quiet' = Interval
    /\ Setback
    /\ UNCHANGED <<wal, faults>>

\* Its save fails, and the memory is restored.
RecordFails ==
    /\ Fail
    /\ Setback
    /\ UNCHANGED <<store, spoken, quiet>>

RefreshOne ==
    /\ item # NoBinding
    /\ Renewed \/ RecordFailure \/ RecordDenial \/ RecordFails

-----------------------------------------------------------------------------
(* Commands.                                                               *)

\* refreshNow, at any time.
RefreshNow ==
    /\ up
    /\ RefreshOne
    /\ UNCHANGED <<up, cronIn, sweep, restarts>>

\* complete: the user logs in.
Complete ==
    /\ up
    /\ item = NoBinding
    /\ Renewed
    /\ UNCHANGED <<up, cronIn, sweep, restarts>>

\* unbind.
Remove ==
    /\ up
    /\ item # NoBinding
    /\ item' = NoBinding /\ main' = NoBinding /\ wal' = NoBinding
    /\ grant' = 0 /\ quiet' = 0
    /\ Speaks(NoBinding, Places)
    /\ setbacks' = Tolerated
    /\ UNCHANGED <<up, cronIn, sweep, faults, restarts>>

\* remove has cleared the write-ahead file when the save fails.
RemoveFails ==
    /\ up
    /\ item # NoBinding
    /\ Fail
    /\ wal' = NoBinding
    /\ current' = current \union {"wal"}
    /\ UNCHANGED <<up, item, main, grant, cronIn, sweep, restarts,
                   word, given, quiet, setbacks>>

-----------------------------------------------------------------------------
(* Cron and its sweeps.                                                    *)

\* refreshDue reads the accounts that are due.
SweepBegins ==
    /\ up /\ cronIn = 0
    /\ sweep = Idle
    /\ cronIn' = Minute
    /\ \E t \in 0..SweepTime :
           sweep' = [stage |-> IF Due(item) THEN "pending" ELSE "others",
                     left |-> t]
    /\ UNCHANGED <<up, store, faults, restarts, spoken, quiet, setbacks>>

\* sweepMu is taken: the sweep of this minute is left out.
SweepSkipped ==
    /\ up /\ cronIn = 0
    /\ sweep # Idle
    /\ cronIn' = Minute
    /\ Setback
    /\ UNCHANGED <<up, store, sweep, faults, restarts, spoken, quiet>>

\* A worker comes to the account.
SweepRefreshes ==
    /\ sweep.stage = "pending"
    /\ RefreshOne
    /\ sweep' = [sweep EXCEPT !.stage = "others"]
    /\ UNCHANGED <<up, cronIn, restarts>>

\* The account has been unbound since the sweep began (errAccountNotBound).
SweepFindsNone ==
    /\ sweep.stage = "pending"
    /\ item = NoBinding
    /\ sweep' = [sweep EXCEPT !.stage = "others"]
    /\ UNCHANGED <<up, store, cronIn, faults, restarts, spoken, quiet, setbacks>>

SweepEnds ==
    /\ sweep.stage = "others"
    /\ sweep.left = 0
    /\ sweep' = Idle
    /\ UNCHANGED <<up, store, cronIn, faults, restarts, spoken, quiet, setbacks>>

-----------------------------------------------------------------------------
(* The process dies, and newBindingStore starts another.                   *)

Crash ==
    /\ up
    /\ restarts < MaxRestarts
    /\ restarts' = restarts + 1
    /\ up' = FALSE
    /\ item' = NoBinding
    /\ grant' = 0
    /\ sweep' = Idle
    /\ cronIn' = Minute
    /\ setbacks' = Tolerated
    /\ Unsaved
    /\ UNCHANGED <<faults, spoken, quiet>>

\* load, applyWAL and the permissions restored from what they found.  The
\* write-ahead binding may be older than a denial, which it then undoes.
Start ==
    /\ ~up
    /\ up' = TRUE
    /\ item' = Recovered /\ main' = Recovered /\ wal' = NoBinding
    /\ grant' = GrantOf(Recovered)
    /\ current' = IF Source \in current THEN Places ELSE {"wal"}
    /\ quiet' = IF wal = NoBinding THEN quiet ELSE 0
    /\ UNCHANGED <<cronIn, sweep, faults, restarts, word, given, setbacks>>

-----------------------------------------------------------------------------
(* Time.                                                                   *)

Later(t) == IF t = NoExpiry \/ t = 0 THEN t ELSE t - 1

Aged(b) ==
    IF b = NoBinding
    THEN b
    ELSE [b EXCEPT !.access = Later(@), !.next = Later(@)]

\* One unit of time passes.  Cron is on time, and a sweep keeps to its time.
Elapse ==
    /\ up => cronIn > 0
    /\ sweep # Idle => sweep.left > 0
    /\ item' = Aged(item) /\ main' = Aged(main) /\ wal' = Aged(wal)
    /\ grant' = Later(grant)
    /\ word' = Later(word) /\ given' = Later(given) /\ quiet' = Later(quiet)
    /\ cronIn' = IF up THEN cronIn - 1 ELSE cronIn
    /\ sweep' = [sweep EXCEPT !.left = Later(@)]
    /\ UNCHANGED <<up, faults, restarts, current, setbacks>>

Sweep ==
    SweepBegins \/ SweepSkipped \/ SweepRefreshes \/ SweepFindsNone \/ SweepEnds

Command == RefreshNow \/ Complete \/ Remove \/ RemoveFails

Next == Sweep \/ Command \/ Crash \/ Start \/ Elapse

\* Time goes on, cron fires, workers take what a sweep has found, and a
\* process that died is started again.
Spec ==
    /\ Init /\ [][Next]_vars
    /\ WF_vars(Elapse) /\ WF_vars(Sweep) /\ WF_vars(Start)

-----------------------------------------------------------------------------
(* Properties.                                                             *)

\* Every variable holds a value of its kind.
TypeOK ==
    /\ up \in BOOLEAN
    /\ {item, main, wal} \subseteq Binding \union {NoBinding}
    /\ grant \in Nat
    /\ cronIn \in 0..Minute
    /\ sweep \in [stage : {"idle", "pending", "others"}, left : 0..SweepTime]
    /\ faults \in 0..MaxFaults
    /\ restarts \in 0..MaxRestarts
    /\ word \in Nat
    /\ current \subseteq Places
    /\ given \in Nat
    /\ quiet \in 0..Interval
    /\ setbacks \in 0..Tolerated

\* Package auth keeps a permission no longer than the provider's last word lets
\* it last, be it a longer or a shorter access, one without permissions, or a
\* recorded denial; but for two cases, in which it keeps it no longer than a
\* word that was still in a file or in force: putBinding has failed with the
\* last word in the write-ahead file, and has not told package auth
\* (store.go:335-338); or the process has started from a file that is older
\* than the last word.
PermissionBounded ==
    /\ "auth" \in current => grant <= word
    /\ grant <= given

\* An account that is bound and was granted permissions keeps them without a
\* gap while the process is up, unless refreshes failed or sweeps were skipped
\* repeatedly: one failure is made good before the access ends.
OneFailureForgiven ==
    up /\ item # NoBinding /\ setbacks <= 1 =>
        (item.perms => grant > 0)

\* A sweep leaves an account in peace for an interval after the provider
\* denied it and the denial was recorded, a denied access having no end that
\* would make it due (store_test.go: "failed refresh retried before the next
\* interval").
DenialHeeded ==
    [][sweep.stage # "pending" /\ sweep'.stage = "pending" => quiet = 0]_vars

\* A bound account does not stop being scheduled (store_test.go: "failed
\* binding must remain scheduled"): again and again a sweep takes it up, it is
\* unbound, or commands keep changing it.
StaysScheduled ==
    \/ []<><<Command>>_vars
    \/ []<>(item = NoBinding \/ sweep.stage = "pending")
=============================================================================
