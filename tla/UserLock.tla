------------------------------ MODULE UserLock ------------------------------
(***************************************************************************)
(* The per-user lock of the account service (lockUser in                   *)
(* internal/plugins/account/service.go).                                   *)
(*                                                                         *)
(* A goroutine that is to change a user's account first finds the user's   *)
(* lock in a map, or creates it, and counts itself in; then it waits for   *)
(* the lock's mutex.  Once done it releases the mutex, counts itself out,  *)
(* and the last one out deletes the lock from the map.  The map and the    *)
(* counts are only touched under a mutex of their own, so that each of     *)
(* these visits to the map is one action; they are separate from taking    *)
(* and releasing the user's mutex, and other goroutines run in between.    *)
(*                                                                         *)
(* Locks are objects with an identity: after a lock is deleted, the next   *)
(* goroutine creates another one for the same user.  Memory is managed: a  *)
(* lock nobody refers to can be allocated again.                           *)
(***************************************************************************)
EXTENDS Naturals, FiniteSets

CONSTANTS
    Callers,    \* the goroutines: handlers, HTTP callbacks, refresh workers
    Accounts,   \* the users whose accounts they work on
    Locks,      \* the lock objects that can exist
    Nil         \* no lock, no goroutine, no user

ASSUME CallersFinite == IsFiniteSet(Callers)

ASSUME NilAssumption == Nil \notin Callers \union Accounts \union Locks

VARIABLES
    locks,    \* s.locks: the lock of each user
    refs,     \* the reference count of each lock
    holder,   \* the goroutine that holds each lock's mutex
    step,     \* what each goroutine does
    user,     \* the user it asked for
    entry     \* the lock it counted itself in

lockVars == <<locks, refs, holder, step, user, entry>>

LockInit ==
    /\ locks = [u \in Accounts |-> Nil]
    /\ refs = [l \in Locks |-> 0]
    /\ holder = [l \in Locks |-> Nil]
    /\ step = [g \in Callers |-> "idle"]
    /\ user = [g \in Callers |-> Nil]
    /\ entry = [g \in Callers |-> Nil]

-----------------------------------------------------------------------------
\* A new userLock: an object that neither the map nor a goroutine refers to.
Fresh(l) ==
    /\ \A u \in Accounts : locks[u] # l
    /\ \A g \in Callers : entry[g] # l

Count(g, u, l) ==
    /\ step' = [step EXCEPT ![g] = "waiting"]
    /\ user' = [user EXCEPT ![g] = u]
    /\ entry' = [entry EXCEPT ![g] = l]

\* Mutant: the goroutine does not count itself in.
FindUncounted(g, u) ==
    /\ step[g] = "idle"
    /\ locks[u] # Nil
    /\ Count(g, u, locks[u])
    /\ UNCHANGED <<locks, refs, holder>>

\* The visit to the map that finds the user's lock.
Find(g, u) ==
    /\ step[g] = "idle"
    /\ locks[u] # Nil
    /\ refs' = [refs EXCEPT ![locks[u]] = @ + 1]
    /\ Count(g, u, locks[u])
    /\ UNCHANGED <<locks, holder>>

\* The visit to the map that creates it.
Create(g, u) ==
    /\ step[g] = "idle"
    /\ locks[u] = Nil
    /\ \E l \in Locks :
           /\ Fresh(l)
           /\ locks' = [locks EXCEPT ![u] = l]
           /\ refs' = [refs EXCEPT ![l] = 1]
           /\ holder' = [holder EXCEPT ![l] = Nil]
           /\ Count(g, u, l)

\* entry.mu.Lock()
Acquire(g) ==
    /\ step[g] = "waiting"
    /\ holder[entry[g]] = Nil
    /\ holder' = [holder EXCEPT ![entry[g]] = g]
    /\ step' = [step EXCEPT ![g] = "holding"]
    /\ UNCHANGED <<locks, refs, user, entry>>

\* Mutant: the goroutine leaves without unlocking.
ReleaseForgotten(g) ==
    /\ step[g] = "holding"
    /\ step' = [step EXCEPT ![g] = "leaving"]
    /\ UNCHANGED <<locks, refs, holder, user, entry>>

\* entry.mu.Unlock()
Release(g) ==
    /\ step[g] = "holding"
    /\ holder' = [holder EXCEPT ![entry[g]] = Nil]
    /\ step' = [step EXCEPT ![g] = "leaving"]
    /\ UNCHANGED <<locks, refs, user, entry>>

\* Mutant: deletes the lock whatever its count.
LeaveDeleting(g) ==
    /\ step[g] = "leaving"
    /\ refs' = [refs EXCEPT ![entry[g]] = @ - 1]
    /\ locks' = [locks EXCEPT ![user[g]] = Nil]
    /\ step' = [step EXCEPT ![g] = "idle"]
    /\ user' = [user EXCEPT ![g] = Nil]
    /\ entry' = [entry EXCEPT ![g] = Nil]
    /\ UNCHANGED holder

\* Mutant: never deletes the lock.
LeaveKeeping(g) ==
    /\ step[g] = "leaving"
    /\ refs' = [refs EXCEPT ![entry[g]] = @ - 1]
    /\ step' = [step EXCEPT ![g] = "idle"]
    /\ user' = [user EXCEPT ![g] = Nil]
    /\ entry' = [entry EXCEPT ![g] = Nil]
    /\ UNCHANGED <<locks, holder>>

\* The visit to the map that counts the goroutine out.
Leave(g) ==
    /\ step[g] = "leaving"
    /\ refs' = [refs EXCEPT ![entry[g]] = @ - 1]
    /\ locks' = IF refs'[entry[g]] = 0 THEN [locks EXCEPT ![user[g]] = Nil]
                                       ELSE locks
    /\ step' = [step EXCEPT ![g] = "idle"]
    /\ user' = [user EXCEPT ![g] = Nil]
    /\ entry' = [entry EXCEPT ![g] = Nil]
    /\ UNCHANGED holder

LockNext ==
    \E g \in Callers :
        \/ \E u \in Accounts : Find(g, u) \/ Create(g, u)
        \/ Acquire(g) \/ Release(g) \/ Leave(g)

\* A holder finishes: its calls to the provider have deadlines, and the store
\* does not block.  A mutex of Go hands over to a goroutine that has waited
\* for a millisecond, so that none waits forever.
LockFairness ==
    \A g \in Callers :
        /\ SF_lockVars(Acquire(g))
        /\ WF_lockVars(Release(g))
        /\ WF_lockVars(Leave(g))

LockSpec == LockInit /\ [][LockNext]_lockVars /\ LockFairness

-----------------------------------------------------------------------------
(* Properties.                                                             *)

\* Every variable holds a value of its kind.
LockTypeOK ==
    /\ locks \in [Accounts -> Locks \union {Nil}]
    /\ refs \in [Locks -> Nat]
    /\ holder \in [Locks -> Callers \union {Nil}]
    /\ step \in [Callers -> {"idle", "waiting", "holding", "leaving"}]
    /\ user \in [Callers -> Accounts \union {Nil}]
    /\ entry \in [Callers -> Locks \union {Nil}]

\* Two goroutines never work on one user's account at a time ("It serializes
\* with scheduled refreshes because ERP rotates refresh credentials on use").
MutualExclusion ==
    \A g, h \in Callers :
        step[g] = "holding" /\ step[h] = "holding" /\ user[g] = user[h] => g = h

\* All goroutines that wait for a user, or hold or leave its lock, share the
\* one lock the map has for that user; different users never share a lock.
OneLockPerUser ==
    \A g \in Callers : step[g] # "idle" => locks[user[g]] = entry[g]

\* The map keeps no lock that nobody uses.
NoLeak ==
    \A u \in Accounts : locks[u] # Nil =>
        \E g \in Callers : step[g] # "idle" /\ user[g] = u

\* Every goroutine that asks for a user's lock gets it, however many others
\* ask for the same user.
EveryWaiterServed ==
    \A g \in Callers : step[g] = "waiting" ~> step[g] = "holding"
=============================================================================
