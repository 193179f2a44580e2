------------------------ MODULE AccountServiceProofs ------------------------
(***************************************************************************)
(* What holds of the account service and of the per-user lock it takes,    *)
(* for any users, identities, goroutines and tokens.  The lock comes       *)
(* first, for any finite number of goroutines that ask for it: that no two *)
(* of them hold one user is what the service's action Lock takes for its   *)
(* guard.  The service follows.                                            *)
(***************************************************************************)
EXTENDS AccountService, UserLock, FiniteSetTheorems, TLAPS

-----------------------------------------------------------------------------
(* The per-user lock.                                                      *)

\* The goroutines that count in a lock's reference count.
Referrers(l) == {g \in Callers : entry[g] = l}

\* A goroutine refers to a lock exactly while it is not idle.
EntryInv ==
    \A g \in Callers :
        IF step[g] = "idle" THEN entry[g] = Nil
                          ELSE entry[g] \in Locks /\ user[g] \in Accounts

RefsInv == \A l \in Locks : refs[l] = Cardinality(Referrers(l))

\* No two users share a lock.
LocksInv == \A u, v \in Accounts : locks[u] # Nil /\ locks[u] = locks[v] => u = v

\* A lock in the map is in use.
UsedInv == \A u \in Accounts : locks[u] # Nil => \E g \in Callers : entry[g] = locks[u]

HolderInv == \A g \in Callers : step[g] = "holding" => holder[entry[g]] = g

LockIInv ==
    /\ LockTypeOK
    /\ EntryInv /\ OneLockPerUser /\ RefsInv /\ LocksInv /\ UsedInv /\ HolderInv

LEMMA ReferrersFinite == \A l \in Locks : IsFiniteSet(Referrers(l))
BY CallersFinite, FS_Subset DEF Referrers

LEMMA LockInvInit == LockInit => LockIInv
<1> SUFFICES ASSUME LockInit PROVE LockIInv
  OBVIOUS
<1>1. \A l \in Locks : Referrers(l) = {}
  BY NilAssumption DEF LockInit, Referrers
<1>2. RefsInv
  BY <1>1, FS_EmptySet DEF LockInit, RefsInv
<1> QED
  BY <1>2 DEF LockInit, LockIInv, LockTypeOK, EntryInv, OneLockPerUser, LocksInv, UsedInv, HolderInv

LEMMA LockInvStep == LockIInv /\ [LockNext]_lockVars => LockIInv'
<1> SUFFICES ASSUME LockIInv, [LockNext]_lockVars
             PROVE  LockIInv'
  OBVIOUS
<1> USE NilAssumption DEF LockIInv
\* One goroutine more, or one less, refers to a lock.
<1>1. ASSUME NEW g \in Callers, NEW l \in Locks, entry[g] = Nil,
             entry' = [entry EXCEPT ![g] = l]
      PROVE  /\ Cardinality(Referrers(l)') = Cardinality(Referrers(l)) + 1
             /\ \A m \in Locks : m # l => Referrers(m)' = Referrers(m)
  <2>1. Referrers(l)' = Referrers(l) \union {g} /\ g \notin Referrers(l)
    BY <1>1 DEF Referrers, LockTypeOK
  <2>2. \A m \in Locks : m # l => Referrers(m)' = Referrers(m)
    <3> SUFFICES ASSUME NEW m \in Locks, m # l
                 PROVE  \A h \in Callers : entry'[h] = m <=> entry[h] = m
      BY DEF Referrers
    <3> QED
      BY <1>1 DEF LockTypeOK
  <2> QED
    BY <2>1, <2>2, ReferrersFinite, FS_AddElement
<1>2. ASSUME NEW g \in Callers, NEW l \in Locks, entry[g] = l,
             entry' = [entry EXCEPT ![g] = Nil]
      PROVE  /\ Cardinality(Referrers(l)') = Cardinality(Referrers(l)) - 1
             /\ \A m \in Locks : m # l => Referrers(m)' = Referrers(m)
             /\ Cardinality(Referrers(l)) = 1
                    <=> \A h \in Callers : entry[h] = l => h = g
  <2> DEFINE R == Referrers(l)
  <2>1. g \in R /\ R' = R \ {g}
    BY <1>2 DEF Referrers, LockTypeOK
  <2>2. \A m \in Locks : m # l => Referrers(m)' = Referrers(m)
    <3> SUFFICES ASSUME NEW m \in Locks, m # l
                 PROVE  \A h \in Callers : entry'[h] = m <=> entry[h] = m
      BY DEF Referrers
    <3> QED
      BY <1>2 DEF LockTypeOK
  <2>3. IsFiniteSet(R)
    BY <1>2, ReferrersFinite
  <2>4. Cardinality(R') = Cardinality(R) - 1 /\ IsFiniteSet(R')
    BY <2>1, <2>3, FS_RemoveElement
  <2>5. Cardinality(R) \in Nat
    BY <2>3, FS_CardinalityType
  <2>6. Cardinality(R') = 0 <=> R' = {}
    BY <2>4, FS_EmptySet
  <2>7. R' = {} <=> \A h \in Callers : entry[h] = l => h = g
    BY <2>1 DEF Referrers
  <2> QED
    BY <2>2, <2>4, <2>5, <2>6, <2>7
<1>3. ASSUME NEW g \in Callers, NEW u \in Accounts, Find(g, u)
      PROVE  LockIInv'
  <2> DEFINE l == locks[u]
  <2>1. l \in Locks /\ entry[g] = Nil /\ locks' = locks /\ holder' = holder
    BY <1>3 DEF Find, LockTypeOK, EntryInv
  <2>2. /\ step' = [step EXCEPT ![g] = "waiting"]
        /\ user' = [user EXCEPT ![g] = u]
        /\ entry' = [entry EXCEPT ![g] = l]
        /\ refs' = [refs EXCEPT ![l] = refs[l] + 1]
    BY <1>3 DEF Find, Count
  <2> HIDE DEF l
  <2>3. LockTypeOK'
    BY <2>1, <2>2 DEF LockTypeOK
  <2>4. EntryInv'
    BY <2>1, <2>2 DEF EntryInv, LockTypeOK
  <2>5. OneLockPerUser'
    BY <2>1, <2>2 DEF OneLockPerUser, LockTypeOK, l
  <2>6. RefsInv'
    BY <1>1, <2>1, <2>2 DEF RefsInv, LockTypeOK
  <2>7. LocksInv' /\ HolderInv'
    BY <2>1, <2>2 DEF LocksInv, HolderInv, LockTypeOK
  <2>8. UsedInv'
    BY <2>1, <2>2 DEF UsedInv, LockTypeOK
  <2> QED
    BY <2>3, <2>4, <2>5, <2>6, <2>7, <2>8
<1>4. ASSUME NEW g \in Callers, NEW u \in Accounts, Create(g, u)
      PROVE  LockIInv'
  <2>1. PICK l \in Locks :
          /\ Fresh(l)
          /\ locks' = [locks EXCEPT ![u] = l]
          /\ refs' = [refs EXCEPT ![l] = 1]
          /\ holder' = [holder EXCEPT ![l] = Nil]
          /\ step' = [step EXCEPT ![g] = "waiting"]
          /\ user' = [user EXCEPT ![g] = u]
          /\ entry' = [entry EXCEPT ![g] = l]
    BY <1>4 DEF Create, Count
  <2>2. entry[g] = Nil /\ locks[u] = Nil
    BY <1>4 DEF Create, EntryInv
  <2>3. LockTypeOK'
    BY <2>1 DEF LockTypeOK
  <2>4. EntryInv'
    BY <2>1 DEF EntryInv, LockTypeOK
  <2>5. OneLockPerUser'
    BY <2>1, <2>2 DEF OneLockPerUser, EntryInv, LockTypeOK
  <2>6. Referrers(l) = {}
    BY <2>1 DEF Fresh, Referrers
  <2>7. RefsInv'
    <3>1. /\ Cardinality(Referrers(l)') = Cardinality(Referrers(l)) + 1
          /\ \A m \in Locks : m # l => Referrers(m)' = Referrers(m)
      BY <1>1, <2>1, <2>2
    <3>2. Cardinality(Referrers(l)') = 1
      BY <2>6, <3>1, FS_EmptySet
    <3>3. \A m \in Locks : refs'[m] = IF m = l THEN 1 ELSE refs[m]
      BY <2>1 DEF LockTypeOK
    <3> QED
      BY <3>1, <3>2, <3>3 DEF RefsInv
  <2>8. LocksInv'
    BY <2>1 DEF LocksInv, Fresh, LockTypeOK
  <2>9. UsedInv'
    BY <2>1, <2>2 DEF UsedInv, LockTypeOK
  <2>10. HolderInv'
    BY <2>1 DEF HolderInv, Fresh, LockTypeOK
  <2> QED
    BY <2>3, <2>4, <2>5, <2>7, <2>8, <2>9, <2>10
<1>5. ASSUME NEW g \in Callers, Acquire(g)
      PROVE  LockIInv'
  <2>1. entry[g] \in Locks
    BY <1>5 DEF Acquire, EntryInv
  <2>2. \A l \in Locks : Referrers(l)' = Referrers(l)
    BY <1>5 DEF Acquire, Referrers
  <2> QED
    BY <1>5, <2>1, <2>2 DEF Acquire, LockTypeOK, EntryInv, OneLockPerUser, RefsInv,
       LocksInv, UsedInv, HolderInv
<1>6. ASSUME NEW g \in Callers, Release(g)
      PROVE  LockIInv'
  <2>1. entry[g] \in Locks /\ holder[entry[g]] = g
    BY <1>6 DEF Release, EntryInv, HolderInv
  <2>2. \A l \in Locks : Referrers(l)' = Referrers(l)
    BY <1>6 DEF Release, Referrers
  <2>3. HolderInv'
    BY <1>6, <2>1 DEF Release, HolderInv, EntryInv, LockTypeOK
  <2> QED
    BY <1>6, <2>1, <2>2, <2>3 DEF Release, LockTypeOK, EntryInv, OneLockPerUser, RefsInv,
       LocksInv, UsedInv
<1>7. ASSUME NEW g \in Callers, Leave(g)
      PROVE  LockIInv'
  <2>1. PICK l \in Locks, u \in Accounts : l = entry[g] /\ u = user[g] /\ locks[u] = l
    BY <1>7 DEF Leave, EntryInv, OneLockPerUser
  <2>2. /\ step[g] = "leaving"
        /\ refs' = [refs EXCEPT ![l] = refs[l] - 1]
        /\ locks' = IF refs'[l] = 0 THEN [locks EXCEPT ![u] = Nil] ELSE locks
        /\ step' = [step EXCEPT ![g] = "idle"]
        /\ user' = [user EXCEPT ![g] = Nil]
        /\ entry' = [entry EXCEPT ![g] = Nil]
        /\ holder' = holder
    BY <1>7, <2>1 DEF Leave
  <2>3. /\ Cardinality(Referrers(l)') = Cardinality(Referrers(l)) - 1
        /\ \A m \in Locks : m # l => Referrers(m)' = Referrers(m)
        /\ Cardinality(Referrers(l)) = 1
               <=> \A h \in Callers : entry[h] = l => h = g
    BY <1>2, <2>1, <2>2
  <2>4. Cardinality(Referrers(l)) \in Nat /\ Cardinality(Referrers(l)') \in Nat
    <3>1. Referrers(l)' \subseteq Callers
      BY DEF Referrers
    <3> QED
      BY <2>1, <3>1, ReferrersFinite, CallersFinite, FS_Subset, FS_CardinalityType
  <2>5. refs[l] = Cardinality(Referrers(l)) /\ refs'[l] = refs[l] - 1
    BY <2>1, <2>2 DEF RefsInv, LockTypeOK
  <2>6. refs'[l] = 0 <=> \A h \in Callers : entry[h] = l => h = g
    BY <2>3, <2>4, <2>5
  <2>7. /\ locks \in [Accounts -> Locks \union {Nil}]
        /\ entry \in [Callers -> Locks \union {Nil}]
        /\ step[g] # "idle"
    BY <2>2 DEF LockTypeOK
  <2>8. RefsInv'
    <3>1. \A m \in Locks : m # l => refs'[m] = refs[m]
      BY <2>2 DEF LockTypeOK
    <3>2. refs'[l] = Cardinality(Referrers(l)')
      BY <2>3, <2>5
    <3> SUFFICES ASSUME NEW m \in Locks
                 PROVE  refs'[m] = Cardinality(Referrers(m)')
      BY DEF RefsInv
    <3>3. CASE m = l
      BY <3>2, <3>3
    <3>4. CASE m # l
      <4>1. Referrers(m)' = Referrers(m)
        BY <2>3, <3>4
      <4> QED
        BY <3>1, <3>4, <4>1 DEF RefsInv
    <3> QED
      BY <3>3, <3>4
  <2>9. LockTypeOK'
    BY <2>1, <2>2, <2>3, <2>4, <2>5 DEF LockTypeOK
  <2>10. EntryInv' /\ HolderInv'
    BY <2>1, <2>2 DEF EntryInv, HolderInv, LockTypeOK
  <2>11. \A v \in Accounts : locks'[v] = IF v = u /\ refs'[l] = 0 THEN Nil ELSE locks[v]
    BY <2>1, <2>2, <2>7
  <2>12. OneLockPerUser'
    <3> SUFFICES ASSUME NEW h \in Callers, step'[h] # "idle"
                 PROVE  locks'[user'[h]] = entry'[h]
      BY DEF OneLockPerUser
    <3>1. h # g /\ step[h] # "idle" /\ user'[h] = user[h] /\ entry'[h] = entry[h]
      BY <2>2 DEF LockTypeOK
    <3>2. locks[user[h]] = entry[h] /\ user[h] \in Accounts
      BY <3>1 DEF OneLockPerUser, EntryInv
    <3>3. ~(user[h] = u /\ refs'[l] = 0)
      BY <2>1, <2>6, <3>1, <3>2
    <3> QED
      BY <2>11, <3>1, <3>2, <3>3
  <2>13. LocksInv'
    BY <2>11 DEF LocksInv
  <2>14. UsedInv'
    <3> SUFFICES ASSUME NEW v \in Accounts, locks'[v] # Nil
                 PROVE  \E h \in Callers : entry'[h] = locks'[v]
      BY DEF UsedInv
    <3>1. locks'[v] = locks[v] /\ ~(v = u /\ refs'[l] = 0)
      BY <2>11
    <3>2. PICK h \in Callers : entry[h] = locks[v]
      BY <3>1 DEF UsedInv
    <3>3. CASE v = u
      BY <2>1, <2>2, <2>6, <2>7, <3>1, <3>3
    <3>4. CASE v # u
      <4>1. h # g
        BY <2>1, <3>1, <3>2, <3>4 DEF LocksInv
      <4> QED
        BY <2>2, <2>7, <3>1, <3>2, <4>1
    <3> QED
      BY <3>3, <3>4
  <2> QED
    BY <2>8, <2>9, <2>10, <2>12, <2>13, <2>14
<1>8. CASE UNCHANGED lockVars
  BY <1>8 DEF lockVars, LockTypeOK, EntryInv, OneLockPerUser, RefsInv, Referrers, LocksInv,
     UsedInv, HolderInv
<1> QED
  BY <1>3, <1>4, <1>5, <1>6, <1>7, <1>8 DEF LockNext

LEMMA LockInvariant == LockSpec => []LockIInv
BY LockInvInit, LockInvStep, PTL DEF LockSpec

\* Every variable of the lock always holds a value of its kind.
THEOREM LockTypeCorrect == LockSpec => []LockTypeOK
BY LockInvariant, PTL DEF LockIInv

\* However many goroutines ask for a user's account, at most one at a time
\* works on it.
THEOREM MutualExclusionAlways == LockSpec => []MutualExclusion
<1>1. LockIInv => MutualExclusion
  BY DEF LockIInv, MutualExclusion, OneLockPerUser, HolderInv
<1> QED
  BY <1>1, LockInvariant, PTL

\* All goroutines concerned with a user share the lock the map has for it.
THEOREM OneLockPerUserAlways == LockSpec => []OneLockPerUser
BY LockInvariant, PTL DEF LockIInv

\* The map keeps no lock that nobody uses.
THEOREM NoLeakAlways == LockSpec => []NoLeak
<1>1. LockIInv => NoLeak
  <2> SUFFICES ASSUME LockIInv, NEW u \in Accounts, locks[u] # Nil
               PROVE  \E g \in Callers : step[g] # "idle" /\ user[g] = u
    BY DEF NoLeak
  <2>1. PICK g \in Callers : entry[g] = locks[u]
    BY DEF LockIInv, UsedInv
  <2>2. step[g] # "idle" /\ user[g] \in Accounts /\ locks[user[g]] = locks[u]
    BY <2>1 DEF LockIInv, EntryInv, OneLockPerUser
  <2> QED
    BY <2>2 DEF LockIInv, LocksInv
<1> QED
  BY <1>1, LockInvariant, PTL

\* What the service takes for granted when it takes a user's lock in one step
\* (Lock in AccountService): at that moment no other goroutine holds the user.
LockGuard ==
    [][\A g \in Callers : step[g] = "waiting" /\ step'[g] = "holding" =>
          \A h \in Callers : ~(step[h] = "holding" /\ user[h] = user[g])]_lockVars

\* The mutex that is handed to a goroutine is the one that everybody who works
\* for the same user holds.
THEOREM LockGuardAlways == LockSpec => LockGuard
<1>1. LockIInv /\ [LockNext]_lockVars =>
        [\A g \in Callers : step[g] = "waiting" /\ step'[g] = "holding" =>
            \A h \in Callers : ~(step[h] = "holding" /\ user[h] = user[g])]_lockVars
  <2> SUFFICES ASSUME LockIInv, LockNext, NEW g \in Callers,
                      step[g] = "waiting", step'[g] = "holding",
                      NEW h \in Callers, step[h] = "holding", user[h] = user[g]
               PROVE  FALSE
    OBVIOUS
  <2>1. Acquire(g)
    BY DEF LockIInv, LockTypeOK, LockNext, Find, Create, Count, Acquire, Release, Leave
  <2>2. entry[h] = entry[g] /\ holder[entry[h]] = h
    BY DEF LockIInv, OneLockPerUser, HolderInv
  <2> QED
    BY <2>1, <2>2, NilAssumption DEF Acquire
<1> QED
  BY <1>1, LockInvariant, PTL DEF LockSpec, LockGuard

-----------------------------------------------------------------------------
(* The service: its invariant.                                             *)

Carries(p, t) == job[p] # None /\ job[p].token = t

Refreshing(p) == job[p].op \in {"refresh", "sync"}

\* p has the provider's grant and has not stored it yet.
Granting(p) ==
    \/ pc[p] = "storing"
    \/ pc[p] = "answered" /\ job[p].answer = "grant"

Absent(t) == \A v \in Users : book[v] # None => book[v].token # t

IsKept(t) == ~Absent(t) \/ \E p \in Goroutines : Carries(p, t)

\* What a goroutine with job j knows at each stage.
Knows(stage, j) ==
    /\ stage = "idle" <=> j = None
    /\ stage \in {"waiting", "locked"} =>
          /\ j.token = None
          /\ j.op = "sync" <=> j.subject # None
    /\ stage = "answered" =>
          /\ j.op \in {"refresh", "sync"}
          /\ j.subject # None
          /\ j.answer # "none"
          /\ j.answer = "grant" <=> j.token # None
    /\ stage \in {"storing", "unstored", "revoking"} => j.subject # None /\ j.token # None
    /\ stage = "storing" => j.op # "unbind" /\ j.answer = "grant"

JobInv == \A p \in Goroutines : Knows(pc[p], job[p])

\* At most one goroutine at a time works for a user.
OneHolder == \A p, q \in Goroutines, u \in Users : Holds(p, u) /\ Holds(q, u) => p = q

\* UnbindWins, of each place that a restart reads.
UnbindInv ==
    \A u \in unbound :
        /\ book[u] = None
        /\ main[u] = None
        /\ wal # None => wal.user # u
        /\ u \notin federated

\* Until a refreshed token is stored, the stored one is the same, or dead.
RotatedInv ==
    \A p \in Goroutines :
        Granting(p) /\ Refreshing(p) =>
            \/ job[p].token = book[job[p].user].token
            \/ owner[book[job[p].user].token] = None

\* No two users share an identity, or a token.
IdentitiesApart ==
    \A u, v \in Users :
        book[u] # None /\ book[v] # None /\ book[u].subject = book[v].subject => u = v

BooksApart ==
    \A u, v \in Users :
        book[u] # None /\ book[v] # None /\ book[u].token = book[v].token => u = v

\* No two goroutines carry the same token, and none another user's.
JobsApart ==
    \A p, q \in Goroutines, t \in Tokens : Carries(p, t) /\ Carries(q, t) => p = q

OwnToken ==
    \A p \in Goroutines, v \in Users :
        book[v] # None /\ Carries(p, book[v].token) => v = job[p].user

Apart == IdentitiesApart /\ BooksApart /\ JobsApart /\ OwnToken

\* The token of a grant that is to be stored lives.
GrantsLive ==
    \A p \in Goroutines : Granting(p) => owner[job[p].token] = job[p].subject

\* No binding has the token of a login that is not stored yet, or a token that
\* is about to be revoked.
Unsaved ==
    \A p \in Goroutines :
        /\ (pc[p] = "storing" /\ job[p].op = "login") \/ pc[p] = "revoking"
             => Absent(job[p].token)
        /\ pc[p] = "unstored" => InUse(p) \/ Absent(job[p].token)

\* The token of a binding lives, unless a refresh is about to store its
\* successor.
BookLive ==
    \A u \in Users : book[u] # None /\ owner[book[u].token] # book[u].subject =>
        \E p \in Goroutines : Holds(p, u) /\ Granting(p) /\ Refreshing(p)

Live == Apart /\ GrantsLive /\ Unsaved /\ BookLive

LiveInv == happened \subseteq {"stray"} => Live

\* Every live token is in a binding or carried by a goroutine.
StrayInv == happened = {} => \A t \in Tokens : owner[t] # None => IsKept(t)

-----------------------------------------------------------------------------
(* Types.                                                                  *)

\* A goroutine that works has a job, for a user.
LEMMA JobOf ==
    ASSUME TypeOK, JobInv, NEW p \in Goroutines, pc[p] # "idle"
    PROVE  job[p] \in Job /\ job[p].user \in Users
BY DEF TypeOK, JobInv, Knows, Job

\* A binding that is not None is one.
LEMMA BindingOf ==
    ASSUME TypeOK, NEW u \in Users, book[u] # None
    PROVE  book[u] \in Binding /\ book[u].subject \in Subjects
             /\ book[u].token \in Tokens /\ book[u].perms \in BOOLEAN
BY DEF TypeOK, Books, Binding

LEMMA NoneIsNothing ==
    /\ None \notin Users /\ None \notin Subjects /\ None \notin Tokens
    /\ None \notin Binding /\ None \notin Job
BY ServiceAssumption

\* The job j once its goroutine knows identity s, token t and answer a.
Told(j, s, t, a) ==
    [op |-> j.op, user |-> j.user, subject |-> s, token |-> t, answer |-> a]

WithAnswer(p, s, t, a) ==
    [job EXCEPT ![p].subject = s, ![p].token = t, ![p].answer = a]

WithToken(p, s, t) == [job EXCEPT ![p].subject = s, ![p].token = t]

\* Writing what a goroutine knows into its job changes no other job.
LEMMA JobWritten ==
    ASSUME NEW p \in Goroutines, NEW s, NEW t, NEW a,
           job \in [Goroutines -> Job \union {None}], NEW j \in Job, job[p] = j
    PROVE  /\ WithToken(p, s, t) = [job EXCEPT ![p] = Told(j, s, t, j.answer)]
           /\ WithAnswer(p, s, t, a) = [job EXCEPT ![p] = Told(j, s, t, a)]
<1> DEFINE Ops == {"login", "refresh", "sync", "unbind"}
           Answers == {"none", "grant", "refused", "failed"}
           First == [op : Ops, user : Users, subject : {s},
                     token : Tokens \union {None}, answer : Answers]
           Second == [op : Ops, user : Users, subject : {s}, token : {t}, answer : Answers]
<1>1. [j EXCEPT !.subject = s] = [op |-> j.op, user |-> j.user, subject |-> s,
                                  token |-> j.token, answer |-> j.answer]
  BY DEF Job
<1>2. [j EXCEPT !.subject = s] \in First
  BY <1>1 DEF Job
<1>3. ASSUME NEW k \in First
      PROVE  [k EXCEPT !.token = t] = [op |-> k.op, user |-> k.user, subject |-> s,
                                       token |-> t, answer |-> k.answer]
  OBVIOUS
<1>4. [[j EXCEPT !.subject = s] EXCEPT !.token = t]
        = [op |-> j.op, user |-> j.user, subject |-> s, token |-> t, answer |-> j.answer]
  BY <1>1, <1>2, <1>3
<1>5. [[j EXCEPT !.subject = s] EXCEPT !.token = t] \in Second
  BY <1>4 DEF Job
<1>6. ASSUME NEW k \in Second
      PROVE  [k EXCEPT !.answer = a] = [op |-> k.op, user |-> k.user, subject |-> s,
                                        token |-> t, answer |-> a]
  OBVIOUS
<1>7. [[[j EXCEPT !.subject = s] EXCEPT !.token = t] EXCEPT !.answer = a]
        = [op |-> j.op, user |-> j.user, subject |-> s, token |-> t, answer |-> a]
  BY <1>4, <1>5, <1>6
<1>8. [job EXCEPT ![p].subject = s, ![p].token = t]
        = [job EXCEPT ![p] = [[j EXCEPT !.subject = s] EXCEPT !.token = t]]
  OBVIOUS
<1>9. [job EXCEPT ![p].subject = s, ![p].token = t, ![p].answer = a]
        = [job EXCEPT ![p] =
              [[[j EXCEPT !.subject = s] EXCEPT !.token = t] EXCEPT !.answer = a]]
  OBVIOUS
<1> QED
  BY <1>4, <1>7, <1>8, <1>9 DEF WithToken, WithAnswer, Told
\* A goroutine goes on: the others keep what they know.
LEMMA GoesOn ==
    ASSUME TypeOK, JobInv, NEW p \in Goroutines,
           NEW stage \in Stages, NEW j \in Job \union {None}, Knows(stage, j),
           pc' = [pc EXCEPT ![p] = stage], job' = [job EXCEPT ![p] = j]
    PROVE  /\ pc' \in [Goroutines -> Stages]
           /\ job' \in [Goroutines -> Job \union {None}]
           /\ JobInv'
<1>1. /\ pc' \in [Goroutines -> Stages]
      /\ job' \in [Goroutines -> Job \union {None}]
  BY DEF TypeOK
<1>2. \A q \in Goroutines : Knows(pc'[q], job'[q])
  <2> SUFFICES ASSUME NEW q \in Goroutines
               PROVE  Knows(pc'[q], job'[q])
    OBVIOUS
  <2>1. CASE q = p
    <3>1. pc'[q] = stage /\ job'[q] = j
      BY <2>1 DEF TypeOK
    <3> QED
      BY <3>1
  <2>2. CASE q # p
    <3>1. pc'[q] = pc[q] /\ job'[q] = job[q]
      BY <2>2 DEF TypeOK
    <3> QED
      BY <3>1 DEF JobInv
  <2> QED
    BY <2>1, <2>2
<1> QED
  BY <1>1, <1>2 DEF JobInv

LEMMA EndsWork ==
    ASSUME TypeOK, JobInv, NEW p \in Goroutines, Done(p)
    PROVE  /\ pc' = [pc EXCEPT ![p] = "idle"] /\ job' = [job EXCEPT ![p] = None]
           /\ pc' \in [Goroutines -> Stages]
           /\ job' \in [Goroutines -> Job \union {None}]
           /\ JobInv'
<1>1. pc' = [pc EXCEPT ![p] = "idle"] /\ job' = [job EXCEPT ![p] = None]
  BY DEF Done, Go
<1>2. "idle" \in Stages /\ Knows("idle", None)
  BY DEF Stages, Knows
<1> QED
  BY <1>1, <1>2, GoesOn

\* It goes on to another stage with the job it has.
LEMMA KeepsJob ==
    ASSUME TypeOK, JobInv, NEW p \in Goroutines, NEW stage \in Stages,
           Go(p, stage), job' = job, Knows(stage, job[p])
    PROVE  /\ pc' = [pc EXCEPT ![p] = stage]
           /\ pc' \in [Goroutines -> Stages]
           /\ job' \in [Goroutines -> Job \union {None}]
           /\ JobInv'
<1>1. pc' = [pc EXCEPT ![p] = stage] /\ job' = [job EXCEPT ![p] = job[p]]
  BY DEF Go, TypeOK
<1>2. job[p] \in Job \union {None}
  BY DEF TypeOK
<1> QED
  BY <1>1, <1>2, GoesOn
\* What is known of a goroutine that presents the stored token.
LEMMA PresentsStored ==
    ASSUME TypeOK, JobInv, NEW p \in Goroutines, Presenting(p)
    PROVE  /\ pc[p] = "locked"
           /\ job[p] \in Job /\ job[p].user \in Users /\ job[p].op \in {"refresh", "sync"}
           /\ book[job[p].user] \in Binding /\ book[job[p].user] # None
           /\ Identity(p) = book[job[p].user].subject /\ Identity(p) \in Subjects
           /\ Presented(p) = book[job[p].user].token /\ Presented(p) \in Tokens
<1>1. /\ pc[p] = "locked" /\ job[p].op \in {"refresh", "sync"}
      /\ book[job[p].user] # None /\ book[job[p].user].subject = Identity(p)
  BY DEF Presenting, StillBound
<1>2. job[p] \in Job /\ job[p].user \in Users
  BY <1>1, JobOf
<1>3. book[job[p].user] \in Binding
  BY <1>1, <1>2 DEF TypeOK, Books
<1> QED
  BY <1>1, <1>2, <1>3 DEF Binding, Presented

\* The answer of the provider is what the goroutine knows next.
LEMMA AnswerKnown ==
    ASSUME TypeOK, JobInv, NEW p \in Goroutines, Presenting(p),
           NEW t \in Tokens \union {None}, NEW a \in {"grant", "refused", "failed"},
           a = "grant" <=> t # None, Answered(p, t, a)
    PROVE  /\ pc' = [pc EXCEPT ![p] = "answered"]
           /\ job' = [job EXCEPT ![p] = Told(job[p], Identity(p), t, a)]
           /\ pc' \in [Goroutines -> Stages]
           /\ job' \in [Goroutines -> Job \union {None}]
           /\ JobInv'
<1>1. PICK s \in Subjects : s = Identity(p)
  BY PresentsStored
<1>2. PICK j \in Job : j = job[p]
  BY PresentsStored
<1>3. pc' = [pc EXCEPT ![p] = "answered"]
  BY DEF Answered, Go
<1>4. job' = WithAnswer(p, s, t, a)
  BY <1>1 DEF Answered, WithAnswer
<1> DEFINE k == Told(j, s, t, a)
<1>5. job' = [job EXCEPT ![p] = k]
  BY <1>2, <1>4, JobWritten DEF TypeOK
<1>6. k \in Job
  BY DEF Job, Told
<1>7. j.op \in {"refresh", "sync"}
  BY <1>2, PresentsStored
<1>8. Knows("answered", k)
  <2>1. s # None /\ k # None
    BY <1>6, NoneIsNothing
  <2> QED
    BY <2>1, <1>7 DEF Knows, Told
<1>9. "answered" \in Stages
  BY DEF Stages
<1>10. k = Told(job[p], Identity(p), t, a)
  BY <1>1, <1>2
<1> HIDE DEF k
<1> QED
  BY <1>3, <1>5, <1>6, <1>8, <1>9, <1>10, GoesOn
\* A login that the provider granted token t for identity s.
LEMMA GrantKnown ==
    ASSUME TypeOK, JobInv, NEW p \in Goroutines, Exchanges(p),
           NEW s \in Subjects, NEW t \in Tokens,
           job' = WithAnswer(p, s, t, "grant"), Go(p, "storing")
    PROVE  /\ pc' = [pc EXCEPT ![p] = "storing"]
           /\ job' = [job EXCEPT ![p] = Told(job[p], s, t, "grant")]
           /\ pc' \in [Goroutines -> Stages]
           /\ job' \in [Goroutines -> Job \union {None}]
           /\ JobInv'
<1>1. PICK j \in Job : j = job[p]
  BY JobOf DEF Exchanges
<1>2. pc' = [pc EXCEPT ![p] = "storing"]
  BY DEF Go
<1> DEFINE k == Told(j, s, t, "grant")
<1>4. job' = [job EXCEPT ![p] = k]
  BY <1>1, JobWritten DEF TypeOK
<1>5. k \in Job
  BY DEF Job, Told
<1>6. j.op = "login"
  BY <1>1 DEF Exchanges
<1>7. Knows("storing", k)
  <2>1. s # None /\ t # None /\ k # None
    BY <1>5, NoneIsNothing
  <2> QED
    BY <2>1, <1>6 DEF Knows, Told
<1>8. "storing" \in Stages
  BY DEF Stages
<1>9. k = Told(job[p], s, t, "grant")
  BY <1>1
<1> HIDE DEF k
<1> QED
  BY <1>2, <1>4, <1>5, <1>7, <1>8, <1>9, GoesOn

\* An unbind that has removed the binding b.
LEMMA RemovalKnown ==
    ASSUME TypeOK, JobInv, NEW p \in Goroutines, Remove(p)
    PROVE  LET b == book[job[p].user] IN
           /\ pc' = [pc EXCEPT ![p] = "revoking"]
           /\ job' = [job EXCEPT ![p] = Told(job[p], b.subject, b.token, job[p].answer)]
           /\ pc' \in [Goroutines -> Stages]
           /\ job' \in [Goroutines -> Job \union {None}]
           /\ JobInv'
<1>1. pc[p] = "locked" /\ book[job[p].user] # None
  BY DEF Remove
<1>2. PICK j \in Job : j = job[p]
  BY <1>1, JobOf
<1>3. j.user \in Users
  BY DEF Job
<1>4. PICK b \in Binding : b = book[j.user]
  BY <1>1, <1>2, <1>3, BindingOf
<1>5. pc' = [pc EXCEPT ![p] = "revoking"]
  BY DEF Remove, Go
<1>6. PICK s \in Subjects, t \in Tokens : s = b.subject /\ t = b.token
  BY DEF Binding
<1> DEFINE k == Told(j, s, t, j.answer)
<1>7. job' = [job EXCEPT ![p] = k]
  <2>1. job' = WithToken(p, s, t)
    BY <1>2, <1>4, <1>6 DEF Remove, WithToken
  <2> QED
    BY <1>2, <2>1, JobWritten DEF TypeOK
<1>8. k \in Job
  BY DEF Job, Told
<1>9. Knows("revoking", k)
  <2>1. s # None /\ t # None /\ k # None
    BY <1>8, NoneIsNothing
  <2> QED
    BY <2>1 DEF Knows, Told
<1>10. "revoking" \in Stages
  BY DEF Stages
<1>11. k = Told(job[p], book[job[p].user].subject, book[job[p].user].token, job[p].answer)
  BY <1>2, <1>4, <1>6
<1> HIDE DEF k
<1> QED
  BY <1>5, <1>7, <1>8, <1>9, <1>10, <1>11, GoesOn

\* What is known of a goroutine that puts its grant into the memory.
LEMMA PutKnown ==
    ASSUME TypeOK, JobInv, NEW p \in Goroutines, PutInMemory(p)
    PROVE  \E b \in Binding :
           /\ pc[p] = "storing" /\ ~Conflict(p)
           /\ job[p].user \in Users
           /\ b.subject = job[p].subject /\ b.token = job[p].token
           /\ book' = [book EXCEPT ![job[p].user] = b]
           /\ book' \in Books
           /\ due' = due \ {job[p].user}
           /\ unbound' \in {unbound, unbound \ {job[p].user}}
           /\ job[p].op # "login" \/ job[p].user \notin unbound'
           /\ happened \subseteq happened' /\ happened' \subseteq AllMishaps
<1>1. pc[p] = "storing" /\ ~Conflict(p)
  BY DEF PutInMemory
<1>2. job[p] \in Job /\ job[p].user \in Users
  BY <1>1, JobOf
<1>3. job[p].subject \in Subjects /\ job[p].token \in Tokens
  BY <1>1, <1>2 DEF JobInv, Knows, Job
<1>4. PICK perms \in BOOLEAN :
        book' = [book EXCEPT ![job[p].user] = [subject |-> job[p].subject,
                                               token |-> job[p].token, perms |-> perms]]
  BY DEF PutInMemory
<1> DEFINE b == [subject |-> job[p].subject, token |-> job[p].token, perms |-> perms]
<1>5. b \in Binding
  BY <1>3 DEF Binding
<1>6. b.subject = job[p].subject /\ b.token = job[p].token
  OBVIOUS
<1>7. book' = [book EXCEPT ![job[p].user] = b]
  BY <1>4
<1> HIDE DEF b
<1>8. book' \in Books
  BY <1>2, <1>5, <1>7 DEF TypeOK, Books
<1>9. happened \subseteq happened' /\ happened' \subseteq AllMishaps
  BY DEF PutInMemory, TypeOK, AllMishaps
<1>10. /\ due' = due \ {job[p].user}
       /\ unbound' \in {unbound, unbound \ {job[p].user}}
       /\ job[p].op # "login" \/ job[p].user \notin unbound'
  BY DEF PutInMemory
<1> QED
  BY <1>1, <1>2, <1>5, <1>6, <1>7, <1>8, <1>9, <1>10
LEMMA BasicInit == Init => TypeOK /\ JobInv
<1> SUFFICES ASSUME Init PROVE TypeOK /\ JobInv
  OBVIOUS
<1>1. TypeOK
  BY ServiceAssumption DEF Init, TypeOK, Books, Stages
<1>2. JobInv
  BY DEF Init, JobInv, Knows
<1> QED
  BY <1>1, <1>2

LEMMA BasicStart ==
    ASSUME TypeOK, JobInv, NEW p \in Goroutines, NEW u \in Users,
           NEW op \in {"login", "refresh", "unbind"}, Start(p, op, u)
    PROVE  TypeOK' /\ JobInv'
<1> DEFINE j == [op |-> op, user |-> u, subject |-> None, token |-> None,
                 answer |-> "none"]
<1>1. /\ pc' = [pc EXCEPT ![p] = "waiting"] /\ job' = [job EXCEPT ![p] = j]
      /\ UNCHANGED <<store, queue, provider, history, bounds>>
  BY DEF Start, Go
<1>2. j \in Job
  BY DEF Job
<1>3. Knows("waiting", j)
  BY <1>2, NoneIsNothing DEF Knows
<1>4. "waiting" \in Stages
  BY DEF Stages
<1> HIDE DEF j
<1>5. /\ pc' \in [Goroutines -> Stages] /\ job' \in [Goroutines -> Job \union {None}]
      /\ JobInv'
  BY <1>1, <1>2, <1>3, <1>4, GoesOn
<1> QED
  BY <1>1, <1>5 DEF TypeOK, store, provider, history, bounds

LEMMA BasicTakeItem ==
    ASSUME TypeOK, JobInv, NEW p \in Goroutines, NEW item \in queue, TakeItem(p, item)
    PROVE  TypeOK' /\ JobInv'
<1> DEFINE j == [op |-> "sync", user |-> item.user, subject |-> item.subject,
                 token |-> None, answer |-> "none"]
<1>1. /\ pc' = [pc EXCEPT ![p] = "waiting"] /\ job' = [job EXCEPT ![p] = j]
      /\ queue' = queue \ {item}
      /\ UNCHANGED <<store, provider, history, bounds>>
  BY DEF TakeItem, Go
<1>2. item.user \in Users /\ item.subject \in Subjects
  BY DEF TypeOK
<1>3. j \in Job
  BY <1>2 DEF Job
<1>4. Knows("waiting", j)
  BY <1>2, <1>3, NoneIsNothing DEF Knows
<1>5. "waiting" \in Stages
  BY DEF Stages
<1> HIDE DEF j
<1>6. /\ pc' \in [Goroutines -> Stages] /\ job' \in [Goroutines -> Job \union {None}]
      /\ JobInv'
  BY <1>1, <1>3, <1>4, <1>5, GoesOn
<1> QED
  BY <1>1, <1>6 DEF TypeOK, store, provider, history, bounds

LEMMA BasicTurn ==
    ASSUME TypeOK, JobInv, NEW p \in Goroutines,
           Lock(p) \/ Accept(p) \/ StoreConflict(p) \/ RevokeUnstored(p)
    PROVE  TypeOK' /\ JobInv'
<1>1. PICK stage \in Stages : Go(p, stage) /\ Knows(stage, job[p])
  <2>1. CASE Lock(p)
    <3>1. Knows("locked", job[p])
      BY <2>1 DEF Lock, JobInv, Knows
    <3> QED
      BY <2>1, <3>1 DEF Lock, Stages
  <2>2. CASE Accept(p)
    <3>1. Knows("storing", job[p])
      BY <2>2 DEF Accept, JobInv, Knows
    <3> QED
      BY <2>2, <3>1 DEF Accept, Stages
  <2>3. CASE StoreConflict(p)
    <3>1. Knows("unstored", job[p])
      BY <2>3 DEF StoreConflict, JobInv, Knows
    <3> QED
      BY <2>3, <3>1 DEF StoreConflict, Stages
  <2>4. CASE RevokeUnstored(p)
    <3>1. Knows("revoking", job[p])
      BY <2>4 DEF RevokeUnstored, JobInv, Knows
    <3> QED
      BY <2>4, <3>1 DEF RevokeUnstored, Stages
  <2> QED
    BY <2>1, <2>2, <2>3, <2>4
<1>2. UNCHANGED <<store, queue, job, provider, history, bounds>>
  BY DEF Lock, Accept, StoreConflict, RevokeUnstored
<1>3. /\ pc' \in [Goroutines -> Stages] /\ job' \in [Goroutines -> Job \union {None}]
      /\ JobInv'
  BY <1>1, <1>2, KeepsJob
<1> QED
  BY <1>2, <1>3 DEF TypeOK, store, provider, history, bounds

LEMMA BasicReturn ==
    ASSUME TypeOK, JobInv, NEW p \in Goroutines, Return(p)
    PROVE  TypeOK' /\ JobInv'
<1>1. Done(p) /\ UNCHANGED <<store, queue, provider, history, bounds>>
  BY DEF Return
<1> QED
  BY <1>1, EndsWork DEF TypeOK, store, provider, history, bounds

\* A presented token that the provider knows is replaced by one that is new.
LEMMA ReplacedOwner ==
    ASSUME TypeOK, JobInv, NEW p \in Goroutines, Presenting(p), NEW t \in Tokens,
           Replaced(p, t)
    PROVE  /\ IsNext(t) /\ Presented(p) # t /\ Known(p)
           /\ owner' = [owner EXCEPT ![t] = Identity(p), ![Presented(p)] = None]
           /\ owner' \in [Tokens -> Subjects \union {None}]
<1>1. IsNext(t) /\ owner' = [owner EXCEPT ![t] = owner[Presented(p)], ![Presented(p)] = None]
  BY DEF Replaced, Rotate
<1>2. owner[Presented(p)] = Identity(p) /\ Known(p)
  BY DEF Replaced, Known
<1>3. Identity(p) \in Subjects /\ Presented(p) \in Tokens
  BY PresentsStored
<1>4. owner[Presented(p)] # None
  BY <1>2, <1>3, NoneIsNothing
<1>5. owner[t] = None
  BY <1>1 DEF IsNext, Unused
<1> QED
  BY <1>1, <1>2, <1>3, <1>4, <1>5 DEF TypeOK

LEMMA IssuedOwner ==
    ASSUME TypeOK, NEW s \in Subjects, NEW t \in Tokens, Issue(s, t)
    PROVE  /\ IsNext(t)
           /\ owner' = [owner EXCEPT ![t] = s]
           /\ owner' \in [Tokens -> Subjects \union {None}]
BY DEF Issue, TypeOK

LEMMA HappenedTyped ==
    ASSUME TypeOK, NEW m \in AllMishaps, Happens(m)
    PROVE  happened \subseteq happened' /\ happened' \subseteq AllMishaps /\ m \in happened'
BY DEF TypeOK, Happens

\* The actions of the provider on a presented token.
Answer(p) ==
    \/ Granted(p) \/ GrantedUnrotated(p) \/ Refused(p) \/ RefusedAfterRotation(p)
    \/ RefreshFails(p) \/ RefreshLost(p)

\* What they have in common.
LEMMA AnswerGiven ==
    ASSUME TypeOK, JobInv, NEW p \in Goroutines, Answer(p)
    PROVE  /\ Presenting(p)
           /\ \E t \in Tokens \union {None}, a \in {"grant", "refused", "failed"} :
                 (a = "grant" <=> t # None) /\ Answered(p, t, a)
           /\ \/ owner' = owner
              \/ \E t \in Tokens : Replaced(p, t)
           /\ happened \subseteq happened' /\ happened' \subseteq AllMishaps
<1> DEFINE Given ==
       \E t \in Tokens \union {None}, a \in {"grant", "refused", "failed"} :
             (a = "grant" <=> t # None) /\ Answered(p, t, a)
<1>1. Presenting(p)
  BY DEF Answer, Granted, GrantedUnrotated, Refused, RefusedAfterRotation, RefreshFails,
     RefreshLost
<1>2. ASSUME NEW t \in Tokens, Answered(p, t, "grant")
      PROVE  Given
  BY <1>2, NoneIsNothing
<1>3. ASSUME NEW a \in {"refused", "failed"}, Answered(p, None, a)
      PROVE  Given
  BY <1>3
<1>4. Presented(p) \in Tokens
  BY <1>1, PresentsStored
<1> HIDE DEF Given
<1>5. Given
  <2>1. CASE Granted(p)
    BY <2>1, <1>2 DEF Granted
  <2>2. CASE GrantedUnrotated(p)
    BY <2>2, <1>2, <1>4 DEF GrantedUnrotated
  <2>3. CASE Refused(p)
    BY <2>3, <1>3 DEF Refused
  <2>4. CASE RefusedAfterRotation(p)
    BY <2>4, <1>3 DEF RefusedAfterRotation
  <2>5. CASE RefreshFails(p)
    BY <2>5, <1>3 DEF RefreshFails
  <2>6. CASE RefreshLost(p)
    BY <2>6, <1>3 DEF RefreshLost
  <2> QED
    BY <2>1, <2>2, <2>3, <2>4, <2>5, <2>6 DEF Answer
<1>6. owner' = owner \/ \E t \in Tokens : Replaced(p, t)
  BY DEF Answer, Granted, GrantedUnrotated, Refused, RefusedAfterRotation, RefreshFails,
     RefreshLost
<1>7. happened \subseteq happened' /\ happened' \subseteq AllMishaps
  BY HappenedTyped DEF Answer, Granted, GrantedUnrotated, Refused, RefusedAfterRotation,
     RefreshFails, RefreshLost, AllMishaps, TypeOK
<1> QED
  BY <1>1, <1>5, <1>6, <1>7 DEF Given

LEMMA BasicAnswer ==
    ASSUME TypeOK, JobInv, NEW p \in Goroutines, Answer(p)
    PROVE  TypeOK' /\ JobInv'
<1>1. PICK t \in Tokens \union {None}, a \in {"grant", "refused", "failed"} :
        Presenting(p) /\ (a = "grant" <=> t # None) /\ Answered(p, t, a)
  BY AnswerGiven
<1>2. /\ pc' \in [Goroutines -> Stages]
      /\ job' \in [Goroutines -> Job \union {None}]
      /\ JobInv'
  BY <1>1, AnswerKnown
<1>3. owner' \in [Tokens -> Subjects \union {None}]
  BY <1>1, AnswerGiven, ReplacedOwner DEF TypeOK
<1>4. happened' \subseteq AllMishaps
  BY AnswerGiven
<1>5. UNCHANGED <<store, queue, access, unbound, bounds>>
  BY <1>1 DEF Answered
<1> QED
  BY <1>2, <1>3, <1>4, <1>5 DEF TypeOK, store, bounds

LEMMA FaultTyped == TypeOK /\ Fault => faults' \in 0..MaxFaults
BY ServiceAssumption DEF TypeOK, Fault

LEMMA BasicRecord ==
    ASSUME TypeOK, JobInv, NEW p \in Goroutines,
           RecordFailure(p) \/ RecordFailureFails(p)
    PROVE  TypeOK' /\ JobInv'
<1>1. Done(p) /\ UNCHANGED <<wal, queue, provider, history, crashes>>
  BY DEF RecordFailure, RecordFailureFails, store, bounds
<1>2. job[p].user \in Users
  BY JobOf DEF RecordFailure, RecordFailureFails
<1>3. book' \in Books /\ main' \in Books /\ federated' \subseteq Users /\ due' \subseteq Users
  <2>1. CASE RecordFailure(p)
    <3> DEFINE u == job[p].user
               keep == book[u].perms /\ ~(job[p].answer = "refused")
    <3>1. book[u] # None /\ main' = book' /\ due' = due \ {u}
          /\ federated' \in {federated, federated \ {u}}
      BY <2>1 DEF RecordFailure
    <3>2. book' = [book EXCEPT ![u].perms = keep]
      BY <2>1 DEF RecordFailure
    <3>3. book[u] \in Binding /\ keep \in BOOLEAN
      BY <1>2, <3>1 DEF TypeOK, Books
    <3> HIDE DEF keep
    <3>4. book' \in Books
      BY <1>2, <3>2, <3>3 DEF TypeOK, Books, Binding
    <3> QED
      BY <3>1, <3>4 DEF TypeOK
  <2>2. CASE RecordFailureFails(p)
    BY <2>2 DEF RecordFailureFails, store, TypeOK
  <2> QED
    BY <2>1, <2>2
<1>4. faults' \in 0..MaxFaults
  BY FaultTyped DEF RecordFailure, RecordFailureFails, bounds, TypeOK
<1> QED
  BY <1>1, <1>3, <1>4, EndsWork DEF TypeOK, provider, history
LEMMA BasicLogin ==
    ASSUME TypeOK, JobInv, NEW p \in Goroutines, LoginStep(p)
    PROVE  TypeOK' /\ JobInv'
<1>1. Exchanges(p)
  BY DEF LoginStep, Exchange, ExchangeLost, ExchangeFails
<1>2. UNCHANGED <<store, queue, access, unbound, bounds>>
  BY <1>1 DEF Exchanges
<1>3. CASE \E s \in Subjects : Exchange(p, s)
  <2>1. PICK s \in Subjects, t \in Tokens :
          /\ Issue(s, t) /\ job' = WithAnswer(p, s, t, "grant") /\ Go(p, "storing")
          /\ UNCHANGED happened
    BY <1>3 DEF Exchange, WithAnswer
  <2> QED
    BY <1>1, <1>2, <2>1, GrantKnown, IssuedOwner DEF TypeOK, store, bounds
<1>4. CASE \E s \in Subjects : ExchangeLost(p, s)
  <2>1. PICK s \in Subjects, t \in Tokens : Issue(s, t) /\ Done(p) /\ Happens("stray")
    BY <1>4 DEF ExchangeLost
  <2> QED
    BY <1>2, <2>1, EndsWork, IssuedOwner, HappenedTyped DEF TypeOK, store, bounds,
       AllMishaps
<1>5. CASE ExchangeFails(p)
  BY <1>2, <1>5, EndsWork DEF ExchangeFails, TypeOK, store, bounds
<1> QED
  BY <1>3, <1>4, <1>5 DEF LoginStep

LEMMA BasicStore ==
    ASSUME TypeOK, JobInv, NEW p \in Goroutines, Store(p) \/ StoreFails(p)
    PROVE  TypeOK' /\ JobInv'
<1>1. PutInMemory(p) /\ UNCHANGED <<queue, provider, crashes>>
  BY DEF Store, StoreFails
<1>2. /\ pc[p] = "storing" /\ job[p].user \in Users
      /\ book' \in Books
      /\ due' = due \ {job[p].user} /\ unbound' \subseteq Users
      /\ happened' \subseteq AllMishaps
      /\ book'[job[p].user] \in Binding
  BY <1>1, PutKnown DEF TypeOK, Books
<1>3. /\ pc' \in [Goroutines -> Stages]
      /\ job' \in [Goroutines -> Job \union {None}]
      /\ JobInv'
  <2>1. CASE Store(p)
    BY <2>1, EndsWork DEF Store
  <2>2. CASE StoreFails(p)
    <3>1. Knows("unstored", job[p]) /\ "unstored" \in Stages
      BY <1>2 DEF JobInv, Knows, Stages
    <3>2. Go(p, "unstored") /\ job' = job
      BY <2>2 DEF StoreFails
    <3> QED
      BY <3>1, <3>2, KeepsJob
  <2> QED
    BY <2>1, <2>2
<1>4. main' \in Books
  BY <1>2 DEF Store, StoreFails, TypeOK
<1>5. wal' \in [user : Users, item : Binding] \union {None}
  BY <1>2 DEF Store, StoreFails, WALOf, TypeOK
<1>6. federated' \subseteq Users
  BY <1>2 DEF Store, StoreFails, ReplaceFederated, TypeOK
<1>7. faults' \in 0..MaxFaults
  BY FaultTyped DEF Store, StoreFails, TypeOK
<1> QED
  BY <1>1, <1>2, <1>3, <1>4, <1>5, <1>6, <1>7 DEF TypeOK, provider

LEMMA BasicRevoke ==
    ASSUME TypeOK, JobInv, NEW p \in Goroutines, Revoke(p) \/ RevokeFails(p)
    PROVE  TypeOK' /\ JobInv'
<1>1. Done(p) /\ UNCHANGED <<store, queue, access, unbound, bounds>>
  BY DEF Revoke, RevokeFails, provider, history
<1>2. owner' \in [Tokens -> Subjects \union {None}]
  BY DEF Revoke, RevokeFails, TypeOK, provider
<1>3. happened' \subseteq AllMishaps
  BY HappenedTyped DEF Revoke, RevokeFails, TypeOK, AllMishaps, history
<1> QED
  BY <1>1, <1>2, <1>3, EndsWork DEF TypeOK, store, bounds

LEMMA BasicRemove ==
    ASSUME TypeOK, JobInv, NEW p \in Goroutines, Remove(p) \/ RemoveFails(p)
    PROVE  TypeOK' /\ JobInv'
<1>1. pc[p] = "locked"
  BY DEF Remove, RemoveFails
<1>2. job[p].user \in Users
  BY <1>1, JobOf
<1>3. CASE Remove(p)
  <2>1. /\ pc' \in [Goroutines -> Stages]
        /\ job' \in [Goroutines -> Job \union {None}]
        /\ JobInv'
    BY <1>3, RemovalKnown
  <2> QED
    BY <1>2, <1>3, <2>1 DEF Remove, WALWithout, TypeOK, Books, provider, bounds
<1>4. CASE RemoveFails(p)
  <2>1. faults' \in 0..MaxFaults
    BY <1>4, FaultTyped DEF RemoveFails
  <2>2. Done(p)
    BY <1>4 DEF RemoveFails
  <2> QED
    BY <1>4, <2>1, <2>2, EndsWork DEF RemoveFails, WALWithout, TypeOK, provider, history
<1> QED
  BY <1>3, <1>4

\* The steps that no goroutine takes.
Quiet ==
    \/ StartSweep
    \/ \E u \in Users : BecomeDue(u)
    \/ \E s \in Subjects : ChangeAccess(s)

LEMMA BasicQuiet ==
    ASSUME TypeOK, JobInv, Quiet \/ UNCHANGED vars
    PROVE  TypeOK' /\ JobInv'
<1>1. UNCHANGED <<book, main, wal, federated, pc, job, owner, history, bounds>>
  BY DEF Quiet, StartSweep, BecomeDue, ChangeAccess, vars, store, provider
<1>2. JobInv'
  BY <1>1 DEF JobInv
<1>3. queue' \subseteq [user : Users, subject : Subjects]
  <2>1. CASE StartSweep
    BY <2>1 DEF StartSweep, TypeOK, Books, Binding
  <2>2. CASE Quiet /\ ~StartSweep
    BY <2>2 DEF Quiet, BecomeDue, ChangeAccess, TypeOK
  <2>3. CASE UNCHANGED vars
    BY <2>3 DEF vars, TypeOK
  <2> QED
    BY <2>1, <2>2, <2>3
<1>4. due' \subseteq Users /\ access' \subseteq Subjects
  BY DEF Quiet, StartSweep, BecomeDue, ChangeAccess, TypeOK, vars, store, provider
<1> QED
  BY <1>1, <1>2, <1>3, <1>4 DEF TypeOK, history, bounds

LEMMA RecoveredTyped == TypeOK => Recovered \in Books
BY DEF TypeOK, Recovered, Books

LEMMA BasicRestart ==
    ASSUME TypeOK, JobInv, Restart
    PROVE  TypeOK' /\ JobInv'
<1>1. book' \in Books /\ main' \in Books
  BY RecoveredTyped DEF Restart
<1>2. JobInv'
  BY DEF Restart, JobInv, Knows
<1>3. happened' \subseteq AllMishaps
  BY HappenedTyped DEF Restart, AllMishaps
<1>4. crashes' \in 0..MaxCrashes
  BY ServiceAssumption DEF Restart, TypeOK
<1> QED
  BY <1>1, <1>2, <1>3, <1>4 DEF Restart, TypeOK, Stages, provider

\* A goroutine begins to work for a user, and is to take the user's lock.
Begins(p) ==
    \/ \E u \in Users, op \in {"login", "refresh", "unbind"} : Start(p, op, u)
    \/ \E item \in queue : TakeItem(p, item)

\* The steps of a goroutine that holds the lock of its user.
Works(p) ==
    \/ Accept(p) \/ StoreConflict(p) \/ RevokeUnstored(p) \/ Return(p) \/ Answer(p)
    \/ RecordFailure(p) \/ RecordFailureFails(p) \/ LoginStep(p)
    \/ Store(p) \/ StoreFails(p) \/ Revoke(p) \/ RevokeFails(p)
    \/ Remove(p) \/ RemoveFails(p)

LEMMA Steps ==
    ASSUME Next
    PROVE  \/ \E p \in Goroutines : Begins(p) \/ Lock(p) \/ Works(p)
           \/ Quiet
           \/ Restart
BY DEF Next, Begins, Command, Complete, RefreshNow, Unbind, Goroutines, Work, RefreshStep, Decided,
   StoreStep, Answer, Quiet, Works

LEMMA BasicWork ==
    ASSUME TypeOK, JobInv, NEW p \in Goroutines, Works(p)
    PROVE  TypeOK' /\ JobInv'
BY BasicTurn, BasicReturn, BasicAnswer, BasicRecord, BasicLogin, BasicStore, BasicRevoke,
   BasicRemove DEF Works

LEMMA BasicStep == TypeOK /\ JobInv /\ [Next]_vars => TypeOK' /\ JobInv'
BY Steps, BasicStart, BasicTakeItem, BasicTurn, BasicWork, BasicQuiet, BasicRestart
   DEF Begins
-----------------------------------------------------------------------------
(* What a step leaves alone.                                               *)

\* A goroutine that works holds its user's lock, works for that user until it
\* is done, and disturbs no other goroutine.
LEMMA WorkFrame ==
    ASSUME TypeOK, JobInv, NEW p \in Goroutines, Works(p)
    PROVE  /\ pc[p] \notin {"idle", "waiting"}
           /\ job[p] \in Job /\ job[p].user \in Users
           /\ \A q \in Goroutines \ {p} : pc'[q] = pc[q] /\ job'[q] = job[q]
           /\ pc'[p] # "waiting"
           /\ pc'[p] # "idle" =>
                 job'[p] \in Job /\ job'[p].user = job[p].user /\ job'[p].op = job[p].op
<1>1. pc[p] \notin {"idle", "waiting"}
  BY DEF Works, Accept, StoreConflict, RevokeUnstored, Return, NothingToDo, Answer, Granted,
     GrantedUnrotated, Refused, RefusedAfterRotation, RefreshFails, RefreshLost, Presenting,
     RecordFailure, RecordFailureFails, LoginStep, Exchange, ExchangeLost, ExchangeFails,
     Exchanges, Store, StoreFails, PutInMemory, Revoke, RevokeFails, Remove, RemoveFails
<1>2. job[p] \in Job /\ job[p].user \in Users
  BY <1>1, JobOf
<1>3. CASE Done(p)
  BY <1>1, <1>2, <1>3 DEF Done, Go, TypeOK
<1>4. CASE job' = job /\ \E stage \in Stages \ {"idle", "waiting"} : Go(p, stage)
  BY <1>1, <1>2, <1>4 DEF Go, TypeOK
<1>5. CASE /\ \E stage \in Stages \ {"idle", "waiting"} : pc' = [pc EXCEPT ![p] = stage]
           /\ \E s \in Subjects, t \in Tokens \union {None},
                 a \in {"none", "grant", "refused", "failed"} :
                    job' = [job EXCEPT ![p] = Told(job[p], s, t, a)]
  BY <1>1, <1>2, <1>5 DEF Told, Job, TypeOK
<1>6. CASE Answer(p)
  <2>1. PICK t \in Tokens \union {None}, a \in {"grant", "refused", "failed"} :
          Presenting(p) /\ (a = "grant" <=> t # None) /\ Answered(p, t, a)
    BY <1>6, AnswerGiven
  <2>2. /\ pc' = [pc EXCEPT ![p] = "answered"]
        /\ job' = [job EXCEPT ![p] = Told(job[p], Identity(p), t, a)]
        /\ Identity(p) \in Subjects
    BY <2>1, AnswerKnown, PresentsStored
  <2> QED
    BY <2>2, <1>5 DEF Stages
<1>7. CASE LoginStep(p)
  <2>1. CASE \E s \in Subjects : Exchange(p, s)
    <3>1. PICK s \in Subjects, t \in Tokens :
            Exchanges(p) /\ job' = WithAnswer(p, s, t, "grant") /\ Go(p, "storing")
      BY <2>1 DEF Exchange, WithAnswer
    <3>2. /\ pc' = [pc EXCEPT ![p] = "storing"]
          /\ job' = [job EXCEPT ![p] = Told(job[p], s, t, "grant")]
      BY <3>1, GrantKnown
    <3> QED
      BY <3>2, <1>5 DEF Stages
  <2> QED
    BY <1>3, <1>7, <2>1 DEF LoginStep, ExchangeLost, ExchangeFails
<1>8. CASE Remove(p)
  <2>1. /\ pc' = [pc EXCEPT ![p] = "revoking"]
        /\ job' = [job EXCEPT ![p] = Told(job[p], book[job[p].user].subject,
                                          book[job[p].user].token, job[p].answer)]
    BY <1>8, RemovalKnown
  <2>2. /\ book[job[p].user].subject \in Subjects /\ book[job[p].user].token \in Tokens
        /\ job[p].answer \in {"none", "grant", "refused", "failed"}
    BY <1>2, <1>8, BindingOf DEF Remove, Job
  <2> QED
    BY <2>1, <2>2, <1>5 DEF Stages
<1> QED
  BY <1>3, <1>4, <1>6, <1>7, <1>8 DEF Works, Accept, StoreConflict, RevokeUnstored, Return,
     RecordFailure, RecordFailureFails, Store, StoreFails, Revoke, RevokeFails, RemoveFails,
     Stages

\* It changes no binding but its own user's.
LEMMA BookFrame ==
    ASSUME TypeOK, JobInv, NEW p \in Goroutines, Works(p), NEW v \in Users,
           v # job[p].user
    PROVE  book'[v] = book[v]
<1>1. CASE Store(p) \/ StoreFails(p)
  BY <1>1, PutKnown DEF Store, StoreFails, TypeOK, Books
<1>2. CASE RecordFailure(p)
  BY <1>2 DEF RecordFailure, TypeOK, Books
<1>3. CASE Remove(p)
  BY <1>3 DEF Remove, TypeOK, Books
<1>4. CASE Answer(p)
  BY <1>4, AnswerGiven DEF Answered, store
<1> QED
  BY <1>1, <1>2, <1>3, <1>4 DEF Works, Accept, StoreConflict, RevokeUnstored, Return,
     RecordFailureFails, LoginStep, Exchange, ExchangeLost, ExchangeFails, Exchanges,
     Revoke, RevokeFails, RemoveFails, store

\* Nor the provider's record of a token, except that a new one is issued, the
\* presented one is replaced, and the one to be revoked dies.
LEMMA OwnerFrame ==
    ASSUME TypeOK, JobInv, NEW p \in Goroutines, Works(p), NEW t \in Tokens,
           owner'[t] # owner[t]
    PROVE  \/ IsNext(t)
           \/ owner'[t] = None /\ Presenting(p) /\ t = Presented(p)
           \/ owner'[t] = None /\ Revoke(p) /\ t = job[p].token
<1>1. CASE Answer(p)
  <2>1. Presenting(p) /\ \E r \in Tokens : Replaced(p, r)
    BY <1>1, AnswerGiven
  <2>2. PICK r \in Tokens : Replaced(p, r)
    BY <2>1
  <2>3. IsNext(r) /\ owner' = [owner EXCEPT ![r] = Identity(p), ![Presented(p)] = None]
    BY <2>1, <2>2, ReplacedOwner
  <2> QED
    BY <2>1, <2>3 DEF TypeOK
<1>2. CASE LoginStep(p)
  BY <1>2, IssuedOwner DEF LoginStep, Exchange, ExchangeLost, ExchangeFails, TypeOK
<1>3. CASE Revoke(p)
  BY <1>3 DEF Revoke, TypeOK
<1> QED
  BY <1>1, <1>2, <1>3 DEF Works, Accept, StoreConflict, RevokeUnstored, Return,
     RecordFailure, RecordFailureFails, Store, StoreFails, RevokeFails, Remove, RemoveFails,
     provider
-----------------------------------------------------------------------------
(* One goroutine at a time works for a user, and what follows from it.     *)

LEMMA StartFrame ==
    ASSUME TypeOK, NEW p \in Goroutines, Begins(p)
    PROVE  /\ pc[p] = "idle" /\ pc'[p] = "waiting"
           /\ job'[p] # None => job'[p].token = None
           /\ \A q \in Goroutines \ {p} : pc'[q] = pc[q] /\ job'[q] = job[q]
           /\ UNCHANGED <<store, provider, history, bounds>>
BY DEF Begins, Start, TakeItem, Go, TypeOK

LEMMA LockedFrame ==
    ASSUME TypeOK, NEW p \in Goroutines, Lock(p)
    PROVE  /\ pc[p] = "waiting" /\ pc'[p] = "locked"
           /\ job' = job
           /\ \A q \in Goroutines \ {p} : pc'[q] = pc[q]
           /\ \A q \in Goroutines : ~Holds(q, job[p].user)
           /\ UNCHANGED <<store, provider, history, bounds>>
BY DEF Lock, Go, TypeOK

LEMMA QuietFrame ==
    ASSUME Quiet \/ UNCHANGED vars
    PROVE  UNCHANGED <<book, main, wal, federated, pc, job, owner, history>>
BY DEF Quiet, StartSweep, BecomeDue, ChangeAccess, vars, store, provider

LEMMA OneHolderStep ==
    TypeOK /\ JobInv /\ OneHolder /\ [Next]_vars => OneHolder'
<1> SUFFICES ASSUME TypeOK, JobInv, OneHolder, [Next]_vars
             PROVE  OneHolder'
  OBVIOUS
<1>1. ASSUME NEW p \in Goroutines, Begins(p)
      PROVE  OneHolder'
  <2>1. /\ pc'[p] = "waiting"
        /\ \A q \in Goroutines \ {p} : pc'[q] = pc[q] /\ job'[q] = job[q]
    BY <1>1, StartFrame
  <2> QED
    BY <2>1 DEF OneHolder, Holds
<1>2. ASSUME NEW p \in Goroutines, Lock(p)
      PROVE  OneHolder'
  BY <1>2, LockedFrame DEF OneHolder, Holds
<1>3. ASSUME NEW p \in Goroutines, Works(p)
      PROVE  OneHolder'
  <2>1. \A q \in Goroutines, u \in Users : Holds(q, u)' => Holds(q, u)
    BY <1>3, WorkFrame DEF Holds
  <2> QED
    BY <2>1 DEF OneHolder
<1>4. CASE Quiet \/ UNCHANGED vars
  BY <1>4, QuietFrame DEF OneHolder, Holds
<1>5. CASE Restart
  BY <1>5 DEF Restart, OneHolder, Holds
<1> QED
  BY <1>1, <1>2, <1>3, <1>4, <1>5, Steps

\* What a goroutine that holds a lock relies on, others do not touch.
LEMMA OthersApart ==
    ASSUME TypeOK, JobInv, OneHolder, NEW p \in Goroutines, Works(p),
           NEW q \in Goroutines \ {p}, pc[q] \notin {"idle", "waiting"}
    PROVE  /\ pc'[q] = pc[q] /\ job'[q] = job[q]
           /\ job[q].user \in Users /\ job[q].user # job[p].user
           /\ book'[job[q].user] = book[job[q].user]
<1>1. pc'[q] = pc[q] /\ job'[q] = job[q]
  BY WorkFrame
<1>2. job[q].user \in Users
  BY JobOf
<1>3. job[q].user # job[p].user
  <2>1. Holds(q, job[q].user) /\ Holds(p, job[p].user) /\ job[p].user \in Users
    BY WorkFrame DEF Holds
  <2> QED
    BY <1>2, <2>1 DEF OneHolder
<1> QED
  BY <1>1, <1>2, <1>3, BookFrame

LEMMA KeepStep ==
    TypeOK /\ JobInv /\ OneHolder /\ RefreshKeepsBinding /\ [Next]_vars => RefreshKeepsBinding'
<1> SUFFICES ASSUME TypeOK, JobInv, OneHolder, RefreshKeepsBinding, [Next]_vars
             PROVE  RefreshKeepsBinding'
  OBVIOUS
<1>1. ASSUME NEW p \in Goroutines, Begins(p)
      PROVE  RefreshKeepsBinding'
  <2>1. /\ pc'[p] = "waiting" /\ book' = book
        /\ \A q \in Goroutines \ {p} : pc'[q] = pc[q] /\ job'[q] = job[q]
    BY <1>1, StartFrame DEF store
  <2> QED
    BY <2>1 DEF RefreshKeepsBinding, StillBound, Identity
<1>2. ASSUME NEW p \in Goroutines, Lock(p)
      PROVE  RefreshKeepsBinding'
  <2>1. /\ pc'[p] = "locked" /\ job' = job /\ book' = book
        /\ \A q \in Goroutines \ {p} : pc'[q] = pc[q]
    BY <1>2, LockedFrame DEF store
  <2> QED
    BY <2>1 DEF RefreshKeepsBinding, StillBound, Identity
<1>3. ASSUME NEW p \in Goroutines, Works(p)
      PROVE  RefreshKeepsBinding'
  <2> SUFFICES ASSUME NEW q \in Goroutines, pc'[q] \in {"answered", "storing"},
                      job'[q].op \in {"refresh", "sync"}
               PROVE  StillBound(q)'
    BY DEF RefreshKeepsBinding
  <2>1. CASE q # p
    <3>1. pc'[q] = pc[q] /\ job'[q] = job[q]
      BY <1>3, <2>1, WorkFrame
    <3>2. book'[job[q].user] = book[job[q].user]
      BY <1>3, <2>1, <3>1, OthersApart
    <3>3. StillBound(q)
      BY <3>1 DEF RefreshKeepsBinding
    <3> QED
      BY <3>1, <3>2, <3>3 DEF StillBound, Identity
  <2>2. CASE q = p /\ Answer(p)
    <3>1. PICK t \in Tokens \union {None}, a \in {"grant", "refused", "failed"} :
            Presenting(p) /\ (a = "grant" <=> t # None) /\ Answered(p, t, a)
      BY <2>2, AnswerGiven
    <3>2. /\ job' = [job EXCEPT ![p] = Told(job[p], Identity(p), t, a)]
          /\ book' = book
      <4>1. job' = [job EXCEPT ![p] = Told(job[p], Identity(p), t, a)]
        BY <3>1, AnswerKnown
      <4> QED
        BY <3>1, <4>1 DEF Answered, store
    <3>3. /\ Identity(p) \in Subjects /\ Identity(p) # None
          /\ book[job[p].user] # None /\ book[job[p].user].subject = Identity(p)
      BY <3>1, PresentsStored, NoneIsNothing
    <3>4. PICK s : s = Identity(p)
      OBVIOUS
    <3>5. job'[p].user = job[p].user /\ job'[p].subject = s
      BY <3>2, <3>4 DEF Told, TypeOK
    <3>6. Identity(p)' = s /\ book'[job'[p].user] = book[job[p].user]
      BY <3>2, <3>3, <3>4, <3>5 DEF Identity
    <3> QED
      BY <2>2, <3>3, <3>4, <3>6 DEF StillBound
  <2>3. CASE q = p /\ Accept(p)
    <3>1. StillBound(p) /\ book' = book /\ job' = job
      BY <2>3 DEF Accept, store
    <3> QED
      BY <2>3, <3>1 DEF StillBound, Identity
  <2>4. CASE q = p /\ LoginStep(p)
    <3>1. job[p].op = "login"
      BY <2>4 DEF LoginStep, Exchange, ExchangeLost, ExchangeFails, Exchanges
    <3>2. pc'[p] # "idle"
      BY <2>4
    <3> QED
      BY <1>3, <2>4, <3>1, <3>2, WorkFrame
  <2>5. CASE q = p /\ ~Answer(p) /\ ~Accept(p) /\ ~LoginStep(p)
    <3>1. pc'[p] \in {"idle", "unstored", "revoking"}
      BY <1>3, <2>5 DEF Works, StoreConflict, RevokeUnstored, Return, RecordFailure,
         RecordFailureFails, Store, StoreFails, Revoke, RevokeFails, Remove, RemoveFails,
         Done, Go, TypeOK
    <3> QED
      BY <2>5, <3>1
  <2> QED
    BY <2>1, <2>2, <2>3, <2>4, <2>5
<1>4. CASE Quiet \/ UNCHANGED vars
  BY <1>4, QuietFrame DEF RefreshKeepsBinding, StillBound, Identity
<1>5. CASE Restart
  BY <1>5 DEF Restart, RefreshKeepsBinding
<1> QED
  BY <1>1, <1>2, <1>3, <1>4, <1>5, Steps
-----------------------------------------------------------------------------
(* An unbind is final.                                                     *)

LEMMA UnbindStep ==
    TypeOK /\ JobInv /\ RefreshKeepsBinding /\ UnbindInv /\ [Next]_vars => UnbindInv'
<1> SUFFICES ASSUME TypeOK, JobInv, RefreshKeepsBinding, UnbindInv, [Next]_vars
             PROVE  UnbindInv'
  OBVIOUS
<1>1. CASE UNCHANGED <<book, main, wal, federated, unbound>>
  BY <1>1 DEF UnbindInv
<1>2. ASSUME NEW p \in Goroutines, Begins(p)
      PROVE  UnbindInv'
  BY <1>1, <1>2, StartFrame DEF store, history
<1>3. ASSUME NEW p \in Goroutines, Lock(p)
      PROVE  UnbindInv'
  BY <1>1, <1>3, LockedFrame DEF store, history
<1>4. ASSUME NEW p \in Goroutines, Works(p)
      PROVE  UnbindInv'
  <2>1. job[p].user \in Users
    BY <1>4, WorkFrame
  <2>2. CASE RecordFailure(p)
    <3>1. /\ book[job[p].user] # None /\ main' = book' /\ UNCHANGED <<wal, unbound>>
          /\ federated' \subseteq federated
      BY <2>2 DEF RecordFailure, history
    <3>2. job[p].user \notin unbound
      BY <3>1 DEF UnbindInv
    <3>3. \A v \in Users \ {job[p].user} : book'[v] = book[v]
      BY <1>4, BookFrame
    <3> QED
      BY <3>1, <3>2, <3>3 DEF UnbindInv, TypeOK
  <2>3. CASE Store(p) \/ StoreFails(p)
    <3>1. /\ unbound' \subseteq unbound
          /\ job[p].op = "login" => job[p].user \notin unbound'
          /\ pc[p] = "storing"
          /\ federated' \subseteq federated \union {job[p].user}
          /\ main' \in {main, book'}
          /\ wal' \in {None, wal, WALOf(p)}
      BY <2>3, PutKnown DEF Store, StoreFails, ReplaceFederated
    \* A refresh that stores its grant finds its user bound, so not unbound.
    <3>4. job[p].op # "login" => job[p].user \notin unbound
      <4>1. job[p].op # "login" => StillBound(p)
        BY <3>1, JobOf DEF Job, JobInv, Knows, RefreshKeepsBinding
      <4> QED BY <4>1 DEF StillBound, UnbindInv
    <3>5. job[p].user \notin unbound'
      BY <3>1, <3>4
    <3>2. WALOf(p).user = job[p].user
      BY DEF WALOf
    <3>3. \A v \in Users \ {job[p].user} : book'[v] = book[v]
      BY <1>4, BookFrame
    <3> QED
      BY <3>1, <3>2, <3>3, <3>5 DEF UnbindInv, TypeOK
  <2>4. CASE Remove(p)
    <3>1. /\ unbound' = unbound \union {job[p].user}
          /\ federated' = federated \ {job[p].user}
          /\ book' = [book EXCEPT ![job[p].user] = None] /\ main' = book'
          /\ wal' = WALWithout(job[p].user)
      BY <2>4 DEF Remove
    <3> QED
      BY <2>1, <3>1 DEF UnbindInv, WALWithout, TypeOK, Books
  <2>5. CASE RemoveFails(p)
    BY <2>5 DEF RemoveFails, WALWithout, UnbindInv, history
  <2>6. CASE Answer(p)
    BY <1>1, <2>6, AnswerGiven DEF Answered, store
  <2> QED
    BY <1>1, <1>4, <2>2, <2>3, <2>4, <2>5, <2>6 DEF Works, Accept, StoreConflict,
       RevokeUnstored, Return, RecordFailureFails, LoginStep, Exchange, ExchangeLost,
       ExchangeFails, Exchanges, Revoke, RevokeFails, store, history
<1>5. CASE Quiet \/ UNCHANGED vars
  BY <1>1, <1>5, QuietFrame DEF history
<1>6. CASE Restart
  <2>1. \A u \in unbound : Recovered[u] = None
    BY DEF UnbindInv, Recovered, TypeOK, Books
  <2> QED
    BY <1>6, <2>1 DEF Restart, UnbindInv
<1> QED
  BY <1>2, <1>3, <1>4, <1>5, <1>6, Steps

LEMMA UnbindMeans == TypeOK /\ UnbindInv => UnbindWins
BY DEF TypeOK, UnbindInv, UnbindWins, Recovered, Books

-----------------------------------------------------------------------------
(* Until a refreshed token is stored, the stored one is it or is dead.     *)

\* A new token is not one that is kept.
LEMMA NextIsNew ==
    ASSUME NEW t \in Tokens, IsNext(t)
    PROVE  /\ owner[t] = None
           /\ Absent(t)
           /\ \A p \in Goroutines : ~Carries(p, t)
BY DEF IsNext, Unused, Kept, Absent, Carries

LEMMA RotatedStep ==
    TypeOK /\ JobInv /\ OneHolder /\ RefreshKeepsBinding /\ RotatedInv /\ [Next]_vars
        => RotatedInv'
<1> SUFFICES ASSUME TypeOK, JobInv, OneHolder, RefreshKeepsBinding, RotatedInv, [Next]_vars
             PROVE  RotatedInv'
  OBVIOUS
<1>1. ASSUME NEW p \in Goroutines, Begins(p)
      PROVE  RotatedInv'
  <2>1. /\ pc'[p] = "waiting" /\ book' = book /\ owner' = owner
        /\ \A q \in Goroutines \ {p} : pc'[q] = pc[q] /\ job'[q] = job[q]
    BY <1>1, StartFrame DEF store, provider
  <2> QED
    BY <2>1 DEF RotatedInv, Granting, Refreshing
<1>2. ASSUME NEW p \in Goroutines, Lock(p)
      PROVE  RotatedInv'
  <2>1. /\ pc'[p] = "locked" /\ job' = job /\ book' = book /\ owner' = owner
        /\ \A q \in Goroutines \ {p} : pc'[q] = pc[q]
    BY <1>2, LockedFrame DEF store, provider
  <2> QED
    BY <2>1 DEF RotatedInv, Granting, Refreshing
<1>3. ASSUME NEW p \in Goroutines, Works(p)
      PROVE  RotatedInv'
  <2> SUFFICES ASSUME NEW q \in Goroutines, Granting(q)', Refreshing(q)'
               PROVE  \/ job'[q].token = book'[job'[q].user].token
                      \/ owner'[book'[job'[q].user].token] = None
    BY DEF RotatedInv, Granting, Refreshing
  <2>1. CASE q # p
    <3>1. pc'[q] = pc[q] /\ job'[q] = job[q] /\ pc[q] \in {"answered", "storing"}
      BY <1>3, <2>1, WorkFrame DEF Granting
    <3>2. /\ book'[job[q].user] = book[job[q].user] /\ job[q].user \in Users
      BY <1>3, <2>1, <3>1, OthersApart
    <3>3. Granting(q) /\ Refreshing(q)
      BY <3>1 DEF Granting, Refreshing
    <3>4. book[job[q].user] # None
      BY <3>1, <3>3 DEF RefreshKeepsBinding, StillBound, Refreshing
    <3>5. PICK x \in Tokens : x = book[job[q].user].token
      BY <3>2, <3>4, BindingOf
    <3>6. ~IsNext(x)
      BY <3>2, <3>4, <3>5, NextIsNew DEF Absent
    <3>7. owner'[x] = owner[x] \/ owner'[x] = None
      BY <1>3, <3>6, OwnerFrame
    <3> QED
      BY <3>1, <3>2, <3>3, <3>5, <3>7 DEF RotatedInv
  <2>2. CASE q = p /\ Granted(p)
    <3>1. Answer(p)
      BY <2>2 DEF Answer
    <3>2. PICK t \in Tokens : Presenting(p) /\ Replaced(p, t) /\ Answered(p, t, "grant")
      BY <2>2 DEF Granted
    <3>3. /\ owner' = [owner EXCEPT ![t] = Identity(p), ![Presented(p)] = None]
          /\ Presented(p) # t
      BY <3>2, ReplacedOwner
    <3>4. job[p].user \in Users /\ Presented(p) = book[job[p].user].token
          /\ Presented(p) \in Tokens
      BY <3>2, PresentsStored
    <3>5. owner'[Presented(p)] = None
      BY <3>3, <3>4 DEF TypeOK
    <3>6. job'[p].user = job[p].user /\ book' = book
      BY <1>3, <2>2, <3>2, WorkFrame DEF Answered, Go, store, TypeOK
    <3> QED
      BY <2>2, <3>4, <3>5, <3>6
  <2>3. CASE q = p /\ GrantedUnrotated(p)
    <3>1. Presenting(p) /\ Answered(p, Presented(p), "grant") /\ Presented(p) \in Tokens
      BY <2>3, PresentsStored DEF GrantedUnrotated
    <3>2. PICK t \in Tokens : t = Presented(p)
      BY <3>1
    <3>3. job' = [job EXCEPT ![p] = Told(job[p], Identity(p), t, "grant")]
      BY <3>1, <3>2, NoneIsNothing, AnswerKnown
    <3>4. job'[p].user = job[p].user /\ job'[p].token = t /\ book' = book
      BY <3>1, <3>3 DEF Told, Answered, store, TypeOK
    <3> QED
      BY <2>3, <3>2, <3>4 DEF Presented
  <2>4. CASE q = p /\ (Refused(p) \/ RefusedAfterRotation(p) \/ RefreshFails(p) \/ RefreshLost(p))
    <3>1. PICK a \in {"refused", "failed"} : Presenting(p) /\ Answered(p, None, a)
      BY <2>4 DEF Refused, RefusedAfterRotation, RefreshFails, RefreshLost
    <3>2. /\ pc' = [pc EXCEPT ![p] = "answered"]
          /\ job' = [job EXCEPT ![p] = Told(job[p], Identity(p), None, a)]
      BY <3>1, NoneIsNothing, AnswerKnown
    <3> QED
      BY <2>4, <3>2 DEF Granting, Told, TypeOK
  <2>5. CASE q = p /\ Accept(p)
    <3>1. /\ pc[p] = "answered" /\ job[p].answer = "grant"
          /\ UNCHANGED <<book, job, owner>>
      BY <2>5 DEF Accept, store, provider
    <3> QED
      BY <2>5, <3>1 DEF RotatedInv, Granting, Refreshing
  <2>6. CASE q = p /\ LoginStep(p)
    <3>1. job[p].op = "login"
      BY <2>6 DEF LoginStep, Exchange, ExchangeLost, ExchangeFails, Exchanges
    <3>2. pc'[p] # "idle"
      BY <2>6 DEF Granting
    <3> QED
      BY <1>3, <2>6, <3>1, <3>2, WorkFrame DEF Refreshing
  <2>7. CASE q = p /\ ~Answer(p) /\ ~Accept(p) /\ ~LoginStep(p)
    <3>1. pc'[p] \in {"idle", "unstored", "revoking"}
      BY <1>3, <2>7 DEF Works, StoreConflict, RevokeUnstored, Return, RecordFailure,
         RecordFailureFails, Store, StoreFails, Revoke, RevokeFails, Remove, RemoveFails,
         Done, Go, TypeOK
    <3> QED
      BY <2>7, <3>1 DEF Granting
  <2> QED
    BY <2>1, <2>2, <2>3, <2>4, <2>5, <2>6, <2>7 DEF Answer
<1>4. CASE Quiet \/ UNCHANGED vars
  BY <1>4, QuietFrame DEF RotatedInv, Granting, Refreshing
<1>5. CASE Restart
  BY <1>5 DEF Restart, RotatedInv, Granting
<1> QED
  BY <1>1, <1>2, <1>3, <1>4, <1>5, Steps
-----------------------------------------------------------------------------
(* Nothing lost, no access refused half-way, no restart: the tokens live.  *)

LEMMA Undisturbed ==
    ASSUME TypeOK, JobInv, [Next]_vars, happened' \subseteq {"stray"}
    PROVE  /\ happened \subseteq {"stray"} /\ happened \subseteq happened'
           /\ ~Restart
           /\ \A p \in Goroutines : ~RefusedAfterRotation(p) /\ ~RefreshLost(p)
<1>1. /\ ~Restart
      /\ \A p \in Goroutines : ~RefusedAfterRotation(p) /\ ~RefreshLost(p)
  BY DEF Restart, RefusedAfterRotation, RefreshLost, Happens
<1>2. ASSUME NEW p \in Goroutines, Works(p)
      PROVE  happened \subseteq happened'
  BY <1>2, AnswerGiven, PutKnown DEF Works, Accept, StoreConflict, RevokeUnstored, Return,
     RecordFailure, RecordFailureFails, LoginStep, Exchange, ExchangeLost, ExchangeFails,
     Store, StoreFails, Revoke, RevokeFails, Remove, RemoveFails, Happens, history
<1>3. happened \subseteq happened'
  BY <1>1, <1>2, Steps, StartFrame, LockedFrame, QuietFrame DEF history
<1> QED
  BY <1>1, <1>3

\* The goroutine p is done, without a refreshed grant, and no binding changes
\* its identity or its token.
LEMMA LiveDone ==
    ASSUME TypeOK, TypeOK', JobInv, Live, NEW p \in Goroutines, ~(Granting(p) /\ Refreshing(p)),
           pc'[p] = "idle", job'[p] = None,
           \A q \in Goroutines \ {p} : pc'[q] = pc[q] /\ job'[q] = job[q],
           \A u \in Users : /\ book'[u] = None <=> book[u] = None
                            /\ book[u] # None => /\ book'[u].subject = book[u].subject
                                                 /\ book'[u].token = book[u].token,
           \A t \in Tokens : owner'[t] = owner[t] \/ IsNext(t)
    PROVE  Live'
<1> USE DEF Live, Apart
<1>1. IdentitiesApart' /\ BooksApart'
  BY DEF IdentitiesApart, BooksApart
<1>2. JobsApart' /\ OwnToken'
  BY DEF JobsApart, OwnToken, Carries
<1>3. GrantsLive'
  <2> SUFFICES ASSUME NEW q \in Goroutines, Granting(q)'
               PROVE  owner'[job'[q].token] = job'[q].subject
    BY DEF GrantsLive
  <2>1. q # p /\ pc'[q] = pc[q] /\ job'[q] = job[q] /\ Granting(q)
    BY DEF Granting
  <2>2. job[q] # None /\ job[q].token \in Tokens
    BY <2>1 DEF Granting, JobInv, Knows, TypeOK, Job
  <2>3. ~IsNext(job[q].token)
    BY <2>2, NextIsNew DEF Carries
  <2> QED
    BY <2>1, <2>2, <2>3 DEF GrantsLive
<1>4. Unsaved'
  <2> SUFFICES ASSUME NEW q \in Goroutines
               PROVE  /\ (pc'[q] = "storing" /\ job'[q].op = "login") \/ pc'[q] = "revoking"
                            => Absent(job[q].token)'
                      /\ pc'[q] = "unstored" => InUse(q)' \/ Absent(job[q].token)'
    BY DEF Unsaved
  <2>1. CASE q = p
    BY <2>1
  <2>2. CASE q # p /\ pc[q] # "idle"
    <3>1. pc'[q] = pc[q] /\ job'[q] = job[q] /\ job[q].user \in Users
      BY <2>2, JobOf
    <3>2. Absent(job[q].token) => Absent(job[q].token)'
      BY <3>1 DEF Absent
    <3>3. InUse(q) => InUse(q)'
      BY <3>1 DEF InUse
    <3> QED
      BY <3>1, <3>2, <3>3 DEF Unsaved
  <2>3. CASE q # p /\ pc[q] = "idle"
    BY <2>3
  <2> QED
    BY <2>1, <2>2, <2>3
<1>5. BookLive'
  <2> SUFFICES ASSUME NEW u \in Users, book'[u] # None,
                      owner'[book'[u].token] # book'[u].subject
               PROVE  \E q \in Goroutines : Holds(q, u)' /\ Granting(q)' /\ Refreshing(q)'
    BY DEF BookLive
  <2>1. book[u] # None /\ book'[u].token = book[u].token /\ book'[u].subject = book[u].subject
    OBVIOUS
  <2>2. book[u].token \in Tokens /\ ~IsNext(book[u].token)
    BY <2>1, BindingOf, NextIsNew DEF Absent
  <2>3. PICK q \in Goroutines : Holds(q, u) /\ Granting(q) /\ Refreshing(q)
    BY <2>1, <2>2 DEF BookLive
  <2> QED
    BY <2>3 DEF Holds, Granting, Refreshing
<1> QED
  BY <1>1, <1>2, <1>3, <1>4, <1>5
\* A goroutine that carries a token holds the lock of its user.
LEMMA CarriesHolds ==
    ASSUME TypeOK, JobInv, NEW q \in Goroutines, NEW t \in Tokens, Carries(q, t)
    PROVE  /\ pc[q] \notin {"idle", "waiting", "locked"}
           /\ job[q].user \in Users /\ Holds(q, job[q].user)
<1>1. pc[q] \notin {"idle", "waiting", "locked"}
  BY NoneIsNothing DEF JobInv, Knows, Carries
<1> QED
  BY <1>1, JobOf DEF Holds

\* So the token of a binding is carried by nobody but who holds its lock.
LEMMA TokenHeld ==
    ASSUME TypeOK, JobInv, OneHolder, OwnToken,
           NEW p \in Goroutines, NEW u \in Users, Holds(p, u), book[u] # None,
           NEW q \in Goroutines, Carries(q, book[u].token)
    PROVE  q = p
<1>1. book[u].token \in Tokens
  BY BindingOf
<1>2. u = job[q].user /\ Holds(q, job[q].user)
  BY <1>1, CarriesHolds DEF OwnToken
<1> QED
  BY <1>2 DEF OneHolder

\* A goroutine that has a grant carries its token.
LEMMA GrantCarried ==
    ASSUME TypeOK, JobInv, NEW q \in Goroutines,
           Granting(q) \/ pc[q] \in {"unstored", "revoking"}
    PROVE  /\ job[q].token \in Tokens /\ job[q].subject \in Subjects
           /\ Carries(q, job[q].token)
           /\ job[q].user \in Users /\ Holds(q, job[q].user)
<1>1. /\ pc[q] \notin {"idle", "waiting", "locked"} /\ job[q] # None
      /\ job[q].token # None /\ job[q].subject # None
  BY DEF Granting, JobInv, Knows
<1>2. job[q] \in Job
  BY <1>1, JobOf
<1> QED
  BY <1>1, <1>2 DEF Carries, Holds, Job

\* A step of p that changes no binding and no token of the provider.
LEMMA LiveSame ==
    ASSUME TypeOK, JobInv, Live, NEW p \in Goroutines,
           \A q \in Goroutines \ {p} : pc'[q] = pc[q] /\ job'[q] = job[q],
           book' = book, owner' = owner,
           \/ job'[p] = job[p]
           \/ job'[p] = None \/ job'[p].token = None,
           Granting(p)' => Granting(p) /\ job'[p] = job[p],
           Granting(p) /\ Refreshing(p) => Granting(p)' /\ pc'[p] \notin {"idle", "waiting"},
           pc'[p] = "storing" => Refreshing(p)',
           pc'[p] \in {"unstored", "revoking"} => job'[p] = job[p],
           pc'[p] = "revoking" => Absent(job[p].token),
           pc'[p] = "unstored" => InUse(p) \/ Absent(job[p].token)
    PROVE  Live'
<1> USE DEF Live, Apart
<1>1. IdentitiesApart' /\ BooksApart'
  BY DEF IdentitiesApart, BooksApart
<1>2. \A q \in Goroutines, t \in Tokens :
         Carries(q, t)' => Carries(q, t) /\ job'[q] = job[q]
  BY NoneIsNothing DEF Carries
<1>3. JobsApart'
  BY <1>2 DEF JobsApart
<1>4. OwnToken'
  BY <1>2, BindingOf DEF OwnToken
<1>5. GrantsLive'
  BY DEF GrantsLive, Granting
<1>6. Unsaved'
  <2> SUFFICES ASSUME NEW q \in Goroutines
               PROVE  /\ (pc'[q] = "storing" /\ job'[q].op = "login") \/ pc'[q] = "revoking"
                            => Absent(job[q].token)'
                      /\ pc'[q] = "unstored" => InUse(q)' \/ Absent(job[q].token)'
    BY DEF Unsaved
  <2>1. CASE q = p
    BY <2>1 DEF Refreshing, Absent, InUse
  <2>2. CASE q # p
    <3>1. pc'[q] = pc[q] /\ job'[q] = job[q]
      BY <2>2
    <3> QED
      BY <3>1 DEF Unsaved, Absent, InUse
  <2> QED
    BY <2>1, <2>2
<1>7. BookLive'
  <2> SUFFICES ASSUME NEW u \in Users, book[u] # None,
                      owner[book[u].token] # book[u].subject
               PROVE  \E q \in Goroutines : Holds(q, u)' /\ Granting(q)' /\ Refreshing(q)'
    BY DEF BookLive
  <2>1. PICK q \in Goroutines : Holds(q, u) /\ Granting(q) /\ Refreshing(q)
    BY DEF BookLive
  <2>2. CASE q = p
    BY <2>1, <2>2 DEF Holds, Granting, Refreshing
  <2>3. CASE q # p
    BY <2>1, <2>3 DEF Holds, Granting, Refreshing
  <2> QED
    BY <2>2, <2>3
<1> QED
  BY <1>1, <1>3, <1>4, <1>5, <1>6, <1>7

\* The provider issues token t to p: a refresh replaces the stored token.
LEMMA LiveGranted ==
    ASSUME TypeOK, JobInv, OneHolder, Live, NEW p \in Goroutines, pc[p] = "locked",
           NEW t \in Tokens, IsNext(t), NEW s \in Subjects, NEW u \in Users, u = job[p].user,
           \A q \in Goroutines \ {p} : pc'[q] = pc[q] /\ job'[q] = job[q],
           book' = book,
           job'[p] # None, job'[p].subject = s, job'[p].token = t, job'[p].answer = "grant",
           job'[p].op = job[p].op, job'[p].user = u,
           owner'[t] = s,
           \/ /\ pc'[p] = "storing" /\ ~Refreshing(p)
              /\ \A x \in Tokens \ {t} : owner'[x] = owner[x]
           \/ /\ pc'[p] = "answered" /\ Refreshing(p) /\ book[u] # None
              /\ \A x \in Tokens \ {t} : x # book[u].token => owner'[x] = owner[x]
    PROVE  Live'
<1> USE DEF Live, Apart
<1>1. IdentitiesApart' /\ BooksApart'
  BY DEF IdentitiesApart, BooksApart
<1>2. Absent(t) /\ \A q \in Goroutines : ~Carries(q, t)
  BY NextIsNew
<1>3. Holds(p, u) /\ ~Granting(p)
  BY DEF Holds, Granting
<1>4. JobsApart'
  BY <1>2 DEF JobsApart, Carries
<1>5. OwnToken'
  BY <1>2 DEF OwnToken, Carries, Absent
<1>6. GrantsLive'
  <2> SUFFICES ASSUME NEW q \in Goroutines, Granting(q)'
               PROVE  owner'[job'[q].token] = job'[q].subject
    BY DEF GrantsLive
  <2>1. CASE q = p
    BY <2>1
  <2>2. CASE q # p
    <3>1. Granting(q) /\ job'[q] = job[q]
      BY <2>2 DEF Granting
    <3>2. job[q].token \in Tokens /\ Carries(q, job[q].token)
      BY <3>1, GrantCarried
    <3>3. job[q].token # t
      BY <1>2, <3>2
    <3>4. book[u] # None => job[q].token # book[u].token
      BY <1>3, <2>2, <3>2, TokenHeld
    <3> QED
      BY <3>1, <3>2, <3>3, <3>4 DEF GrantsLive
  <2> QED
    BY <2>1, <2>2
<1>7. Unsaved'
  <2> SUFFICES ASSUME NEW q \in Goroutines
               PROVE  /\ (pc'[q] = "storing" /\ job'[q].op = "login") \/ pc'[q] = "revoking"
                            => Absent(job[q].token)'
                      /\ pc'[q] = "unstored" => InUse(q)' \/ Absent(job[q].token)'
    BY DEF Unsaved
  <2>1. CASE q = p
    BY <1>2, <2>1 DEF Absent
  <2>2. CASE q # p
    <3>1. pc'[q] = pc[q] /\ job'[q] = job[q]
      BY <2>2
    <3> QED
      BY <3>1 DEF Unsaved, Absent, InUse
  <2> QED
    BY <2>1, <2>2
<1>8. BookLive'
  <2> SUFFICES ASSUME NEW v \in Users, book[v] # None,
                      owner'[book[v].token] # book[v].subject
               PROVE  \E q \in Goroutines : Holds(q, v)' /\ Granting(q)' /\ Refreshing(q)'
    BY DEF BookLive
  <2>1. book[v].token \in Tokens /\ book[v].token # t
    BY <1>2, BindingOf DEF Absent
  <2>2. CASE owner'[book[v].token] = owner[book[v].token]
    <3>1. PICK q \in Goroutines : Holds(q, v) /\ Granting(q) /\ Refreshing(q)
      BY <2>2 DEF BookLive
    <3> QED
      BY <1>3, <3>1 DEF Holds, Granting, Refreshing
  <2>3. CASE owner'[book[v].token] # owner[book[v].token]
    <3>1. /\ pc'[p] = "answered" /\ Refreshing(p)
          /\ book[u] # None /\ book[v].token = book[u].token
      BY <2>1, <2>3
    <3>2. v = u
      BY <3>1 DEF BooksApart
    <3> QED
      BY <3>1, <3>2 DEF Holds, Granting, Refreshing
  <2> QED
    BY <2>2, <2>3
<1> QED
  BY <1>1, <1>4, <1>5, <1>6, <1>7, <1>8
\* The refresh of p is granted with the token it presented.
LEMMA LiveUnrotated ==
    ASSUME TypeOK, JobInv, OneHolder, Live, NEW p \in Goroutines, pc[p] = "locked",
           NEW t \in Tokens, NEW s \in Subjects, NEW u \in Users, u = job[p].user,
           \A q \in Goroutines \ {p} : pc'[q] = pc[q] /\ job'[q] = job[q],
           book' = book, owner' = owner,
           job'[p].subject = s, job'[p].token = t, job'[p].user = u,
           pc'[p] = "answered",
           book[u] # None, book[u].token = t, owner[t] = s
    PROVE  Live'
<1> USE DEF Live, Apart
<1>1. IdentitiesApart' /\ BooksApart'
  BY DEF IdentitiesApart, BooksApart
<1>2. Holds(p, u) /\ ~Granting(p)
  BY DEF Holds, Granting
<1>3. \A q \in Goroutines \ {p} : ~Carries(q, t)
  BY <1>2, TokenHeld
<1>4. JobsApart'
  <2>1. \A q \in Goroutines \ {p}, x \in Tokens : Carries(q, x)' => Carries(q, x)
    BY DEF Carries
  <2>2. \A x \in Tokens : Carries(p, x)' => x = t
    BY DEF Carries
  <2> QED
    BY <1>3, <2>1, <2>2 DEF JobsApart
<1>5. OwnToken'
  <2> SUFFICES ASSUME NEW q \in Goroutines, NEW v \in Users, book[v] # None,
                      Carries(q, book[v].token)'
               PROVE  v = job'[q].user
    BY DEF OwnToken
  <2>1. CASE q = p
    BY <2>1 DEF Carries, BooksApart
  <2>2. CASE q # p
    BY <2>2 DEF Carries, OwnToken
  <2> QED
    BY <2>1, <2>2
<1>6. GrantsLive'
  BY DEF GrantsLive, Granting
<1>7. Unsaved'
  BY DEF Unsaved, Absent, InUse
<1>8. BookLive'
  BY <1>2 DEF BookLive, Holds, Granting, Refreshing
<1> QED
  BY <1>1, <1>4, <1>5, <1>6, <1>7, <1>8

\* The grant of p becomes the binding of its user.
LEMMA LivePut ==
    ASSUME TypeOK, TypeOK', JobInv, OneHolder, Live, NEW p \in Goroutines,
           NEW b \in Binding, NEW u \in Users, u = job[p].user,
           pc[p] = "storing", ~Conflict(p),
           b.subject = job[p].subject, b.token = job[p].token,
           book' = [book EXCEPT ![u] = b], owner' = owner,
           \A q \in Goroutines \ {p} : pc'[q] = pc[q] /\ job'[q] = job[q],
           \/ pc'[p] = "idle" /\ job'[p] = None
           \/ pc'[p] = "unstored" /\ job'[p] = job[p]
    PROVE  Live'
<1> USE DEF Live, Apart
<1>1. Granting(p)
  BY DEF Granting
<1> DEFINE t == job[p].token
<1>2. t \in Tokens /\ Carries(p, t) /\ Holds(p, u)
  BY <1>1, GrantCarried
<1>3. b # None /\ book'[u] = b /\ \A v \in Users \ {u} : book'[v] = book[v]
  BY NoneIsNothing DEF TypeOK, Books
<1>4. IdentitiesApart'
  <2>1. \A v \in Users \ {u} : book[v] # None => book[v].subject # b.subject
    BY DEF Conflict
  <2> QED
    BY <1>3, <2>1 DEF IdentitiesApart
<1>5. \A v \in Users \ {u} : book[v] # None => book[v].token # t
  BY <1>2 DEF OwnToken
<1>6. BooksApart'
  BY <1>3, <1>5 DEF BooksApart
<1>7. \A q \in Goroutines, x \in Tokens : Carries(q, x)' => Carries(q, x) /\ job'[q] = job[q]
  BY DEF Carries
<1>8. JobsApart'
  BY <1>7 DEF JobsApart
<1>9. OwnToken'
  <2> SUFFICES ASSUME NEW q \in Goroutines, NEW v \in Users, book'[v] # None,
                      Carries(q, book[v].token)'
               PROVE  v = job'[q].user
    BY DEF OwnToken
  <2>1. PICK x \in Tokens : x = book'[v].token
    BY DEF TypeOK, Books, Binding
  <2>2. Carries(q, x) /\ job'[q] = job[q]
    BY <1>7, <2>1
  <2>3. CASE v = u
    <3>1. x = t
      BY <1>3, <2>1, <2>3
    <3>2. q = p
      BY <1>2, <2>2, <3>1 DEF JobsApart
    <3> QED
      BY <2>2, <2>3, <3>2
  <2>4. CASE v # u
    BY <1>3, <2>1, <2>2, <2>4 DEF OwnToken
  <2> QED
    BY <2>3, <2>4
<1>10. GrantsLive'
  BY DEF GrantsLive, Granting
<1>11. Unsaved'
  <2> SUFFICES ASSUME NEW q \in Goroutines
               PROVE  /\ (pc'[q] = "storing" /\ job'[q].op = "login") \/ pc'[q] = "revoking"
                            => Absent(job[q].token)'
                      /\ pc'[q] = "unstored" => InUse(q)' \/ Absent(job[q].token)'
    BY DEF Unsaved
  <2>1. CASE q = p
    BY <1>3, <2>1 DEF InUse
  <2>2. CASE q # p /\ pc[q] \in {"storing", "unstored", "revoking"}
    <3>1. pc'[q] = pc[q] /\ job'[q] = job[q]
      BY <2>2
    <3>2. /\ job[q].token \in Tokens /\ Carries(q, job[q].token)
          /\ job[q].user \in Users /\ Holds(q, job[q].user)
      BY <2>2, GrantCarried DEF Granting
    <3>3. job[q].token # t
      BY <1>2, <2>2, <3>2 DEF JobsApart
    <3>4. Absent(job[q].token) => Absent(job[q].token)'
      BY <1>3, <3>1, <3>3 DEF Absent
    <3>5. job[q].user # u
      BY <1>2, <2>2, <3>2 DEF OneHolder
    <3>6. InUse(q) => InUse(q)'
      BY <1>3, <3>1, <3>2, <3>5 DEF InUse
    <3> QED
      BY <3>1, <3>4, <3>6 DEF Unsaved
  <2>3. CASE q # p /\ pc[q] \notin {"storing", "unstored", "revoking"}
    BY <2>3
  <2> QED
    BY <2>1, <2>2, <2>3
<1>12. BookLive'
  <2> SUFFICES ASSUME NEW v \in Users, book'[v] # None,
                      owner[book'[v].token] # book'[v].subject
               PROVE  \E q \in Goroutines : Holds(q, v)' /\ Granting(q)' /\ Refreshing(q)'
    BY DEF BookLive
  <2>1. v # u
    BY <1>1, <1>3 DEF GrantsLive
  <2>2. PICK q \in Goroutines : Holds(q, v) /\ Granting(q) /\ Refreshing(q)
    BY <1>3, <2>1 DEF BookLive
  <2>3. q # p
    BY <2>1, <2>2 DEF Holds
  <2> QED
    BY <2>2, <2>3 DEF Holds, Granting, Refreshing
<1> QED
  BY <1>4, <1>6, <1>8, <1>9, <1>10, <1>11, <1>12

\* The token that p carries is revoked.
LEMMA LiveRevoked ==
    ASSUME TypeOK, JobInv, OneHolder, Live, NEW p \in Goroutines, pc[p] = "revoking",
           \A q \in Goroutines \ {p} : pc'[q] = pc[q] /\ job'[q] = job[q],
           book' = book, owner' = [owner EXCEPT ![job[p].token] = None],
           pc'[p] = "idle", job'[p] = None
    PROVE  Live'
<1> USE DEF Live, Apart
<1>1. PICK t \in Tokens : t = job[p].token /\ Carries(p, t)
  BY GrantCarried
<1>2. Absent(t)
  BY <1>1 DEF Unsaved
<1>3. \A x \in Tokens \ {t} : owner'[x] = owner[x]
  BY <1>1 DEF TypeOK
<1>4. IdentitiesApart' /\ BooksApart'
  BY DEF IdentitiesApart, BooksApart
<1>5. JobsApart' /\ OwnToken'
  BY DEF JobsApart, OwnToken, Carries
<1>6. GrantsLive'
  <2> SUFFICES ASSUME NEW q \in Goroutines, Granting(q)'
               PROVE  owner'[job'[q].token] = job'[q].subject
    BY DEF GrantsLive
  <2>1. q # p /\ Granting(q) /\ job'[q] = job[q]
    BY DEF Granting
  <2>2. job[q].token \in Tokens /\ Carries(q, job[q].token)
    BY <2>1, GrantCarried
  <2>3. job[q].token # t
    BY <1>1, <2>1, <2>2 DEF JobsApart
  <2> QED
    BY <1>3, <2>1, <2>2, <2>3 DEF GrantsLive
<1>7. Unsaved'
  <2> SUFFICES ASSUME NEW q \in Goroutines
               PROVE  /\ (pc'[q] = "storing" /\ job'[q].op = "login") \/ pc'[q] = "revoking"
                            => Absent(job[q].token)'
                      /\ pc'[q] = "unstored" => InUse(q)' \/ Absent(job[q].token)'
    BY DEF Unsaved
  <2>1. CASE q = p
    BY <2>1
  <2>2. CASE q # p
    <3>1. pc'[q] = pc[q] /\ job'[q] = job[q]
      BY <2>2
    <3> QED
      BY <3>1 DEF Unsaved, Absent, InUse
  <2> QED
    BY <2>1, <2>2
<1>8. BookLive'
  <2> SUFFICES ASSUME NEW v \in Users, book[v] # None,
                      owner'[book[v].token] # book[v].subject
               PROVE  \E q \in Goroutines : Holds(q, v)' /\ Granting(q)' /\ Refreshing(q)'
    BY DEF BookLive
  <2>1. book[v].token \in Tokens \ {t}
    BY <1>2, BindingOf DEF Absent
  <2>2. PICK q \in Goroutines : Holds(q, v) /\ Granting(q) /\ Refreshing(q)
    BY <1>3, <2>1 DEF BookLive
  <2>3. q # p
    BY <2>2 DEF Granting
  <2> QED
    BY <2>2, <2>3 DEF Holds, Granting, Refreshing
<1> QED
  BY <1>4, <1>5, <1>6, <1>7, <1>8

\* The binding that p found is removed, and its token is to be revoked.
LEMMA LiveRemoved ==
    ASSUME TypeOK, JobInv, OneHolder, Live, NEW p \in Goroutines, pc[p] = "locked",
           NEW u \in Users, u = job[p].user, book[u] # None,
           NEW t \in Tokens, t = book[u].token,
           \A q \in Goroutines \ {p} : pc'[q] = pc[q] /\ job'[q] = job[q],
           book' = [book EXCEPT ![u] = None], owner' = owner,
           pc'[p] = "revoking", job'[p].token = t
    PROVE  Live'
<1> USE DEF Live, Apart
<1>1. Holds(p, u) /\ ~Granting(p)
  BY DEF Holds, Granting
<1>2. book'[u] = None /\ \A v \in Users \ {u} : book'[v] = book[v]
  BY DEF TypeOK, Books
<1>3. IdentitiesApart' /\ BooksApart'
  BY <1>2 DEF IdentitiesApart, BooksApart
<1>4. \A q \in Goroutines \ {p} : ~Carries(q, t)
  BY <1>1, TokenHeld
<1>5. \A q \in Goroutines \ {p}, x \in Tokens : Carries(q, x)' => Carries(q, x)
  BY DEF Carries
<1>6. JobsApart'
  <2>1. \A x \in Tokens : Carries(p, x)' => x = t
    BY DEF Carries
  <2> QED
    BY <1>4, <1>5, <2>1 DEF JobsApart
<1>7. \A v \in Users : book'[v] # None => book'[v].token # t
  BY <1>2 DEF BooksApart
<1>8. OwnToken'
  <2> SUFFICES ASSUME NEW q \in Goroutines, NEW v \in Users, book'[v] # None,
                      Carries(q, book[v].token)'
               PROVE  v = job'[q].user
    BY DEF OwnToken
  <2>1. book'[v] = book[v] /\ book[v].token # t
    BY <1>2, <1>7
  <2>2. q # p
    BY <2>1 DEF Carries
  <2> QED
    BY <2>1, <2>2 DEF Carries, OwnToken
<1>9. GrantsLive'
  BY DEF GrantsLive, Granting
<1>10. Unsaved'
  <2> SUFFICES ASSUME NEW q \in Goroutines
               PROVE  /\ (pc'[q] = "storing" /\ job'[q].op = "login") \/ pc'[q] = "revoking"
                            => Absent(job[q].token)'
                      /\ pc'[q] = "unstored" => InUse(q)' \/ Absent(job[q].token)'
    BY DEF Unsaved
  <2>1. CASE q = p
    BY <1>7, <2>1 DEF Absent
  <2>2. CASE q # p /\ pc[q] \in {"storing", "unstored", "revoking"}
    <3>1. pc'[q] = pc[q] /\ job'[q] = job[q]
      BY <2>2
    <3>2. job[q].user \in Users /\ Holds(q, job[q].user)
      BY <2>2, GrantCarried DEF Granting
    <3>3. job[q].user # u
      BY <1>1, <2>2, <3>2 DEF OneHolder
    <3>4. Absent(job[q].token) => Absent(job[q].token)'
      BY <1>2, <3>1 DEF Absent
    <3>5. InUse(q) => InUse(q)'
      BY <1>2, <3>1, <3>2, <3>3 DEF InUse
    <3> QED
      BY <3>1, <3>4, <3>5 DEF Unsaved
  <2>3. CASE q # p /\ pc[q] \notin {"storing", "unstored", "revoking"}
    BY <2>3
  <2> QED
    BY <2>1, <2>2, <2>3
<1>11. BookLive'
  <2> SUFFICES ASSUME NEW v \in Users, book'[v] # None,
                      owner[book'[v].token] # book'[v].subject
               PROVE  \E q \in Goroutines : Holds(q, v)' /\ Granting(q)' /\ Refreshing(q)'
    BY DEF BookLive
  <2>1. book'[v] = book[v]
    BY <1>2
  <2>2. PICK q \in Goroutines : Holds(q, v) /\ Granting(q) /\ Refreshing(q)
    BY <2>1 DEF BookLive
  <2> QED
    BY <1>1, <2>2 DEF Holds, Granting, Refreshing
<1> QED
  BY <1>3, <1>6, <1>8, <1>9, <1>10, <1>11
\* The steps that end without a grant, by what they leave alone.
LEMMA LiveEnds ==
    ASSUME TypeOK, TypeOK', JobInv, RefreshKeepsBinding, Live, NEW p \in Goroutines,
           \/ Return(p) \/ RecordFailure(p) \/ RecordFailureFails(p) \/ RevokeFails(p)
           \/ RemoveFails(p) \/ ExchangeFails(p) \/ \E s \in Subjects : ExchangeLost(p, s)
    PROVE  Live'
<1>1. Done(p)
  BY DEF Return, RecordFailure, RecordFailureFails, RevokeFails, RemoveFails,
     ExchangeFails, ExchangeLost
<1>2. /\ pc'[p] = "idle" /\ job'[p] = None
      /\ \A q \in Goroutines \ {p} : pc'[q] = pc[q] /\ job'[q] = job[q]
  BY <1>1 DEF Done, Go, TypeOK
<1>3. ~(Granting(p) /\ Refreshing(p))
  BY DEF Granting, Refreshing, Return, NothingToDo, RefreshKeepsBinding, RecordFailure,
     RecordFailureFails, RevokeFails, RemoveFails, ExchangeFails, ExchangeLost, Exchanges
<1>4. \A u \in Users : /\ book'[u] = None <=> book[u] = None
                       /\ book[u] # None => /\ book'[u].subject = book[u].subject
                                            /\ book'[u].token = book[u].token
  <2>1. CASE RecordFailure(p)
    <3> DEFINE keep == book[job[p].user].perms /\ ~(job[p].answer = "refused")
    <3>1. job[p].user \in Users
      BY <2>1, JobOf DEF RecordFailure
    <3>2. book' = [book EXCEPT ![job[p].user].perms = keep] /\ book[job[p].user] # None
      BY <2>1 DEF RecordFailure
    <3> HIDE DEF keep
    <3>3. book[job[p].user] \in Binding
      BY <3>1, <3>2 DEF TypeOK, Books
    <3>4. /\ book'[job[p].user].subject = book[job[p].user].subject
          /\ book'[job[p].user].token = book[job[p].user].token
      BY <3>1, <3>2, <3>3 DEF TypeOK, Books, Binding
    <3>5. book'[job[p].user] # None
      <4>1. book'[job[p].user] = [book[job[p].user] EXCEPT !.perms = keep]
        BY <3>1, <3>2 DEF TypeOK, Books
      <4>2. keep \in BOOLEAN
        BY <3>3 DEF keep, Binding
      <4>3. [book[job[p].user] EXCEPT !.perms = keep] \in Binding
        BY <3>3, <4>2 DEF Binding
      <4> QED
        BY <4>1, <4>3, NoneIsNothing
    <3>6. \A v \in Users \ {job[p].user} : book'[v] = book[v]
      BY <3>2 DEF TypeOK, Books
    <3> QED
      BY <3>2, <3>4, <3>5, <3>6
  <2>2. CASE ~RecordFailure(p)
    <3>1. book' = book
      BY <2>2 DEF Return, RecordFailureFails, RevokeFails, RemoveFails, ExchangeFails,
         ExchangeLost, Exchanges, store
    <3> QED
      BY <3>1
  <2> QED
    BY <2>1, <2>2
<1>5. \A t \in Tokens : owner'[t] = owner[t] \/ IsNext(t)
  <2>1. CASE \E s \in Subjects : ExchangeLost(p, s)
    BY <2>1, IssuedOwner DEF ExchangeLost, TypeOK
  <2>2. CASE ~\E s \in Subjects : ExchangeLost(p, s)
    BY <2>2 DEF Return, RecordFailure, RecordFailureFails, RevokeFails, RemoveFails,
       ExchangeFails, provider
  <2> QED
    BY <2>1, <2>2
<1> QED
  BY <1>2, <1>3, <1>4, <1>5, LiveDone

\* The steps that touch neither a binding nor the provider's tokens.
LEMMA LiveTurns ==
    ASSUME TypeOK, JobInv, RefreshKeepsBinding, Live, NEW p \in Goroutines,
           \/ Accept(p) \/ StoreConflict(p) \/ RevokeUnstored(p)
           \/ Refused(p) \/ RefreshFails(p)
    PROVE  Live'
<1>1. \A q \in Goroutines \ {p} : pc'[q] = pc[q] /\ job'[q] = job[q]
  BY WorkFrame DEF Works, Answer
<1>2. book' = book /\ owner' = owner
  BY DEF Accept, StoreConflict, RevokeUnstored, Refused, RefreshFails, Answered, store,
     provider
<1>3. CASE Accept(p)
  <2>1. /\ pc[p] = "answered" /\ job[p].answer = "grant" /\ job' = job
        /\ pc'[p] = "storing"
    BY <1>3 DEF Accept, Go, TypeOK
  <2>2. Refreshing(p) /\ Refreshing(p)'
    BY <2>1 DEF JobInv, Knows, Refreshing
  <2> QED
    BY <1>1, <1>2, <2>1, <2>2, LiveSame DEF Granting
<1>4. CASE StoreConflict(p)
  <2>1. /\ pc[p] = "storing" /\ job' = job /\ pc'[p] = "unstored" /\ Conflict(p)
    BY <1>4 DEF StoreConflict, Go, TypeOK
  <2>2. job[p] \in Job /\ job[p].user \in Users /\ job[p].op \in {"login", "refresh", "sync"}
    BY <2>1, JobOf DEF JobInv, Knows, Job
  <2>3. ~Refreshing(p)
    <3> SUFFICES ASSUME Refreshing(p) PROVE FALSE
      OBVIOUS
    <3>1. book[job[p].user] # None /\ book[job[p].user].subject = Identity(p)
      BY <2>1 DEF RefreshKeepsBinding, StillBound, Refreshing
    <3>2. Identity(p) = job[p].subject
      BY <2>1 DEF Identity, JobInv, Knows
    <3> QED
      BY <2>1, <2>2, <3>1, <3>2 DEF Conflict, Live, Apart, IdentitiesApart
  <2>4. Absent(job[p].token)
    BY <2>1, <2>2, <2>3 DEF Live, Unsaved, Refreshing
  <2> QED
    BY <1>1, <1>2, <2>1, <2>3, <2>4, LiveSame DEF Granting
<1>5. CASE RevokeUnstored(p)
  <2>1. /\ pc[p] = "unstored" /\ job' = job /\ pc'[p] = "revoking" /\ ~InUse(p)
    BY <1>5 DEF RevokeUnstored, Go, TypeOK
  <2>2. Absent(job[p].token)
    BY <2>1 DEF Live, Unsaved
  <2> QED
    BY <1>1, <1>2, <2>1, <2>2, LiveSame DEF Granting
<1>6. CASE Refused(p) \/ RefreshFails(p)
  <2>1. PICK a \in {"refused", "failed"} : Presenting(p) /\ Answered(p, None, a)
    BY <1>6 DEF Refused, RefreshFails
  <2>2. /\ pc' = [pc EXCEPT ![p] = "answered"]
        /\ job' = [job EXCEPT ![p] = Told(job[p], Identity(p), None, a)]
    BY <2>1, NoneIsNothing, AnswerKnown
  <2>3. pc[p] = "locked" /\ pc'[p] = "answered"
        /\ job'[p].token = None /\ job'[p].answer # "grant"
    BY <2>1, <2>2 DEF Presenting, Told, TypeOK
  <2> QED
    BY <1>1, <1>2, <2>3, LiveSame DEF Granting
<1> QED
  BY <1>3, <1>4, <1>5, <1>6

LEMMA LiveGrants ==
    ASSUME TypeOK, JobInv, OneHolder, Live, NEW p \in Goroutines,
           \/ Granted(p) \/ GrantedUnrotated(p)
           \/ \E s \in Subjects : Exchange(p, s)
    PROVE  Live'
<1>1. \A q \in Goroutines \ {p} : pc'[q] = pc[q] /\ job'[q] = job[q]
  BY WorkFrame DEF Works, Answer, LoginStep
<1>2. CASE Granted(p)
  <2>1. PICK t \in Tokens : Presenting(p) /\ Replaced(p, t) /\ Answered(p, t, "grant")
    BY <1>2 DEF Granted
  <2>2. PICK u \in Users, s \in Subjects, x \in Tokens :
          /\ u = job[p].user /\ s = Identity(p) /\ x = Presented(p) /\ x = book[u].token
          /\ book[u] # None /\ pc[p] = "locked" /\ Refreshing(p) /\ job[p] \in Job
    BY <2>1, PresentsStored DEF Refreshing
  <2>3. /\ IsNext(t) /\ x # t
        /\ owner' = [owner EXCEPT ![t] = s, ![x] = None]
    BY <2>1, <2>2, ReplacedOwner
  <2>4. owner'[t] = s /\ \A y \in Tokens \ {t} : y # book[u].token => owner'[y] = owner[y]
    BY <2>2, <2>3 DEF TypeOK
  <2>5. /\ pc' = [pc EXCEPT ![p] = "answered"]
        /\ job' = [job EXCEPT ![p] = Told(job[p], s, t, "grant")]
        /\ job' \in [Goroutines -> Job \union {None}]
    BY <2>1, <2>2, NoneIsNothing, AnswerKnown
  <2>6. /\ pc'[p] = "answered"
        /\ job'[p] = Told(job[p], s, t, "grant")
    BY <2>5 DEF TypeOK
  <2>7. /\ job'[p].subject = s /\ job'[p].token = t /\ job'[p].answer = "grant"
        /\ job'[p].op = job[p].op /\ job'[p].user = u
    BY <2>2, <2>6 DEF Told
  <2>8. job'[p] # None
    BY <1>2, <2>6, BasicAnswer DEF Answer, JobInv, Knows
  <2>9. book' = book
    BY <2>1 DEF Answered, store
  <2>10. /\ pc'[p] = "answered" /\ Refreshing(p) /\ book[u] # None
         /\ \A y \in Tokens \ {t} : y # book[u].token => owner'[y] = owner[y]
    BY <2>2, <2>4, <2>6
  <2>11. owner'[t] = s /\ pc[p] = "locked" /\ u = job[p].user
    BY <2>2, <2>4
  <2>12. IsNext(t)
    BY <2>3
  <2> QED
    BY <1>1, <2>7, <2>8, <2>9, <2>10, <2>11, <2>12, LiveGranted
<1>3. CASE GrantedUnrotated(p)
  <2>1. /\ Presenting(p) /\ Known(p) /\ Answered(p, Presented(p), "grant")
        /\ owner' = owner
    BY <1>3 DEF GrantedUnrotated
  <2>2. PICK u \in Users, s \in Subjects, t \in Tokens :
          /\ u = job[p].user /\ s = Identity(p) /\ t = Presented(p) /\ t = book[u].token
          /\ book[u] # None /\ pc[p] = "locked" /\ job[p] \in Job
    BY <2>1, PresentsStored
  <2>3. owner[t] = s
    BY <2>1, <2>2 DEF Known
  <2>4. /\ pc' = [pc EXCEPT ![p] = "answered"]
        /\ job' = [job EXCEPT ![p] = Told(job[p], s, t, "grant")]
    BY <2>1, <2>2, NoneIsNothing, AnswerKnown
  <2>5. /\ pc'[p] = "answered" /\ job'[p] = Told(job[p], s, t, "grant")
    BY <2>4 DEF TypeOK
  <2>6. job'[p].subject = s /\ job'[p].token = t /\ job'[p].user = u
    BY <2>2, <2>5 DEF Told
  <2>7. book' = book
    BY <2>1 DEF Answered, store
  <2> QED
    BY <1>1, <2>1, <2>2, <2>3, <2>5, <2>6, <2>7, LiveUnrotated
<1>4. CASE \E s \in Subjects : Exchange(p, s)
  <2>1. PICK s \in Subjects, t \in Tokens :
          /\ Exchanges(p) /\ Issue(s, t) /\ Go(p, "storing")
          /\ job' = WithAnswer(p, s, t, "grant")
    BY <1>4 DEF Exchange, WithAnswer
  <2>2. /\ pc' = [pc EXCEPT ![p] = "storing"]
        /\ job' = [job EXCEPT ![p] = Told(job[p], s, t, "grant")]
    BY <2>1, GrantKnown
  <2>3. PICK u \in Users : u = job[p].user /\ pc[p] = "locked" /\ job[p].op = "login"
    BY <2>1, JobOf DEF Exchanges
  <2>4. /\ pc'[p] = "storing" /\ job'[p] = Told(job[p], s, t, "grant")
    BY <2>2 DEF TypeOK
  <2>5. /\ job'[p].subject = s /\ job'[p].token = t /\ job'[p].answer = "grant"
        /\ job'[p].op = job[p].op /\ job'[p].user = u
    BY <2>3, <2>4 DEF Told
  <2>6. job'[p] # None
    BY <1>4, <2>4, BasicLogin DEF LoginStep, JobInv, Knows
  <2>7. IsNext(t) /\ owner' = [owner EXCEPT ![t] = s]
    BY <2>1, IssuedOwner
  <2>8. owner'[t] = s /\ \A y \in Tokens \ {t} : owner'[y] = owner[y]
    BY <2>7 DEF TypeOK
  <2>9. book' = book /\ ~Refreshing(p)
    BY <2>1, <2>3 DEF Exchanges, store, Refreshing
  <2> QED
    BY <1>1, <2>3, <2>4, <2>5, <2>6, <2>7, <2>8, <2>9, LiveGranted
<1> QED
  BY <1>2, <1>3, <1>4

LEMMA LiveWrites ==
    ASSUME TypeOK, TypeOK', JobInv, OneHolder, Live, NEW p \in Goroutines,
           Store(p) \/ StoreFails(p) \/ Revoke(p) \/ Remove(p)
    PROVE  Live'
<1>1. \A q \in Goroutines \ {p} : pc'[q] = pc[q] /\ job'[q] = job[q]
  BY WorkFrame DEF Works
<1>2. CASE Store(p) \/ StoreFails(p)
  <2>1. PutInMemory(p) /\ owner' = owner
    BY <1>2 DEF Store, StoreFails, provider
  <2>2. PICK b \in Binding, u \in Users :
          /\ u = job[p].user /\ pc[p] = "storing" /\ ~Conflict(p)
          /\ b.subject = job[p].subject /\ b.token = job[p].token
          /\ book' = [book EXCEPT ![u] = b]
    BY <2>1, PutKnown
  <2>3. \/ pc'[p] = "idle" /\ job'[p] = None
        \/ pc'[p] = "unstored" /\ job'[p] = job[p]
    BY <1>2 DEF Store, StoreFails, Done, Go, TypeOK
  <2> QED
    BY <1>1, <2>1, <2>2, <2>3, LivePut
<1>3. CASE Revoke(p)
  <2>1. /\ pc[p] = "revoking" /\ book' = book
        /\ owner' = [owner EXCEPT ![job[p].token] = None]
        /\ pc'[p] = "idle" /\ job'[p] = None
    BY <1>3 DEF Revoke, Done, Go, store, TypeOK
  <2> QED
    BY <1>1, <2>1, LiveRevoked
<1>4. CASE Remove(p)
  <2>1. pc[p] = "locked" /\ book[job[p].user] # None /\ owner' = owner
    BY <1>4 DEF Remove, provider
  <2>2. PICK u \in Users : u = job[p].user
    BY <2>1, JobOf
  <2>3. PICK t \in Tokens : t = book[u].token
    BY <2>1, <2>2, BindingOf
  <2>4. book' = [book EXCEPT ![u] = None]
    BY <1>4, <2>2 DEF Remove
  <2>5. /\ pc' = [pc EXCEPT ![p] = "revoking"]
        /\ job' = [job EXCEPT ![p] = Told(job[p], book[u].subject, t, job[p].answer)]
    BY <1>4, <2>2, <2>3, RemovalKnown
  <2>6. pc'[p] = "revoking" /\ job'[p].token = t
    BY <2>5 DEF Told, TypeOK
  <2> QED
    BY <1>1, <2>1, <2>2, <2>3, <2>4, <2>6, LiveRemoved
<1> QED
  BY <1>2, <1>3, <1>4

LEMMA LiveStep ==
    TypeOK /\ JobInv /\ OneHolder /\ RefreshKeepsBinding /\ LiveInv /\ [Next]_vars
        => LiveInv'
<1> SUFFICES ASSUME TypeOK, JobInv, OneHolder, RefreshKeepsBinding, LiveInv, [Next]_vars,
                    happened' \subseteq {"stray"}
             PROVE  Live'
  BY DEF LiveInv
<1>1. TypeOK' /\ Live /\ ~Restart
  BY Undisturbed, BasicStep DEF LiveInv
<1>2. ASSUME NEW p \in Goroutines, Begins(p)
      PROVE  Live'
  <2>1. /\ pc[p] = "idle" /\ pc'[p] = "waiting" /\ book' = book /\ owner' = owner
        /\ job'[p] # None => job'[p].token = None
        /\ \A q \in Goroutines \ {p} : pc'[q] = pc[q] /\ job'[q] = job[q]
    BY <1>2, StartFrame DEF store, provider
  <2> QED
    BY <1>1, <2>1, LiveSame DEF Granting
<1>3. ASSUME NEW p \in Goroutines, Lock(p)
      PROVE  Live'
  <2>1. /\ pc[p] = "waiting" /\ pc'[p] = "locked" /\ job' = job
        /\ book' = book /\ owner' = owner
        /\ \A q \in Goroutines \ {p} : pc'[q] = pc[q]
    BY <1>3, LockedFrame DEF store, provider
  <2> QED
    BY <1>1, <2>1, LiveSame DEF Granting
<1>4. ASSUME NEW p \in Goroutines, Works(p)
      PROVE  Live'
  <2>1. ~RefusedAfterRotation(p) /\ ~RefreshLost(p)
    BY Undisturbed
  <2> QED
    BY <1>1, <1>4, <2>1, LiveEnds, LiveTurns, LiveGrants, LiveWrites
       DEF Works, Answer, LoginStep
<1>5. CASE Quiet \/ UNCHANGED vars
  BY <1>1, <1>5, QuietFrame DEF Live, Apart, IdentitiesApart, BooksApart, JobsApart,
     OwnToken, GrantsLive, Unsaved, BookLive, Carries, Granting, Refreshing, Holds,
     Absent, InUse
<1> QED
  BY <1>1, <1>2, <1>3, <1>4, <1>5, Steps
-----------------------------------------------------------------------------
(* Nothing at all happened: no live token is without a keeper.             *)

\* A token that p issues is carried by p.
LEMMA IssuedIsCarried ==
    ASSUME TypeOK, JobInv, NEW p \in Goroutines, Works(p), happened' = {},
           NEW t \in Tokens, owner'[t] # None, owner'[t] # owner[t]
    PROVE  Carries(p, t)'
<1>1. CASE Answer(p)
  <2>1. ~RefusedAfterRotation(p) /\ ~RefreshLost(p)
    BY DEF RefusedAfterRotation, RefreshLost, Happens
  <2>2. Granted(p)
    BY <1>1, <2>1 DEF Answer, GrantedUnrotated, Refused, RefreshFails
  <2>3. PICK r \in Tokens : Presenting(p) /\ Replaced(p, r) /\ Answered(p, r, "grant")
    BY <2>2 DEF Granted
  <2>4. PICK s \in Subjects : s = Identity(p)
    BY <2>3, PresentsStored
  <2>5. job' = [job EXCEPT ![p] = Told(job[p], s, r, "grant")]
    BY <2>3, <2>4, NoneIsNothing, AnswerKnown
  <2>6. job'[p] = Told(job[p], s, r, "grant") /\ pc'[p] = "answered"
    BY <2>3, <2>5 DEF Answered, Go, TypeOK
  <2>7. job'[p] # None
    BY <1>1, <2>6, BasicAnswer DEF JobInv, Knows
  <2>8. /\ owner' = [owner EXCEPT ![r] = Identity(p), ![Presented(p)] = None]
        /\ Presented(p) # r /\ Presented(p) \in Tokens
    BY <2>3, ReplacedOwner, PresentsStored
  <2>9. t = r
    BY <2>8 DEF TypeOK
  <2> QED
    BY <2>6, <2>7, <2>9 DEF Carries, Told
<1>2. CASE LoginStep(p)
  <2>1. \E s \in Subjects : Exchange(p, s)
    BY <1>2 DEF LoginStep, ExchangeLost, ExchangeFails, Happens
  <2>2. PICK s \in Subjects, r \in Tokens :
          /\ Exchanges(p) /\ Issue(s, r) /\ Go(p, "storing")
          /\ job' = WithAnswer(p, s, r, "grant")
    BY <2>1 DEF Exchange, WithAnswer
  <2>3. job' = [job EXCEPT ![p] = Told(job[p], s, r, "grant")]
    BY <2>2, GrantKnown
  <2>4. job'[p] = Told(job[p], s, r, "grant") /\ pc'[p] = "storing"
    BY <2>2, <2>3 DEF Go, TypeOK
  <2>5. job'[p] # None
    BY <1>2, <2>4, BasicLogin DEF JobInv, Knows
  <2>6. t = r
    BY <2>2, IssuedOwner DEF TypeOK
  <2> QED
    BY <2>4, <2>5, <2>6 DEF Carries, Told
<1>3. CASE Revoke(p)
  BY <1>3 DEF Revoke, TypeOK
<1> QED
  BY <1>1, <1>2, <1>3 DEF Works, Accept, StoreConflict, RevokeUnstored, Return,
     RecordFailure, RecordFailureFails, Store, StoreFails, RevokeFails, Remove,
     RemoveFails, provider

\* What p carried it still carries, has stored, or has revoked.
LEMMA CarriedIsKept ==
    ASSUME TypeOK, JobInv, RefreshKeepsBinding, NEW p \in Goroutines, Works(p),
           happened' = {},
           NEW t \in Tokens, Carries(p, t), owner'[t] # None
    PROVE  IsKept(t)'
<1>1. pc[p] \in {"answered", "storing", "unstored", "revoking"}
  BY CarriesHolds DEF TypeOK, Stages
<1>2. job[p] # None /\ job[p].token = t /\ t # None
  BY NoneIsNothing DEF Carries
<1>3. job[p] \in Job /\ job[p].user \in Users
  BY <1>1, JobOf
<1>4. CASE job' = job
  BY <1>2, <1>4 DEF IsKept, Absent, Carries
<1>5. pc[p] = "answered" => job[p].answer = "grant" /\ Refreshing(p)
  BY <1>2 DEF JobInv, Knows, Refreshing
<1>6. CASE Return(p)
  <2>1. pc[p] = "unstored" /\ InUse(p) /\ book' = book
    BY <1>1, <1>5, <1>6 DEF Return, NothingToDo, RefreshKeepsBinding, Refreshing, store
  <2> QED
    BY <1>2, <1>3, <2>1 DEF InUse, IsKept, Absent
<1>7. CASE Store(p)
  <2>1. PutInMemory(p)
    BY <1>7 DEF Store
  <2>2. PICK b \in Binding :
          b.token = job[p].token /\ book' = [book EXCEPT ![job[p].user] = b]
    BY <2>1, PutKnown
  <2>3. book'[job[p].user] = b /\ b # None
    BY <1>3, <2>2, NoneIsNothing DEF TypeOK, Books
  <2> QED
    BY <1>2, <1>3, <2>2, <2>3 DEF IsKept, Absent
<1>8. CASE Revoke(p)
  BY <1>2, <1>8 DEF Revoke, TypeOK
<1>9. ~RevokeFails(p)
  BY DEF RevokeFails, Happens
<1>10. ~Answer(p) /\ ~LoginStep(p) /\ ~Remove(p) /\ ~RemoveFails(p)
  BY <1>1, AnswerGiven DEF Presenting, LoginStep, Exchange, ExchangeLost, ExchangeFails,
     Exchanges, Remove, RemoveFails
<1>11. ~RecordFailure(p) /\ ~RecordFailureFails(p)
  BY <1>5 DEF RecordFailure, RecordFailureFails
<1> QED
  BY <1>4, <1>6, <1>7, <1>8, <1>9, <1>10, <1>11 DEF Works, Accept, StoreConflict,
     RevokeUnstored, StoreFails

\* What a binding holds it still holds, unless the token is dead or carried.
LEMMA BoundIsKept ==
    ASSUME TypeOK, JobInv, RotatedInv, NEW p \in Goroutines, Works(p), happened' = {},
           NEW u \in Users, book[u] # None, NEW t \in Tokens, t = book[u].token,
           owner[t] # None
    PROVE  IsKept(t)'
<1>1. CASE book'[u] # None /\ book'[u].token = t
  BY <1>1 DEF IsKept, Absent
<1>2. CASE u # job[p].user
  BY <1>1, <1>2, BookFrame
<1>3. CASE u = job[p].user /\ (Store(p) \/ StoreFails(p))
  <2>1. PutInMemory(p)
    BY <1>3 DEF Store, StoreFails
  <2>2. PICK b \in Binding :
          /\ pc[p] = "storing"
          /\ b.token = job[p].token /\ book' = [book EXCEPT ![job[p].user] = b]
    BY <2>1, PutKnown
  <2>3. job[p].op # "login"
    BY <1>3, <2>1 DEF PutInMemory
  <2>4. Refreshing(p) /\ Granting(p)
    BY <2>2, <2>3, JobOf DEF JobInv, Knows, Job, Refreshing, Granting
  <2>5. job[p].token = t
    BY <1>3, <2>4 DEF RotatedInv
  <2>6. book'[u] = b /\ b # None
    BY <1>3, <2>2, NoneIsNothing DEF TypeOK, Books
  <2> QED
    BY <1>1, <2>2, <2>5, <2>6
<1>4. CASE u = job[p].user /\ Remove(p)
  <2>1. PICK s \in Subjects : s = book[u].subject
    BY BindingOf
  <2>2. /\ pc' = [pc EXCEPT ![p] = "revoking"]
        /\ job' = [job EXCEPT ![p] = Told(job[p], s, t, job[p].answer)]
        /\ JobInv'
    BY <1>4, <2>1, RemovalKnown
  <2>3. pc'[p] = "revoking" /\ job'[p].token = t /\ job'[p] # None
    BY <2>2 DEF Told, TypeOK, JobInv, Knows
  <2> QED
    BY <2>3 DEF IsKept, Absent, Carries
<1>5. CASE u = job[p].user /\ RecordFailure(p)
  <2> DEFINE keep == book[u].perms /\ ~(job[p].answer = "refused")
  <2>1. book' = [book EXCEPT ![u].perms = keep]
    BY <1>5 DEF RecordFailure
  <2>2. book[u] \in Binding /\ keep \in BOOLEAN
    BY DEF TypeOK, Books, Binding
  <2> HIDE DEF keep
  <2>3. book'[u] \in Binding /\ book'[u].token = t
    BY <2>1, <2>2 DEF TypeOK, Books, Binding
  <2> QED
    BY <1>1, <2>3, NoneIsNothing
<1>6. CASE book' = book
  BY <1>1, <1>6
<1>7. CASE Answer(p)
  BY <1>6, <1>7, AnswerGiven DEF Answered, store
<1> QED
  BY <1>2, <1>3, <1>4, <1>5, <1>6, <1>7 DEF Works, Accept, StoreConflict,
     RevokeUnstored, Return, RecordFailureFails, LoginStep, Exchange, ExchangeLost,
     ExchangeFails, Exchanges, Revoke, RevokeFails, RemoveFails, store

LEMMA StrayStep ==
    /\ TypeOK /\ JobInv /\ OneHolder /\ RefreshKeepsBinding /\ RotatedInv
    /\ StrayInv
    /\ [Next]_vars
    => StrayInv'
<1> SUFFICES ASSUME TypeOK, JobInv, OneHolder, RefreshKeepsBinding, RotatedInv, StrayInv,
                    [Next]_vars, happened' = {},
                    NEW t \in Tokens, owner'[t] # None
             PROVE  IsKept(t)'
  BY DEF StrayInv
<1>1. happened = {} /\ ~Restart
  BY Undisturbed
<1>2. owner[t] # None => IsKept(t)
  BY <1>1 DEF StrayInv
<1>3. ASSUME NEW p \in Goroutines, Begins(p)
      PROVE  IsKept(t)'
  <2>1. /\ pc[p] = "idle" /\ book' = book /\ owner' = owner
        /\ \A q \in Goroutines \ {p} : pc'[q] = pc[q] /\ job'[q] = job[q]
    BY <1>3, StartFrame DEF store, provider
  <2>2. ~Carries(p, t)
    BY <2>1, CarriesHolds
  <2> QED
    BY <1>2, <2>1, <2>2 DEF IsKept, Absent, Carries
<1>4. ASSUME NEW p \in Goroutines, Lock(p)
      PROVE  IsKept(t)'
  BY <1>2, <1>4, LockedFrame DEF IsKept, Absent, Carries, store, provider
<1>5. ASSUME NEW p \in Goroutines, Works(p)
      PROVE  IsKept(t)'
  <2>1. CASE owner'[t] # owner[t]
    BY <1>5, <2>1, IssuedIsCarried DEF IsKept, Absent
  <2>2. CASE owner'[t] = owner[t]
    <3>1. ASSUME NEW u \in Users, book[u] # None, book[u].token = t
          PROVE  IsKept(t)'
      BY <1>5, <2>2, <3>1, BoundIsKept
    <3>2. ASSUME NEW q \in Goroutines, q # p, Carries(q, t)
          PROVE  IsKept(t)'
      BY <1>5, <3>2, WorkFrame DEF IsKept, Absent, Carries
    <3>3. CASE Carries(p, t)
      BY <1>5, <3>3, CarriedIsKept
    <3> QED
      BY <1>2, <2>2, <3>1, <3>2, <3>3 DEF IsKept, Absent
  <2> QED
    BY <2>1, <2>2
<1>6. CASE Quiet \/ UNCHANGED vars
  BY <1>2, <1>6, QuietFrame DEF IsKept, Absent, Carries
<1> QED
  BY <1>1, <1>3, <1>4, <1>5, <1>6, Steps

-----------------------------------------------------------------------------
(* The theorems.                                                           *)

ServiceInv ==
    /\ TypeOK /\ JobInv /\ OneHolder /\ RefreshKeepsBinding /\ UnbindInv
    /\ RotatedInv /\ LiveInv /\ StrayInv

LEMMA ServiceInit == Init => ServiceInv
<1> SUFFICES ASSUME Init PROVE ServiceInv
  OBVIOUS
<1>1. TypeOK /\ JobInv
  BY BasicInit
<1>2. OneHolder /\ RefreshKeepsBinding /\ UnbindInv /\ RotatedInv
  BY DEF Init, OneHolder, Holds, RefreshKeepsBinding, UnbindInv, RotatedInv, Granting
<1>3. Live
  BY DEF Init, Live, Apart, IdentitiesApart, BooksApart, JobsApart, OwnToken, GrantsLive,
     Unsaved, BookLive, Carries, Granting
<1>4. StrayInv
  BY DEF Init, StrayInv
<1> QED
  BY <1>1, <1>2, <1>3, <1>4 DEF ServiceInv, LiveInv

LEMMA ServiceStep == ServiceInv /\ [Next]_vars => ServiceInv'
BY BasicStep, OneHolderStep, KeepStep, UnbindStep, RotatedStep, LiveStep, StrayStep
   DEF ServiceInv

LEMMA ServiceInvariant == Spec => []ServiceInv
BY ServiceInit, ServiceStep, PTL DEF Spec

\* Every variable of the service always holds a value of its kind.
THEOREM ServiceTypeCorrect == Spec => []TypeOK
BY ServiceInvariant, PTL DEF ServiceInv

\* However handlers, callbacks and sweep workers overlap, and wherever saves
\* fail, a refresh finds its user bound to the identity it refreshes until its
\* outcome is stored: refreshOne never drops a grant.
THEOREM RefreshKeepsBindingAlways == Spec => []RefreshKeepsBinding
BY ServiceInvariant, PTL DEF ServiceInv

\* After an unbind is acknowledged nothing but a new login brings the binding
\* or its permissions back: no refresh or sweep under way, no failing save, and
\* no restart.
THEOREM UnbindWinsAlways == Spec => []UnbindWins
<1>1. ServiceInv => UnbindWins
  BY UnbindMeans DEF ServiceInv
<1> QED
  BY <1>1, ServiceInvariant, PTL

\* Unless an answer was lost, access was refused half-way or the process
\* restarted, the service holds the token that lives for every account that no
\* goroutine works on.
THEOREM TokenStaysLiveAlways == Spec => []TokenStaysLive
<1>1. ServiceInv => TokenStaysLive
  BY DEF ServiceInv, LiveInv, Live, BookLive, TokenStaysLive
<1> QED
  BY <1>1, ServiceInvariant, PTL

\* As long as nothing is lost, no token lives at the provider that the service
\* does not hold once all is quiet.
THEOREM NoStrayTokenAlways == Spec => []NoStrayToken
<1>1. ServiceInv => NoStrayToken
  <2> SUFFICES ASSUME ServiceInv, happened = {},
                      \A p \in Goroutines : pc[p] = "idle",
                      NEW t \in Tokens, owner[t] # None
               PROVE  \E u \in Users : book[u] # None /\ book[u].token = t
    BY DEF NoStrayToken
  <2>1. \A p \in Goroutines : ~Carries(p, t)
    BY CarriesHolds DEF ServiceInv
  <2> QED
    BY <2>1 DEF ServiceInv, StrayInv, IsKept, Absent
<1> QED
  BY <1>1, ServiceInvariant, PTL

\* At most one goroutine works for a user at a time.
THEOREM OneAtATime == Spec => []OneHolder
BY ServiceInvariant, PTL DEF ServiceInv
=============================================================================
