------------------------- MODULE BindingStoreProofs -------------------------
(***************************************************************************)
(* What holds of the binding store for any number of users, identities,    *)
(* permissions, tokens and failures.                                       *)
(***************************************************************************)
EXTENDS BindingStore, TLAPS

\* The bindings in memory, with the one that a remove has taken out but not
\* yet made durable: remove puts it back when its save fails.
Held ==
    IF pc = "remove_save" THEN [bindings EXCEPT ![arg.user] = arg.item]
                          ELSE bindings

\* An operation in progress knows its user: put and remove set arg before they
\* leave "idle".
ArgOK ==
    pc \in {"put_save", "put_clear", "put_fallback", "remove_save"} =>
        arg \in WALFile

\* A put in progress has its binding in memory; a remove in progress has
\* already cleared what could restore its user.
PendingInv ==
    /\ pc \in {"put_save", "put_clear", "put_fallback"} =>
           bindings[arg.user] # NoBinding
    /\ pc = "remove_save" =>
           /\ bindings[arg.user] = NoBinding
           /\ acked[arg.user] # NoBinding
           /\ wal # NoWAL => wal.user # arg.user

\* a's bindings are bindings of b too, of the same users to the same
\* identities.  Tokens and permissions may differ.
Covers(b, a) ==
    \A u \in Users : a[u] # NoBinding =>
        b[u] # NoBinding /\ b[u].subject = a[u].subject

\* The files agree on the identity of a user that both hold and, while the
\* process is up, hold no user and no identity that the memory does not hold.
FilesInv ==
    /\ Covers(Recovered, main)
    /\ pc # "down" => Covers(Held, main) /\ Covers(Held, Recovered)

IdentityInv ==
    /\ DistinctIdentities(main)
    /\ DistinctIdentities(Recovered)
    /\ DistinctIdentities(Held)

RemovedInv ==
    \A u \in Users : acked[u] = NoBinding =>
        main[u] = NoBinding /\ Recovered[u] = NoBinding /\ Held[u] = NoBinding

GrantsInv ==
    /\ pc = "down" => federated = NoGrants
    /\ \A u \in Users : federated[u] # {} => Held[u] # NoBinding

IInv ==
    /\ TypeOK /\ ArgOK
    /\ PendingInv /\ FilesInv /\ IdentityInv /\ RemovedInv /\ GrantsInv

-----------------------------------------------------------------------------
(* Types.                                                                  *)

\* What putBinding stores is a binding, and its token is one that was issued.
LEMMA PutInMemoryType ==
    ASSUME TypeOK, NEW u \in Users, NEW item \in Binding, PutInMemory(u, item)
    PROVE  /\ bindings' \in Books
           /\ arg' \in WALFile
           /\ issued' \in 0..MaxTokens
           /\ newest' \in [Users -> 0..MaxTokens]
           /\ acked' \in [Users -> Binding \union {NoBinding, Unsettled}]
<1>1. item.token \in 1..MaxTokens /\ item.token \in 0..MaxTokens
  BY BoundsAssumption DEF Binding
<1>2. issued' \in 0..MaxTokens
  BY <1>1 DEF PutInMemory, GrantToken, TypeOK
<1>3. newest' \in [Users -> 0..MaxTokens]
  BY <1>1 DEF PutInMemory, TypeOK
<1> QED
  BY <1>2, <1>3 DEF PutInMemory, TypeOK, Books, WALFile

LEMMA GrantsOfType ==
    ASSUME NEW book \in Books
    PROVE  GrantsOf(book) \in [Users -> SUBSET Perms]
BY DEF GrantsOf, PermsOf, Books, Binding

LEMMA RecoveredType ==
    ASSUME main \in Books, wal \in WALFile \union {NoWAL}
    PROVE  Recovered \in Books
BY DEF Recovered, Overlay, Books, WALFile

LEMMA FaultType ==
    ASSUME TypeOK, Fault
    PROVE  faults' \in 0..MaxFaults
BY BoundsAssumption DEF TypeOK, Fault

LEMMA TypeInit == Init => TypeOK
BY BoundsAssumption DEF Init, TypeOK, Unbound, NoGrants, Books, Stages

LEMMA TypeStep == TypeOK /\ ArgOK /\ [Next]_vars => TypeOK' /\ ArgOK'
<1> SUFFICES ASSUME TypeOK, ArgOK, [Next]_vars
             PROVE  TypeOK' /\ ArgOK'
  OBVIOUS
<1>1. CASE Load
  <2>1. federated' \in [Users -> SUBSET Perms]
    BY <1>1, GrantsOfType DEF Load, TypeOK
  <2> QED
    BY <1>1, <2>1 DEF Load, Ready, TypeOK, ArgOK, Stages
<1>2. CASE LoadAndApplyWAL
  BY <1>2, RecoveredType DEF LoadAndApplyWAL, TypeOK, ArgOK, Stages
<1>3. CASE ReplaySave
  BY <1>3 DEF ReplaySave, TypeOK, ArgOK, Stages
<1>4. CASE ReplayClearWAL
  <2>1. federated' \in [Users -> SUBSET Perms]
    BY <1>4, GrantsOfType DEF ReplayClearWAL, TypeOK
  <2> QED
    BY <1>4, <2>1 DEF ReplayClearWAL, Ready, TypeOK, ArgOK, Stages
<1>5. CASE ReplayFails
  BY <1>5, FaultType DEF ReplayFails, Exit, Unbound, NoGrants, TypeOK, ArgOK, Stages, Books
<1>6. ASSUME NEW u \in Users, NEW item \in Binding, PutWriteWAL(u, item)
      PROVE  TypeOK' /\ ArgOK'
  <2>1. PutInMemory(u, item) /\ wal' \in WALFile
    BY <1>6 DEF PutWriteWAL, WALFile
  <2> QED
    BY <1>6, <2>1, PutInMemoryType DEF PutWriteWAL, TypeOK, ArgOK, Stages
<1>7. ASSUME NEW u \in Users, NEW item \in Binding, PutWALFails(u, item)
      PROVE  TypeOK' /\ ArgOK'
  <2>1. PutInMemory(u, item) /\ faults' \in 0..MaxFaults
    BY <1>7, FaultType DEF PutWALFails
  <2> QED
    BY <1>7, <2>1, PutInMemoryType DEF PutWALFails, TypeOK, ArgOK, Stages
<1>8. CASE PutSave
  BY <1>8 DEF PutSave, TypeOK, ArgOK, Stages
<1>9. CASE PutSaveFails
  BY <1>9, FaultType DEF PutSaveFails, Ready, TypeOK, ArgOK, Stages
<1>10. ASSUME arg \in WALFile, ReplaceFederated(arg.user), Acknowledge(arg.user)
       PROVE  /\ federated' \in [Users -> SUBSET Perms]
              /\ acked' \in [Users -> Binding \union {NoBinding, Unsettled}]
  BY <1>10 DEF ReplaceFederated, Acknowledge, PermsOf, TypeOK, WALFile, Books, Binding
<1>11. CASE PutClearWAL
  <2>1. arg \in WALFile
    BY <1>11 DEF PutClearWAL, ArgOK
  <2> QED
    BY <1>10, <1>11, <2>1 DEF PutClearWAL, Ready, TypeOK, ArgOK, Stages
<1>12. CASE PutClearWALFails
  BY <1>12, FaultType DEF PutClearWALFails, Ready, TypeOK, ArgOK, Stages
<1>13. CASE PutFallbackSave
  <2>1. arg \in WALFile
    BY <1>13 DEF PutFallbackSave, ArgOK
  <2> QED
    BY <1>10, <1>13, <2>1 DEF PutFallbackSave, Ready, TypeOK, ArgOK, Stages
<1>14. CASE PutFallbackSaveFails
  <2>1. arg \in WALFile /\ faults' \in 0..MaxFaults
    BY <1>14, FaultType DEF PutFallbackSaveFails, ArgOK
  <2>2. federated' \in [Users -> SUBSET Perms]
    BY <1>14, <2>1 DEF PutFallbackSaveFails, ReplaceFederated, PermsOf, TypeOK, WALFile, Books, Binding
  <2> QED
    BY <1>14, <2>1, <2>2 DEF PutFallbackSaveFails, Ready, TypeOK, ArgOK, Stages
<1>15. ASSUME NEW u \in Users, Remove(u)
       PROVE  TypeOK' /\ ArgOK'
  <2>1. bindings[u] \in Binding /\ arg' \in WALFile
    BY <1>15 DEF Remove, TypeOK, Books, WALFile
  <2>2. bindings' \in Books
    BY <1>15 DEF Remove, TypeOK, Books
  <2>3. wal' \in WALFile \union {NoWAL}
    BY <1>15 DEF Remove, ClearWALMatching, TypeOK
  <2> QED
    BY <1>15, <2>1, <2>2, <2>3 DEF Remove, TypeOK, ArgOK, Stages
<1>16. ASSUME NEW u \in Users, RemoveClearWALFails(u)
       PROVE  TypeOK' /\ ArgOK'
  BY <1>16, FaultType DEF RemoveClearWALFails, TypeOK, ArgOK
<1>17. CASE RemoveSave
  <2>1. arg \in WALFile
    BY <1>17 DEF RemoveSave, ArgOK
  <2>2. acked' \in [Users -> Binding \union {NoBinding, Unsettled}]
    BY <1>17, <2>1 DEF RemoveSave, Acknowledge, TypeOK, WALFile, Books
  <2>3. newest' \in [Users -> 0..MaxTokens]
    <3>1. newest' = [newest EXCEPT ![arg.user] = 0] /\ newest \in [Users -> 0..MaxTokens]
      BY <1>17 DEF RemoveSave, TypeOK
    <3>2. 0 \in 0..MaxTokens
      BY BoundsAssumption
    <3> QED BY <3>1, <3>2
  <2> QED
    BY <1>17, <2>1, <2>2, <2>3 DEF RemoveSave, Ready, TypeOK, ArgOK, Stages
<1>18. CASE RemoveSaveFails
  <2>1. arg \in WALFile /\ faults' \in 0..MaxFaults
    BY <1>18, FaultType DEF RemoveSaveFails, ArgOK
  <2>2. bindings' \in Books
    BY <1>18, <2>1 DEF RemoveSaveFails, TypeOK, WALFile, Books
  <2> QED
    BY <1>18, <2>1, <2>2 DEF RemoveSaveFails, Ready, TypeOK, ArgOK, Stages
<1>19. ASSUME NEW u \in Users, RecordDenial(u)
       PROVE  TypeOK' /\ ArgOK'
  <2>1. [bindings[u] EXCEPT !.perms = {}] \in Binding
    BY <1>19 DEF RecordDenial, TypeOK, Books, Binding
  <2> QED
    BY <1>19, <2>1 DEF RecordDenial, TypeOK, ArgOK, Books
<1>20. CASE SaveStore
  BY <1>20 DEF SaveStore, TypeOK, ArgOK
<1>21. CASE SaveFails
  BY <1>21, FaultType DEF SaveFails, TypeOK, ArgOK
<1>22. CASE Crash
  <2>1. newest' \in [Users -> 0..MaxTokens]
    BY <1>22, BoundsAssumption DEF Crash, TypeOK
  <2> QED
    BY <1>22, <2>1 DEF Crash, Exit, Unbound, NoGrants, TypeOK, ArgOK, Stages, Books
<1>23. CASE UNCHANGED vars
  BY <1>23 DEF vars, TypeOK, ArgOK
<1> QED
  BY <1>1, <1>2, <1>3, <1>4, <1>5, <1>6, <1>7, <1>8, <1>9, <1>11, <1>12, <1>13,
     <1>14, <1>15, <1>16, <1>17, <1>18, <1>19, <1>20, <1>21, <1>22, <1>23
     DEF Next, Put

LEMMA TypeInvariant == Spec => [](TypeOK /\ ArgOK)
<1>1. Init => TypeOK /\ ArgOK
  BY TypeInit DEF Init, ArgOK
<1> QED
  BY <1>1, TypeStep, PTL DEF Spec

\* Every variable of the store always holds a value of its kind.
THEOREM TypeCorrect == Spec => []TypeOK
BY TypeInvariant, PTL

-----------------------------------------------------------------------------
(* The invariant.                                                          *)

LEMMA CoversDistinct ==
    ASSUME NEW a, NEW b, DistinctIdentities(b), Covers(b, a)
    PROVE  DistinctIdentities(a)
BY DEF DistinctIdentities, Covers

\* Adding to the memory a binding that neither conflict forbids keeps every
\* identity with one user, and everything the memory covered covered.
LEMMA PutKeepsIdentities ==
    ASSUME TypeOK, NEW u \in Users, NEW item \in Binding, PutInMemory(u, item),
           DistinctIdentities(bindings)
    PROVE  /\ DistinctIdentities(bindings')
           /\ \A a : Covers(bindings, a) => Covers(bindings', a)
           /\ \A v \in Users : bindings'[v] = IF v = u THEN item ELSE bindings[v]
<1>1. \A v \in Users : bindings'[v] = IF v = u THEN item ELSE bindings[v]
  BY DEF PutInMemory, TypeOK, Books
<1>2. item # NoBinding
  BY SentinelAssumption
<1>3. \A v \in Users : v # u /\ bindings[v] # NoBinding
                         => bindings[v].subject # item.subject
  BY DEF PutInMemory, IdentityTaken
<1>4. bindings[u] # NoBinding => bindings[u].subject = item.subject
  BY DEF PutInMemory, OtherIdentity
<1>5. DistinctIdentities(bindings')
  BY <1>1, <1>2, <1>3 DEF DistinctIdentities
<1>6. \A a : Covers(bindings, a) => Covers(bindings', a)
  BY <1>1, <1>2, <1>4 DEF Covers
<1> QED
  BY <1>1, <1>5, <1>6

LEMMA InvInit == Init => IInv
<1> SUFFICES ASSUME Init PROVE IInv
  OBVIOUS
<1>1. TypeOK /\ ArgOK
  BY TypeInit DEF Init, ArgOK
<1>2. Recovered = Unbound /\ Held = Unbound
  BY DEF Init, Recovered, Overlay, Held
<1> QED
  BY <1>1, <1>2 DEF Init, IInv, PendingInv, FilesInv, IdentityInv, RemovedInv,
     GrantsInv, DistinctIdentities, Covers, Unbound, NoGrants

\* When the memory h covers the main file m and the write-ahead file w, so
\* does what a restart makes of the two.
LEMMA FilesCovered ==
    ASSUME NEW h, NEW m \in Books, NEW w \in WALFile \union {NoWAL},
           DistinctIdentities(h), Covers(h, m),
           w # NoWAL => /\ h[w.user] # NoBinding
                        /\ h[w.user].subject = w.item.subject
    PROVE  /\ Covers(h, Overlay(m, w))
           /\ Covers(Overlay(m, w), m)
           /\ DistinctIdentities(m)
           /\ DistinctIdentities(Overlay(m, w))
<1>1. CASE w = NoWAL
  BY <1>1, CoversDistinct DEF Overlay, Covers
<1>2. CASE w # NoWAL
  <2>1. w.user \in Users /\ w.item # NoBinding
    BY <1>2, SentinelAssumption DEF WALFile
  <2>2. \A u \in Users :
          Overlay(m, w)[u] = IF u = w.user THEN w.item ELSE m[u]
    BY <1>2 DEF Overlay, Books
  <2>3. Covers(h, Overlay(m, w)) /\ Covers(Overlay(m, w), m)
    BY <1>2, <2>1, <2>2 DEF Covers
  <2> QED
    BY <2>3, CoversDistinct
<1> QED
  BY <1>1, <1>2

\* The converse: the write-ahead binding is one of the memory's.
LEMMA WALCovered ==
    ASSUME NEW h, NEW m \in Books, NEW w \in WALFile, w # NoWAL,
           Covers(h, Overlay(m, w))
    PROVE  /\ h[w.user] # NoBinding
           /\ h[w.user].subject = w.item.subject
           /\ Overlay(m, w)[w.user] # NoBinding
<1>1. w.user \in Users /\ w.item # NoBinding
  BY SentinelAssumption DEF WALFile
<1>2. Overlay(m, w)[w.user] = w.item
  BY <1>1 DEF Overlay, Books
<1> QED
  BY <1>1, <1>2 DEF Covers

LEMMA InvStep == IInv /\ [Next]_vars => IInv'
<1> SUFFICES ASSUME IInv, [Next]_vars
             PROVE  IInv'
  OBVIOUS
<1> USE DEF IInv
<1>1. TypeOK' /\ ArgOK'
  BY TypeStep
<1>2. /\ Recovered \in Books
      /\ \A b \in Binding : b # NoBinding
      /\ \A u \in Users : wal # NoWAL /\ wal.user = u => Recovered[u] # NoBinding
  <2>1. Recovered \in Books
    BY RecoveredType DEF TypeOK
  <2> QED
    BY <2>1, SentinelAssumption DEF TypeOK, Recovered, Overlay, Books, WALFile
\* While the process is up, a step preserves what is known of the files when
\* the memory goes on covering them.
<1>3. ASSUME DistinctIdentities(Held'), Covers(Held', main'),
             wal' # NoWAL => /\ Held'[wal'.user] # NoBinding
                             /\ Held'[wal'.user].subject = wal'.item.subject
      PROVE  FilesInv' /\ IdentityInv'
  <2>1. main' \in Books /\ wal' \in WALFile \union {NoWAL}
    BY <1>1 DEF TypeOK
  <2> QED
    BY <1>3, <2>1, FilesCovered DEF FilesInv, IdentityInv, Recovered
<1>4. pc # "down" /\ wal # NoWAL =>
          /\ Held[wal.user] # NoBinding
          /\ Held[wal.user].subject = wal.item.subject
  BY WALCovered DEF FilesInv, TypeOK, Recovered
\* A step that leaves the files and the held bindings alone.
<1>5. ASSUME pc # "down", Held' = Held, main' = main, wal' = wal
      PROVE  FilesInv' /\ IdentityInv'
  BY <1>3, <1>4, <1>5 DEF FilesInv, IdentityInv
<1>6. CASE Load
  <2>1. /\ Recovered = main /\ Recovered' = main /\ main' = main
        /\ Held' = main /\ wal' = NoWAL /\ acked' = acked
    BY <1>6 DEF Load, Ready, Recovered, Overlay, Held
  <2>2. Covers(main, main)
    BY DEF Covers
  <2>3. FilesInv' /\ IdentityInv'
    BY <1>3, <2>1, <2>2 DEF IdentityInv
  <2>4. GrantsInv'
    BY <1>6, <2>1 DEF Load, Ready, GrantsInv, GrantsOf, PermsOf
  <2> QED
    BY <1>1, <1>6, <2>1, <2>3, <2>4 DEF Load, Ready, PendingInv, RemovedInv
<1>7. CASE LoadAndApplyWAL
  <2>1. /\ Recovered' = Recovered /\ Held' = Recovered /\ main' = main
        /\ wal' = wal /\ acked' = acked /\ federated' = federated
        /\ pc = "down" /\ pc' = "replay_save" /\ DistinctIdentities(Recovered)
    BY <1>7 DEF LoadAndApplyWAL, Recovered, Overlay, Held
  <2>2. FilesInv' /\ IdentityInv'
    BY <2>1 DEF FilesInv, IdentityInv, Covers
  <2>3. GrantsInv'
    BY <2>1 DEF GrantsInv, NoGrants
  <2> QED
    BY <1>1, <2>1, <2>2, <2>3 DEF PendingInv, RemovedInv
\* An operation that may save the memory and clear the WAL, while no remove
\* is in progress.
<1>8. ASSUME pc # "down", pc # "remove_save", 
             pc' \in {"idle", "replay_clear"} \/ (pc' = "put_clear" /\ arg' = arg /\ pc = "put_save"),
             bindings' = bindings, main' \in {main, bindings}, wal' \in {wal, NoWAL},
             \A v \in Users : acked'[v] = NoBinding => acked[v] = NoBinding,
             \A v \in Users : federated'[v] # {} =>
                 federated[v] # {} \/ bindings[v] # NoBinding
      PROVE  PendingInv' /\ FilesInv' /\ IdentityInv' /\ RemovedInv' /\ GrantsInv'
  <2>1. Held = bindings /\ Held' = bindings
    BY <1>8 DEF Held
  <2>2. Covers(bindings, main')
    BY <1>8, <2>1 DEF Covers, FilesInv
  <2>3. FilesInv' /\ IdentityInv'
    BY <1>3, <1>4, <1>8, <2>1, <2>2 DEF IdentityInv
  <2>4. \A v \in Users : acked[v] = NoBinding /\ wal # NoWAL => wal.user # v
    BY <1>2 DEF RemovedInv
  <2>5. \A v \in Users : acked[v] = NoBinding => main'[v] = NoBinding
    BY <1>8, <2>1 DEF RemovedInv
  <2>6. main' \in Books
    BY <1>1 DEF TypeOK
  <2>7. \A v \in Users : acked[v] = NoBinding => Recovered'[v] = NoBinding
    BY <1>8, <2>4, <2>5, <2>6 DEF Recovered, Overlay, TypeOK, Books, WALFile
  <2>8. RemovedInv'
    BY <1>8, <2>1, <2>5, <2>7 DEF RemovedInv
  <2> QED
    BY <1>8, <2>1, <2>3, <2>8 DEF PendingInv, GrantsInv
\* What the end of a put acknowledges, and grants, is a binding in memory.
<1>9. ASSUME arg \in WALFile, bindings[arg.user] # NoBinding, Acknowledge(arg.user)
      PROVE  \A v \in Users : acked'[v] = NoBinding => acked[v] = NoBinding
  BY <1>9 DEF Acknowledge, TypeOK, WALFile, Books
<1>10. ASSUME arg \in WALFile, ReplaceFederated(arg.user)
       PROVE  \A v \in Users : federated'[v] # {} =>
                  federated[v] # {} \/ bindings[v] # NoBinding
  BY <1>10 DEF ReplaceFederated, PermsOf, TypeOK, WALFile
<1>11. CASE ReplaySave
  BY <1>1, <1>8, <1>11 DEF ReplaySave
<1>12. CASE ReplayClearWAL
  <2>1. \A v \in Users : federated'[v] # {} => bindings[v] # NoBinding
    BY <1>12 DEF ReplayClearWAL, GrantsOf, PermsOf
  <2> QED
    BY <1>1, <1>8, <1>12, <2>1 DEF ReplayClearWAL, Ready
\* The process stops.
<1>13. ASSUME Exit, main' = main, wal' = wal, acked' = acked
       PROVE  PendingInv' /\ FilesInv' /\ IdentityInv' /\ RemovedInv' /\ GrantsInv'
  <2>1. Recovered' = Recovered /\ Held' = Unbound
    BY <1>13 DEF Exit, Recovered, Overlay, Held
  <2> QED
    BY <1>13, <2>1 DEF Exit, PendingInv, FilesInv, IdentityInv, RemovedInv,
       GrantsInv, NoGrants, Unbound, DistinctIdentities
<1>14. CASE ReplayFails
  BY <1>1, <1>13, <1>14 DEF ReplayFails
<1>15. CASE Crash
  BY <1>1, <1>13, <1>15 DEF Crash
\* A put, up to its write of the WAL.
<1>16. ASSUME NEW u \in Users, NEW item \in Binding, PutInMemory(u, item),
              pc' \in {"put_save", "put_fallback"}, main' = main,
              wal' = wal \/ wal' = [user |-> u, item |-> item],
              federated' = federated
       PROVE  PendingInv' /\ FilesInv' /\ IdentityInv' /\ RemovedInv' /\ GrantsInv'
  <2>1. Held = bindings /\ Held' = bindings' /\ pc = "idle"
    BY <1>16 DEF PutInMemory, Held
  <2>2. /\ DistinctIdentities(bindings')
        /\ Covers(bindings', main) /\ Covers(bindings', Recovered)
        /\ \A v \in Users : bindings'[v] = IF v = u THEN item ELSE bindings[v]
    BY <1>16, <2>1, PutKeepsIdentities DEF FilesInv, IdentityInv
  <2>3. wal' # NoWAL => /\ bindings'[wal'.user] # NoBinding
                        /\ bindings'[wal'.user].subject = wal'.item.subject
    <3>1. CASE wal' = wal
      BY <2>2, <3>1, WALCovered DEF TypeOK, Recovered
    <3>2. CASE wal' = [user |-> u, item |-> item]
      BY <1>2, <2>2, <3>2
    <3> QED
      BY <1>16, <3>1, <3>2
  <2>4. FilesInv' /\ IdentityInv'
    BY <1>3, <1>16, <2>1, <2>2, <2>3
  <2>5. \A v \in Users : acked'[v] = NoBinding => v # u /\ acked[v] = NoBinding
    BY <1>16, SentinelAssumption DEF PutInMemory, TypeOK
  <2>6. \A v \in Users : v # u => Recovered'[v] = Recovered[v] \/ Recovered'[v] = main[v]
    BY <1>16 DEF Recovered, Overlay, TypeOK, Books
  <2>7. RemovedInv'
    BY <1>16, <2>1, <2>2, <2>5, <2>6 DEF RemovedInv
  <2>8. GrantsInv'
    BY <1>2, <1>16, <2>1, <2>2 DEF GrantsInv
  <2> QED
    BY <1>2, <1>16, <2>2, <2>4, <2>7, <2>8 DEF PendingInv, PutInMemory
<1>17. ASSUME NEW u \in Users, NEW item \in Binding, PutWriteWAL(u, item)
       PROVE  IInv'
  BY <1>1, <1>16, <1>17 DEF PutWriteWAL
<1>18. ASSUME NEW u \in Users, NEW item \in Binding, PutWALFails(u, item)
       PROVE  IInv'
  BY <1>1, <1>16, <1>18 DEF PutWALFails
<1>19. CASE PutSave
  BY <1>1, <1>8, <1>19 DEF PutSave
<1>20. CASE PutSaveFails
  BY <1>1, <1>8, <1>20 DEF PutSaveFails, Ready
<1>21. CASE PutClearWAL
  BY <1>1, <1>8, <1>9, <1>10, <1>21 DEF PutClearWAL, Ready, ArgOK, PendingInv
<1>22. CASE PutClearWALFails
  BY <1>1, <1>8, <1>22 DEF PutClearWALFails, Ready
<1>23. CASE PutFallbackSave
  BY <1>1, <1>8, <1>9, <1>10, <1>23 DEF PutFallbackSave, Ready, ArgOK, PendingInv
<1>24. CASE PutFallbackSaveFails
  BY <1>1, <1>8, <1>10, <1>24 DEF PutFallbackSaveFails, Ready, ArgOK
<1>25. ASSUME NEW u \in Users, Remove(u)
       PROVE  IInv'
  <2>1. /\ Held = bindings /\ main' = main /\ acked' = acked
        /\ arg' = [user |-> u, item |-> bindings[u]]
        /\ bindings[u] # NoBinding /\ federated' = federated
        /\ bindings' = [bindings EXCEPT ![u] = NoBinding]
        /\ wal' \in {wal, NoWAL} /\ (wal' # NoWAL => wal'.user # u)
        /\ pc = "idle" /\ pc' = "remove_save"
    BY <1>25 DEF Remove, ClearWALMatching, Held
  <2>2. Held' = bindings
    BY <2>1 DEF Held, TypeOK, Books
  <2>3. FilesInv' /\ IdentityInv'
    BY <1>3, <1>4, <2>1, <2>2 DEF FilesInv, IdentityInv
  <2>4. PendingInv'
    BY <2>1 DEF PendingInv, RemovedInv, TypeOK, Books
  <2>5. \A v \in Users : Recovered[v] = NoBinding /\ main[v] = NoBinding
                         => Recovered'[v] = NoBinding
    BY <2>1 DEF Recovered, Overlay
  <2>6. RemovedInv' /\ GrantsInv'
    BY <2>1, <2>2, <2>5 DEF RemovedInv, GrantsInv
  <2> QED
    BY <1>1, <2>3, <2>4, <2>6
<1>26. ASSUME NEW u \in Users, RemoveClearWALFails(u)
       PROVE  IInv'
  BY <1>1, <1>8, <1>26 DEF RemoveClearWALFails
<1>27. CASE RemoveSave
  <2>1. arg \in WALFile /\ bindings[arg.user] = NoBinding /\ (wal # NoWAL => wal.user # arg.user)
    BY <1>27 DEF RemoveSave, ArgOK, PendingInv
  <2>2. /\ main' = bindings /\ bindings' = bindings /\ wal' = wal
        /\ pc = "remove_save" /\ pc' = "idle"
        /\ federated' = [federated EXCEPT ![arg.user] = {}]
        /\ acked' = [acked EXCEPT ![arg.user] = NoBinding]
    BY <1>27, <2>1 DEF RemoveSave, Ready, Acknowledge
  <2>3. Held' = bindings /\ \A v \in Users : v # arg.user => Held[v] = bindings[v]
    BY <2>2 DEF Held, TypeOK, Books
  <2>4. DistinctIdentities(bindings) /\ Covers(bindings, bindings)
    BY <2>1, <2>3 DEF IdentityInv, DistinctIdentities, Covers
  <2>5. wal # NoWAL => /\ bindings[wal.user] # NoBinding
                       /\ bindings[wal.user].subject = wal.item.subject
    BY <1>4, <2>1, <2>2, <2>3 DEF TypeOK, WALFile
  <2>6. FilesInv' /\ IdentityInv'
    BY <1>3, <2>2, <2>3, <2>4, <2>5
  <2>7. \A v \in Users : acked'[v] = NoBinding => bindings[v] = NoBinding
    BY <2>1, <2>2, <2>3 DEF RemovedInv, TypeOK
  <2>8. \A v \in Users : acked'[v] = NoBinding /\ wal # NoWAL => wal.user # v
    BY <1>2, <2>1, <2>2 DEF RemovedInv, TypeOK
  <2>9. RemovedInv'
    BY <2>2, <2>3, <2>7, <2>8 DEF RemovedInv, Recovered, Overlay, TypeOK, Books, WALFile
  <2>10. GrantsInv'
    BY <2>1, <2>2, <2>3 DEF GrantsInv, TypeOK
  <2> QED
    BY <1>1, <2>2, <2>6, <2>9, <2>10 DEF PendingInv
<1>28. CASE RemoveSaveFails
  <2>1. Held' = Held
    BY <1>28 DEF RemoveSaveFails, Ready, Held
  <2>2. /\ main' = main /\ wal' = wal /\ acked' = acked /\ federated' = federated
        /\ pc = "remove_save" /\ pc' = "idle" /\ Recovered' = Recovered
    BY <1>28 DEF RemoveSaveFails, Ready, Recovered
  <2> QED
    BY <1>1, <1>5, <2>1, <2>2 DEF PendingInv, RemovedInv, GrantsInv
<1>29. ASSUME NEW u \in Users, RecordDenial(u)
       PROVE  IInv'
  <2> DEFINE cleared == [bindings[u] EXCEPT !.perms = {}]
  <2>1. bindings[u] \in Binding /\ cleared \in Binding /\ cleared.subject = bindings[u].subject
    BY <1>29 DEF RecordDenial, TypeOK, Books, Binding
  <2>2. /\ pc = "idle" /\ pc' = "idle" /\ wal' = wal
        /\ main' = bindings'
        /\ \A v \in Users : bindings'[v] = IF v = u THEN cleared ELSE bindings[v]
        /\ \A v \in Users : federated'[v] # {} => federated[v] # {}
        /\ acked' = [acked EXCEPT ![u] = cleared]
    BY <1>29 DEF RecordDenial, TypeOK, Books
  <2> HIDE DEF cleared
  <2>3. cleared # NoBinding /\ Held = bindings /\ Held' = bindings'
    BY <1>2, <2>1, <2>2 DEF Held
  <2>4. \A v \in Users : bindings'[v] # NoBinding <=> bindings[v] # NoBinding
    BY <1>2, <2>1, <2>2, <2>3
  <2>5. \A v \in Users : bindings'[v] # NoBinding => bindings'[v].subject = bindings[v].subject
    BY <2>1, <2>2
  <2>6. DistinctIdentities(bindings')
    BY <2>3, <2>4, <2>5 DEF IdentityInv, DistinctIdentities
  <2>7. wal' # NoWAL => /\ bindings'[wal'.user] # NoBinding
                        /\ bindings'[wal'.user].subject = wal'.item.subject
    BY <1>4, <2>2, <2>3, <2>4, <2>5 DEF TypeOK, WALFile
  <2>8. FilesInv' /\ IdentityInv'
    BY <1>3, <2>2, <2>3, <2>6, <2>7 DEF Covers
  <2>9. \A v \in Users : acked'[v] = NoBinding => acked[v] = NoBinding
    BY <2>2, <2>3 DEF TypeOK
  <2>10. \A v \in Users : acked[v] = NoBinding /\ wal # NoWAL => wal.user # v
    BY <1>2 DEF RemovedInv
  <2>11. main' \in Books
    BY <1>1 DEF TypeOK
  <2>12. \A v \in Users : acked[v] = NoBinding => main'[v] = NoBinding
    BY <2>2, <2>3, <2>4 DEF RemovedInv
  <2>13. RemovedInv'
    BY <2>2, <2>3, <2>9, <2>10, <2>11, <2>12 DEF RemovedInv, Recovered, Overlay, Books
  <2> QED
    BY <1>1, <2>2, <2>3, <2>4, <2>8, <2>13 DEF PendingInv, GrantsInv
<1>30. CASE SaveStore
  BY <1>1, <1>8, <1>30 DEF SaveStore
<1>31. CASE SaveFails
  BY <1>1, <1>8, <1>31 DEF SaveFails
<1>32. CASE UNCHANGED vars
  <2>1. Held' = Held /\ Recovered' = Recovered
    BY <1>32 DEF vars, Held, Recovered
  <2> QED
    BY <1>1, <1>32, <2>1 DEF vars, PendingInv, FilesInv, IdentityInv, RemovedInv, GrantsInv
<1> QED
  BY <1>6, <1>7, <1>11, <1>12, <1>14, <1>15, <1>17, <1>18, <1>19, <1>20, <1>21,
     <1>22, <1>23, <1>24, <1>25, <1>26, <1>27, <1>28, <1>29, <1>30, <1>31, <1>32
     DEF Next, Put

LEMMA Invariant == Spec => []IInv
BY InvInit, InvStep, PTL DEF Spec

-----------------------------------------------------------------------------
(* What the invariant implies.                                             *)

LEMMA HeldDistinct ==
    ASSUME IInv
    PROVE  DistinctIdentities(bindings)
BY DEF IInv, IdentityInv, PendingInv, Held, DistinctIdentities, TypeOK, Books

\* However many operations fail and wherever the process dies, an identity
\* belongs to one user in memory and in what a restart finds, and the store
\* never writes files that its own startup refuses.
THEOREM IdentityUniqueAlways == Spec => []IdentityUnique
<1>1. IInv => IdentityUnique
  BY HeldDistinct DEF IInv, IdentityInv, IdentityUnique, StartupNeverRefused
<1> QED
  BY <1>1, Invariant, PTL

\* However many operations fail and wherever the process dies, a restart does
\* not bring back a binding whose removal was acknowledged.
THEOREM RemovedStaysRemovedAlways == Spec => []RemovedStaysRemoved
<1>1. IInv => RemovedStaysRemoved
  <2> SUFFICES ASSUME IInv, NEW u \in Users, acked[u] = NoBinding
               PROVE  Recovered[u] = NoBinding /\ bindings[u] = NoBinding
    BY DEF RemovedStaysRemoved
  <2>1. Recovered[u] = NoBinding /\ Held[u] = NoBinding
    BY DEF IInv, RemovedInv
  <2> QED
    BY <2>1 DEF IInv, PendingInv, Held, TypeOK, Books
<1> QED
  BY <1>1, Invariant, PTL

\* Between operations, no unbound user holds a permission of the provider.
THEOREM GrantsNeedBindingAlways == Spec => []GrantsNeedBinding
<1>1. IInv => GrantsNeedBinding
  BY DEF IInv, GrantsInv, GrantsNeedBinding, Held
<1> QED
  BY <1>1, Invariant, PTL

-----------------------------------------------------------------------------
(* The refinement of BindingRegistry, until a file operation fails.        *)

\* While nothing has failed: between operations the files hold the memory and
\* there is no write-ahead binding; while a put or a replay goes on, a restart
\* would find what the memory holds; while a remove goes on, it would find the
\* binding to be removed.
CleanInv ==
    /\ pc # "put_fallback"
    /\ pc = "idle" => wal = NoWAL /\ main = bindings
    /\ pc \in {"put_save", "put_clear", "replay_save", "replay_clear"} =>
           wal # NoWAL /\ bindings = Recovered
    /\ pc \in {"put_clear", "replay_clear"} => main = bindings
    /\ pc = "remove_save" =>
           /\ wal = NoWAL
           /\ main[arg.user] # NoBinding /\ main[arg.user] = arg.item
           /\ bindings = [main EXCEPT ![arg.user] = NoBinding]

\* What a restart would find was issued and is what was acknowledged.
DurableInv ==
    \A u \in Users :
        /\ Recovered[u] # NoBinding => Recovered[u].token <= issued
        /\ acked[u] # Unsettled => Recovered[u] = acked[u]

Faultless == faults = 0 => CleanInv /\ DurableInv

\* Saving what a restart would find changes nothing for the restart.
LEMMA OverlayTwice ==
    ASSUME NEW m \in Books, NEW w \in WALFile
    PROVE  Overlay(Overlay(m, w), w) = Overlay(m, w)
BY DEF Overlay, Books, WALFile

LEMMA FaultlessStep ==
    ASSUME TypeOK, TypeOK', ArgOK, Faultless, [Next]_vars, faults' = 0
    PROVE  /\ CleanInv' /\ DurableInv'
           /\ Registry!Next \/ Recovered' = Recovered
<1>1. faults \in Nat
  BY BoundsAssumption DEF TypeOK
<1>2. ~Fault
  BY <1>1 DEF Fault
<1>3. faults = 0
  BY <1>1, <1>2
  DEF Next, Put, vars, Load, LoadAndApplyWAL, ReplaySave, ReplayClearWAL,
      ReplayFails, PutWriteWAL, PutWALFails, PutSave, PutSaveFails,
      PutClearWAL, PutClearWALFails, PutFallbackSave, PutFallbackSaveFails,
      Remove, RemoveClearWALFails, RemoveSave, RemoveSaveFails, RecordDenial,
      SaveStore, SaveFails, Crash
<1>4. CleanInv /\ DurableInv
  BY <1>3 DEF Faultless
<1>5. Recovered \in Books /\ main \in Books /\ bindings \in Books
  BY RecoveredType DEF TypeOK
<1>6. wal # NoWAL => Overlay(Recovered, wal) = Recovered
  BY <1>5, OverlayTwice DEF TypeOK, Recovered
\* A step that changes nothing for a restart, and acknowledges only what a
\* restart would find.
<1>7. ASSUME Recovered' = Recovered, issued' = issued,
             \A u \in Users : acked'[u] \in {acked[u], Unsettled, Recovered[u]}
      PROVE  DurableInv'
  BY <1>4, <1>7 DEF DurableInv
<1>8. CASE Load
  <2>1. Recovered' = Recovered /\ issued' = issued /\ acked' = acked
    BY <1>8 DEF Load, Recovered
  <2>2. CleanInv'
    BY <1>8 DEF Load, Ready, CleanInv
  <2> QED BY <1>7, <2>1, <2>2
<1>9. CASE LoadAndApplyWAL
  <2>1. Recovered' = Recovered /\ issued' = issued /\ acked' = acked
    BY <1>9 DEF LoadAndApplyWAL, Recovered
  <2>2. CleanInv'
    BY <1>9, <2>1 DEF LoadAndApplyWAL, CleanInv
  <2> QED BY <1>7, <2>1, <2>2
<1>10. CASE ReplaySave \/ PutSave
  <2>1. /\ wal # NoWAL /\ wal' = wal /\ main' = bindings /\ bindings' = bindings
        /\ bindings = Recovered /\ pc' \in {"put_clear", "replay_clear"}
        /\ issued' = issued /\ acked' = acked
    BY <1>4, <1>10 DEF ReplaySave, PutSave, CleanInv
  <2>2. Recovered' = Recovered
    BY <1>6, <2>1 DEF Recovered
  <2>3. CleanInv'
    BY <2>1, <2>2 DEF CleanInv
  <2> QED BY <1>7, <2>1, <2>2, <2>3
<1>11. CASE ReplayClearWAL \/ PutClearWAL
  <2>1. /\ wal' = NoWAL /\ main' = main /\ bindings' = bindings
        /\ main = bindings /\ bindings = Recovered /\ pc' = "idle"
        /\ issued' = issued
        /\ acked' = acked \/ Acknowledge(arg.user)
    BY <1>4, <1>11 DEF ReplayClearWAL, PutClearWAL, Ready, CleanInv
  <2>2. Recovered' = Recovered
    BY <2>1 DEF Recovered, Overlay
  <2>3. CleanInv'
    BY <2>1 DEF CleanInv
  <2>4. \A u \in Users : acked'[u] \in {acked[u], Recovered[u]}
    BY <2>1 DEF Acknowledge, TypeOK
  <2> QED BY <1>7, <2>1, <2>2, <2>3, <2>4
<1>12. ASSUME NEW u \in Users, NEW item \in Binding, PutWriteWAL(u, item)
       PROVE  /\ CleanInv' /\ DurableInv'
              /\ Registry!Next \/ Recovered' = Recovered
  <2>1. /\ wal = NoWAL /\ main = bindings /\ Recovered = bindings
        /\ wal' = [user |-> u, item |-> item] /\ main' = main
        /\ bindings' = [bindings EXCEPT ![u] = item] /\ pc' = "put_save"
        /\ acked' = [acked EXCEPT ![u] = Unsettled]
    BY <1>4, <1>12 DEF PutWriteWAL, PutInMemory, CleanInv, Recovered, Overlay
  <2>2. wal' # NoWAL
    BY <2>1, SentinelAssumption DEF WALFile
  <2>3. Recovered' = [Recovered EXCEPT ![u] = item]
    BY <2>1, <2>2 DEF Recovered, Overlay
  <2>4. CleanInv'
    BY <2>1, <2>2, <2>3 DEF CleanInv
  <2>5. /\ item.token \in Nat /\ issued \in Nat /\ issued' \in Nat
        /\ \A v \in Users : Recovered[v] # NoBinding => Recovered[v].token \in Nat
    BY <1>5, BoundsAssumption DEF Binding, Books, TypeOK
  <2>6. /\ issued <= issued' /\ item.token <= issued'
        /\ Recovered[u] # NoBinding => Recovered[u].token <= item.token
    BY <1>4, <1>12, <2>1, <2>5 DEF PutWriteWAL, PutInMemory, GrantToken, DurableInv
  <2>7. DurableInv'
    <3>1. \A v \in Users : Recovered'[v] = IF v = u THEN item ELSE Recovered[v]
      BY <1>5, <2>3 DEF Books
    <3>2. \A v \in Users : acked'[v] = IF v = u THEN Unsettled ELSE acked[v]
      BY <2>1 DEF TypeOK
    <3>3. \A v \in Users : Recovered'[v] # NoBinding => Recovered'[v].token <= issued'
      BY <1>4, <2>5, <2>6, <3>1 DEF DurableInv
    <3>4. \A v \in Users : acked'[v] # Unsettled => Recovered'[v] = acked'[v]
      BY <1>4, <3>1, <3>2 DEF DurableInv
    <3> QED BY <3>3, <3>4 DEF DurableInv
  <2>8. Registry!Bind(u)
    <3>1. item \in Registry!Bindings
      BY DEF Binding, Registry!Bindings
    <3>2. /\ \A v \in Users \ {u} :
                 Recovered[v] # NoBinding => Recovered[v].subject # item.subject
          /\ Recovered[u] # NoBinding => Recovered[u].subject = item.subject
      BY <1>12, <2>1 DEF PutWriteWAL, PutInMemory, IdentityTaken, OtherIdentity
    <3> QED BY <2>3, <2>6, <3>1, <3>2 DEF Registry!Bind
  <2> QED BY <2>4, <2>7, <2>8 DEF Registry!Next
<1>13. CASE PutFallbackSave
  BY <1>4, <1>13 DEF PutFallbackSave, CleanInv
<1>14. ASSUME NEW u \in Users, Remove(u)
       PROVE  CleanInv' /\ DurableInv' /\ Recovered' = Recovered
  <2>1. /\ wal = NoWAL /\ wal' = NoWAL /\ main = bindings /\ main' = main
        /\ bindings[u] # NoBinding /\ arg'.user = u /\ arg'.item = bindings[u]
        /\ bindings' = [bindings EXCEPT ![u] = NoBinding]
        /\ pc' = "remove_save" /\ issued' = issued /\ acked' = acked
    BY <1>4, <1>14 DEF Remove, ClearWALMatching, CleanInv
  <2>2. Recovered' = Recovered
    BY <2>1 DEF Recovered
  <2>3. CleanInv'
    BY <2>1 DEF CleanInv
  <2> QED BY <1>7, <2>1, <2>2, <2>3
<1>15. CASE RemoveSave
  <2>1. /\ arg \in WALFile /\ wal = NoWAL /\ wal' = NoWAL
        /\ main[arg.user] # NoBinding /\ main' = bindings /\ bindings' = bindings
        /\ bindings = [main EXCEPT ![arg.user] = NoBinding]
        /\ pc' = "idle" /\ issued' = issued /\ Acknowledge(arg.user)
    BY <1>4, <1>15 DEF RemoveSave, Ready, ArgOK, CleanInv
  <2>2. arg.user \in Users
    BY <2>1 DEF WALFile
  <2>3. Recovered = main /\ Recovered' = bindings
    BY <2>1 DEF Recovered, Overlay
  <2>4. CleanInv'
    BY <2>1 DEF CleanInv
  <2>5. Registry!Unbind(arg.user)
    BY <2>1, <2>3 DEF Registry!Unbind
  <2>6. \A v \in Users :
            /\ Recovered'[v] = IF v = arg.user THEN NoBinding ELSE Recovered[v]
            /\ acked'[v] = IF v = arg.user THEN NoBinding ELSE acked[v]
    BY <1>5, <2>1, <2>2, <2>3 DEF Acknowledge, TypeOK, Books
  <2>7. DurableInv'
    BY <1>4, <2>1, <2>6 DEF DurableInv
  <2> QED BY <2>2, <2>4, <2>5, <2>7 DEF Registry!Next
<1>16. ASSUME NEW u \in Users, RecordDenial(u)
       PROVE  /\ CleanInv' /\ DurableInv'
              /\ Registry!Next \/ Recovered' = Recovered
  <2> DEFINE cleared == [bindings[u] EXCEPT !.perms = {}]
  <2>1. /\ wal = NoWAL /\ wal' = NoWAL /\ main = bindings
        /\ bindings[u] # NoBinding /\ pc' = "idle" /\ issued' = issued
        /\ bindings' = [bindings EXCEPT ![u] = cleared]
        /\ main' = bindings'
        /\ acked' = [acked EXCEPT ![u] = cleared]
    BY <1>4, <1>16 DEF RecordDenial, CleanInv
  <2>2. /\ bindings[u] \in Binding /\ cleared \in Binding
        /\ cleared.token = bindings[u].token
    BY <1>5, <2>1 DEF Books, Binding
  <2>3. Recovered = bindings /\ Recovered' = bindings'
    BY <2>1 DEF Recovered, Overlay
  <2>4. CleanInv'
    BY <2>1 DEF CleanInv
  <2>5. Registry!Deny(u)
    <3>1. Recovered' = [Recovered EXCEPT ![u].perms = {}]
      BY <2>1, <2>3
    <3> QED BY <2>1, <2>3, <3>1 DEF Registry!Deny
  <2>6. \A v \in Users :
            /\ Recovered'[v] = IF v = u THEN cleared ELSE Recovered[v]
            /\ acked'[v] = IF v = u THEN cleared ELSE acked[v]
    BY <1>5, <2>1, <2>3 DEF TypeOK, Books
  <2>7. DurableInv'
    <3> HIDE DEF cleared
    <3>1. Recovered[u] # NoBinding /\ Recovered[u].token = cleared.token
      BY <2>1, <2>2, <2>3
    <3>2. \A v \in Users : Recovered'[v] # NoBinding => Recovered'[v].token <= issued'
      BY <1>4, <2>1, <2>6, <3>1 DEF DurableInv
    <3>3. \A v \in Users : acked'[v] # Unsettled => Recovered'[v] = acked'[v]
      BY <1>4, <2>6 DEF DurableInv
    <3> QED BY <3>2, <3>3 DEF DurableInv
  <2> QED BY <2>4, <2>5, <2>7 DEF Registry!Next
<1>17. CASE SaveStore
  <2>1. /\ main' = main /\ wal' = wal /\ bindings' = bindings /\ pc' = pc
        /\ arg' = arg /\ issued' = issued /\ acked' = acked
    BY <1>4, <1>17 DEF SaveStore, CleanInv
  <2>2. Recovered' = Recovered
    BY <2>1 DEF Recovered
  <2> QED BY <1>4, <1>7, <2>1, <2>2 DEF CleanInv
<1>18. CASE Crash
  <2>1. Recovered' = Recovered /\ issued' = issued /\ acked' = acked
    BY <1>18 DEF Crash, Recovered
  <2>2. CleanInv'
    BY <1>18 DEF Crash, Exit, CleanInv
  <2> QED BY <1>7, <2>1, <2>2
<1>19. CASE UNCHANGED vars
  BY <1>4, <1>19 DEF vars, CleanInv, DurableInv, Recovered
<1> QED
  BY <1>2, <1>8, <1>9, <1>10, <1>11, <1>12, <1>13, <1>14, <1>15, <1>16, <1>17,
     <1>18, <1>19
  DEF Next, Put, ReplayFails, PutWALFails, PutSaveFails, PutClearWALFails,
      PutFallbackSaveFails, RemoveClearWALFails, RemoveSaveFails, SaveFails

LEMMA FaultlessInit == Init => Faultless /\ Registry!Init
<1> SUFFICES ASSUME Init PROVE Faultless /\ Registry!Init
  OBVIOUS
<1>1. Recovered = Unbound
  BY DEF Init, Recovered, Overlay
<1> QED
  BY <1>1 DEF Init, Faultless, CleanInv, DurableInv, Unbound, Registry!Init

LEMMA FaultlessAlways == Spec => []Faultless
<1>1. /\ TypeOK /\ ArgOK /\ Faultless /\ [Next]_vars /\ TypeOK'
      => Faultless'
  BY FaultlessStep DEF Faultless
<1> QED
  BY <1>1, FaultlessInit, TypeInvariant, PTL DEF Spec

\* Until a file operation fails, putBinding, recordRefreshFailure and remove
\* change what a restart finds at one point each, as the abstract registry's
\* operations do, and neither a crash nor the startup changes it.
THEOREM ImplementsRegistryAlways == Spec => ImplementsRegistry
<1>1. /\ TypeOK /\ ArgOK /\ Faultless /\ [Next]_vars /\ TypeOK'
      => [faults' = 0 => Registry!Next]_Recovered
  BY FaultlessStep
<1> QED
  BY <1>1, FaultlessInit, FaultlessAlways, TypeInvariant, PTL
  DEF Spec, ImplementsRegistry

\* Until a file operation fails, what putBinding, recordRefreshFailure and
\* remove acknowledged is what a restart finds.
THEOREM AckedDurableAlways == Spec => []AckedDurable
<1>1. Faultless => AckedDurable
  BY DEF Faultless, DurableInv, AckedDurable
<1> QED
  BY <1>1, FaultlessAlways, PTL

-----------------------------------------------------------------------------
(* One failed file operation costs no token.                               *)

HasToken(b, t) == b # NoBinding /\ b.token = t

\* The bindings of a book have the tokens that must not be lost.
TokensIn(book) == \A u \in Users : newest[u] # 0 => HasToken(book[u], newest[u])

\* The memory has them while the process is up, the one of a remove in
\* progress included.
MemoryKeeps == pc # "down" => TokensIn(Held)

\* What a restart would find has them, but for those at risk.
FilesKeep ==
    \A u \in Users : newest[u] # 0 /\ ~AtRisk(u) => HasToken(Recovered[u], newest[u])

\* What the saves rely on: a put saves under its own write-ahead file; a put
\* and a replay have the main file saved before they give up the write-ahead
\* file; and the put whose write-ahead file failed has no older one that would
\* hide its save.
SavesInv ==
    /\ pc = "put_save" => wal # NoWAL /\ wal.user = arg.user
    /\ pc \in {"put_clear", "replay_clear"} => main = bindings
    /\ pc = "put_fallback" => faults # 0 /\ wal = NoWAL

OneFaultInv == faults <= 1 => MemoryKeeps /\ FilesKeep /\ SavesInv

\* A main file that has the tokens has them under a write-ahead file that has
\* its user's.
LEMMA OverlayKeeps ==
    ASSUME NEW m \in Books, NEW w \in WALFile \union {NoWAL}, NEW n,
           \A u \in Users : n[u] # 0 => HasToken(m[u], n[u]),
           w # NoWAL /\ n[w.user] # 0 => HasToken(w.item, n[w.user])
    PROVE  \A u \in Users : n[u] # 0 => HasToken(Overlay(m, w)[u], n[u])
<1>1. CASE w = NoWAL
  BY <1>1 DEF Overlay
<1>2. CASE w # NoWAL
  <2>1. \A u \in Users : Overlay(m, w)[u] = IF u = w.user THEN w.item ELSE m[u]
    BY <1>2 DEF Overlay, Books
  <2> QED BY <1>2, <2>1
<1> QED BY <1>1, <1>2

\* Its user finds the write-ahead binding.
LEMMA OverlayWAL ==
    ASSUME TypeOK, wal # NoWAL
    PROVE  wal.user \in Users /\ Recovered[wal.user] = wal.item
BY DEF TypeOK, Recovered, Overlay, Books, WALFile

\* A step that saves the memory under the same write-ahead file, with the
\* tokens unchanged.
LEMMA SaveKeepsTokens ==
    ASSUME TypeOK, TypeOK', NEW book, main' = book, wal' = wal,
           \A u \in Users : newest'[u] # 0 => HasToken(book[u], newest'[u]),
           \A u \in Users : newest'[u] # 0 => newest'[u] = newest[u],
           wal # NoWAL => ~AtRisk(wal.user),
           FilesKeep
    PROVE  FilesKeep'
<1>1. wal # NoWAL /\ newest'[wal.user] # 0 => HasToken(wal.item, newest'[wal.user])
  BY OverlayWAL DEF FilesKeep
<1>2. main' \in Books /\ wal \in WALFile \union {NoWAL}
  BY DEF TypeOK
<1>3. \A u \in Users : newest'[u] # 0 => HasToken(Overlay(main', wal')[u], newest'[u])
  BY <1>1, <1>2, OverlayKeeps
<1> QED BY <1>3 DEF FilesKeep, Recovered

\* A step that leaves the files alone, after which the same tokens are at risk
\* or nothing is any more.
LEMMA FilesUnchanged ==
    ASSUME FilesKeep, main' = main, wal' = wal,
           \A u \in Users : newest'[u] # 0 /\ ~AtRisk(u)' =>
               newest'[u] = newest[u] /\ ~AtRisk(u)
    PROVE  FilesKeep'
<1>1. Recovered' = Recovered
  BY DEF Recovered
<1> QED BY <1>1 DEF FilesKeep

LEMMA OneFaultStep ==
    ASSUME TypeOK, TypeOK', ArgOK, PendingInv, Faultless, OneFaultInv,
           [Next]_vars, faults' <= 1
    PROVE  MemoryKeeps' /\ FilesKeep' /\ SavesInv'
<1>1. faults \in Nat /\ faults' \in Nat
  BY BoundsAssumption DEF TypeOK
<1>2. faults <= 1 /\ MemoryKeeps /\ FilesKeep /\ SavesInv
  <2>1. faults <= faults'
    BY <1>1 DEF Fault, Next, Put, vars, Load, LoadAndApplyWAL, ReplaySave,
       ReplayClearWAL, ReplayFails, PutWriteWAL, PutWALFails, PutSave,
       PutSaveFails, PutClearWAL, PutClearWALFails, PutFallbackSave,
       PutFallbackSaveFails, Remove, RemoveClearWALFails, RemoveSave,
       RemoveSaveFails, RecordDenial, SaveStore, SaveFails, Crash
  <2> QED BY <1>1, <2>1 DEF OneFaultInv
\* The one failure is the first, and before it the files were in order.
<1>3. Fault => faults = 0 /\ CleanInv
  BY <1>1 DEF Fault, Faultless
<1>4. Fault => pc # "put_fallback"
  BY <1>3 DEF CleanInv
<1>5. CASE Load
  <2>1. /\ bindings' = Recovered /\ Held' = Recovered /\ newest' = newest
        /\ main' = main /\ wal' = wal /\ pc = "down" /\ pc' = "idle"
    BY <1>5 DEF Load, Ready, Recovered, Overlay, Held
  <2>2. TokensIn(Held)'
    BY <1>2, <2>1 DEF FilesKeep, AtRisk, TokensIn
  <2>3. FilesKeep'
    BY <1>2, <2>1, FilesUnchanged DEF AtRisk
  <2> QED BY <2>1, <2>2, <2>3 DEF MemoryKeeps, SavesInv
<1>6. CASE LoadAndApplyWAL
  <2>1. /\ Held' = Recovered /\ newest' = newest
        /\ main' = main /\ wal' = wal /\ pc = "down" /\ pc' = "replay_save"
    BY <1>6 DEF LoadAndApplyWAL, Held
  <2>2. TokensIn(Held)'
    BY <1>2, <2>1 DEF FilesKeep, AtRisk, TokensIn
  <2>3. FilesKeep'
    BY <1>2, <2>1, FilesUnchanged DEF AtRisk
  <2> QED BY <2>1, <2>2, <2>3 DEF MemoryKeeps, SavesInv
<1>7. CASE ReplaySave \/ PutSave
  <2>1. /\ bindings' = bindings /\ main' = bindings /\ wal' = wal
        /\ newest' = newest /\ arg' = arg
        /\ pc \in {"replay_save", "put_save"}
        /\ pc' \in {"replay_clear", "put_clear"}
    BY <1>7 DEF ReplaySave, PutSave
  <2>2. Held = bindings /\ Held' = bindings
    BY <2>1 DEF Held
  <2>3. \A u \in Users : newest[u] # 0 => HasToken(bindings[u], newest[u])
    BY <1>2, <2>1, <2>2 DEF MemoryKeeps, TokensIn
  <2>4. wal # NoWAL => ~AtRisk(wal.user)
    BY <1>2, <2>1 DEF SavesInv, AtRisk
  <2>5. FilesKeep'
    BY <1>2, <2>1, <2>3, <2>4, SaveKeepsTokens
  <2>6. MemoryKeeps'
    BY <2>1, <2>2, <2>3 DEF MemoryKeeps, TokensIn
  <2> QED BY <2>1, <2>5, <2>6 DEF SavesInv
\* The memory and the files are one, and the write-ahead file is not there.
<1>8. ASSUME pc' = "idle", pc # "down", pc # "remove_save", main' = bindings,
             bindings' = bindings, wal' = NoWAL, newest' = newest
      PROVE  MemoryKeeps' /\ FilesKeep' /\ SavesInv'
  <2>1. Held = bindings /\ Held' = bindings /\ Recovered' = bindings
    BY <1>8 DEF Held, Recovered, Overlay
  <2>2. \A u \in Users : newest[u] # 0 => HasToken(bindings[u], newest[u])
    BY <1>2, <1>8, <2>1 DEF MemoryKeeps, TokensIn
  <2> QED BY <1>8, <2>1, <2>2 DEF MemoryKeeps, TokensIn, FilesKeep, SavesInv
<1>9. CASE ReplayClearWAL \/ PutClearWAL
  <2>1. main' = bindings
    BY <1>2, <1>9 DEF ReplayClearWAL, PutClearWAL, SavesInv
  <2> QED BY <1>8, <1>9, <2>1 DEF ReplayClearWAL, PutClearWAL, Ready
<1>10. CASE PutFallbackSave
  <2>1. wal' = NoWAL
    BY <1>2, <1>10 DEF PutFallbackSave, SavesInv
  <2> QED BY <1>8, <1>10, <2>1 DEF PutFallbackSave, Ready
\* A step that leaves the files and the tokens alone, and before which nothing
\* was at risk, or after which nothing is.
<1>11. ASSUME main' = main, wal' = wal, newest' = newest,
              pc' \in {"down", "idle"}, \A u \in Users : ~AtRisk(u),
              pc' # "down" => pc # "down" /\ Held' = Held
       PROVE  MemoryKeeps' /\ FilesKeep' /\ SavesInv'
  <2>1. FilesKeep'
    BY <1>2, <1>11, FilesUnchanged
  <2> QED BY <1>2, <1>11, <2>1 DEF MemoryKeeps, TokensIn, SavesInv
<1>12. Fault => \A u \in Users : ~AtRisk(u)
  BY <1>3 DEF AtRisk
<1>13. CASE ReplayFails
  BY <1>11, <1>12, <1>13 DEF ReplayFails, Exit
<1>14. CASE PutSaveFails \/ PutClearWALFails \/ SaveFails
  <2>1. Held' = Held
    BY <1>14 DEF PutSaveFails, PutClearWALFails, SaveFails, Ready, Held
  <2> QED BY <1>11, <1>12, <1>14, <2>1 DEF PutSaveFails, PutClearWALFails, SaveFails, Ready
<1>15. CASE PutFallbackSaveFails
  BY <1>4, <1>15 DEF PutFallbackSaveFails
<1>16. ASSUME NEW u \in Users, RemoveClearWALFails(u)
       PROVE  MemoryKeeps' /\ FilesKeep' /\ SavesInv'
  <2>1. Held' = Held
    BY <1>16 DEF RemoveClearWALFails, Held
  <2> QED BY <1>11, <1>12, <1>16, <2>1 DEF RemoveClearWALFails
<1>17. CASE RemoveSaveFails
  <2>1. Held' = Held
    BY <1>17 DEF RemoveSaveFails, Ready, Held
  <2> QED BY <1>11, <1>12, <1>17, <2>1 DEF RemoveSaveFails, Ready
<1>18. ASSUME NEW u \in Users, NEW item \in Binding, PutInMemory(u, item),
              pc' \in {"put_save", "put_fallback"}
       PROVE  /\ MemoryKeeps'
              /\ \A v \in Users : newest'[v] = IF v = u THEN item.token ELSE newest[v]
  <2>1. /\ \A v \in Users : newest'[v] = IF v = u THEN item.token ELSE newest[v]
        /\ \A v \in Users : bindings'[v] = IF v = u THEN item ELSE bindings[v]
        /\ Held = bindings /\ Held' = bindings' /\ pc = "idle"
        /\ item # NoBinding
    BY <1>18, SentinelAssumption DEF PutInMemory, Held, TypeOK, Books
  <2>2. \A v \in Users : newest[v] # 0 => HasToken(bindings[v], newest[v])
    BY <1>2, <2>1 DEF MemoryKeeps, TokensIn
  <2>3. \A v \in Users : newest'[v] # 0 => HasToken(bindings'[v], newest'[v])
    BY <2>1, <2>2 DEF HasToken
  <2> QED BY <2>1, <2>3 DEF MemoryKeeps, TokensIn
<1>19. ASSUME NEW u \in Users, NEW item \in Binding, PutWriteWAL(u, item)
       PROVE  MemoryKeeps' /\ FilesKeep' /\ SavesInv'
  <2>1. /\ PutInMemory(u, item) /\ pc = "idle" /\ pc' = "put_save"
        /\ wal' = [user |-> u, item |-> item] /\ arg' = wal' /\ main' = main
        /\ faults' = faults
    BY <1>19 DEF PutWriteWAL, PutInMemory
  <2>2. /\ MemoryKeeps'
        /\ \A v \in Users : newest'[v] = IF v = u THEN item.token ELSE newest[v]
    BY <1>18, <2>1
  <2>3. wal' # NoWAL
    BY <2>1, SentinelAssumption DEF WALFile
  <2>4. \A v \in Users : Recovered'[v] = IF v = u THEN item ELSE main[v]
    BY <2>1, <2>3 DEF Recovered, Overlay, TypeOK, Books
  <2>5. HasToken(item, item.token)
    BY SentinelAssumption DEF HasToken
  <2>6. \A v \in Users : ~AtRisk(v)' => v = u \/ faults = 0
    BY <1>1, <2>1 DEF AtRisk
  <2>7. faults = 0 => Recovered = main
    BY <2>1 DEF Faultless, CleanInv, Recovered, Overlay
  <2>8. FilesKeep'
    BY <1>2, <2>1, <2>2, <2>4, <2>5, <2>6, <2>7 DEF FilesKeep, AtRisk
  <2> QED BY <2>1, <2>2, <2>3, <2>8 DEF SavesInv
<1>20. ASSUME NEW u \in Users, NEW item \in Binding, PutWALFails(u, item)
       PROVE  MemoryKeeps' /\ FilesKeep' /\ SavesInv'
  <2>1. /\ PutInMemory(u, item) /\ pc = "idle" /\ pc' = "put_fallback" /\ Fault
        /\ wal' = wal /\ arg'.user = u /\ main' = main /\ faults' = faults + 1
    BY <1>20 DEF PutWALFails, PutInMemory, Fault
  <2>2. /\ MemoryKeeps'
        /\ \A v \in Users : newest'[v] = IF v = u THEN item.token ELSE newest[v]
    BY <1>18, <2>1
  <2>3. AtRisk(u)'
    BY <1>1, <2>1 DEF AtRisk
  <2>4. FilesKeep'
    BY <1>2, <1>12, <2>1, <2>2, <2>3, FilesUnchanged
  <2>5. wal' = NoWAL /\ faults' # 0
    BY <1>1, <1>3, <2>1 DEF CleanInv
  <2> QED BY <2>1, <2>2, <2>4, <2>5 DEF SavesInv
<1>21. ASSUME NEW u \in Users, Remove(u)
       PROVE  MemoryKeeps' /\ FilesKeep' /\ SavesInv'
  <2>1. /\ main' = main /\ newest' = newest /\ pc = "idle" /\ pc' = "remove_save"
        /\ arg'.user = u /\ arg'.item = bindings[u] /\ faults' = faults
        /\ bindings' = [bindings EXCEPT ![u] = NoBinding]
        /\ wal' = IF wal # NoWAL /\ wal.user = u THEN NoWAL ELSE wal
    BY <1>21 DEF Remove, ClearWALMatching
  <2>2. Held = bindings /\ Held' = bindings
    <3>1. Held = bindings /\ Held' = [bindings' EXCEPT ![u] = bindings[u]]
      BY <2>1 DEF Held
    <3>2. [[bindings EXCEPT ![u] = NoBinding] EXCEPT ![u] = bindings[u]] = bindings
      BY DEF TypeOK, Books
    <3> QED BY <2>1, <3>1, <3>2
  <2>3. MemoryKeeps'
    BY <1>2, <2>1, <2>2 DEF MemoryKeeps, TokensIn
  <2>4. \A v \in Users \ {u} : Recovered'[v] = Recovered[v]
    BY <2>1 DEF Recovered, Overlay, TypeOK, Books
  <2>5. faults = 0 => Recovered' = Recovered
    BY <2>1 DEF Faultless, CleanInv, Recovered
  <2>6. \A v \in Users : ~AtRisk(v)' => v # u \/ faults = 0
    BY <1>1, <2>1 DEF AtRisk
  <2>7. FilesKeep'
    BY <1>2, <2>1, <2>4, <2>5, <2>6 DEF FilesKeep, AtRisk
  <2> QED BY <2>1, <2>3, <2>7 DEF SavesInv
<1>22. CASE RemoveSave
  <2>1. /\ main' = bindings /\ bindings' = bindings /\ wal' = wal
        /\ pc = "remove_save" /\ pc' = "idle" /\ arg \in WALFile
        /\ newest' = [newest EXCEPT ![arg.user] = 0]
    BY <1>22 DEF RemoveSave, Ready, ArgOK
  <2>2. \A u \in Users : newest'[u] = IF u = arg.user THEN 0 ELSE newest[u]
    BY <2>1 DEF TypeOK
  <2>3. \A u \in Users : u # arg.user => Held[u] = bindings[u]
    BY <2>1 DEF Held, TypeOK, Books
  <2>4. \A u \in Users : newest'[u] # 0 => HasToken(bindings[u], newest'[u])
    BY <1>2, <2>1, <2>2, <2>3 DEF MemoryKeeps, TokensIn
  <2>5. wal # NoWAL => ~AtRisk(wal.user)
    BY <2>1 DEF PendingInv, AtRisk
  <2>6. FilesKeep'
    BY <1>2, <2>1, <2>2, <2>4, <2>5, SaveKeepsTokens
  <2>7. Held' = bindings
    BY <2>1 DEF Held
  <2> QED BY <2>1, <2>4, <2>6, <2>7 DEF MemoryKeeps, TokensIn, SavesInv
\* A save between operations, which may clear permissions but keeps tokens.
<1>23. ASSUME pc = "idle", pc' = "idle", main' = bindings', wal' = wal,
              newest' = newest,
              \A u \in Users : bindings[u] # NoBinding =>
                  HasToken(bindings'[u], bindings[u].token)
       PROVE  MemoryKeeps' /\ FilesKeep' /\ SavesInv'
  <2>1. Held = bindings /\ Held' = bindings' /\ \A u \in Users : ~AtRisk(u)
    BY <1>23 DEF Held, AtRisk
  <2>2. \A u \in Users : newest'[u] # 0 => HasToken(bindings'[u], newest'[u])
    BY <1>2, <1>23, <2>1 DEF MemoryKeeps, TokensIn, HasToken
  <2>3. wal # NoWAL => ~AtRisk(wal.user)
    BY <1>23 DEF AtRisk
  <2>4. FilesKeep'
    BY <1>2, <1>23, <2>2, <2>3, SaveKeepsTokens
  <2> QED BY <1>23, <2>1, <2>2, <2>4 DEF MemoryKeeps, TokensIn, SavesInv
<1>24. ASSUME NEW u \in Users, RecordDenial(u)
       PROVE  MemoryKeeps' /\ FilesKeep' /\ SavesInv'
  <2> DEFINE cleared == [bindings[u] EXCEPT !.perms = {}]
  <2>1. /\ pc = "idle" /\ pc' = "idle" /\ main' = bindings' /\ wal' = wal
        /\ newest' = newest /\ bindings[u] # NoBinding
        /\ bindings' = [bindings EXCEPT ![u] = cleared]
    BY <1>24 DEF RecordDenial
  <2>2. cleared.token = bindings[u].token /\ cleared \in Binding
    BY <2>1 DEF TypeOK, Books, Binding
  <2>3. \A v \in Users : bindings'[v] = IF v = u THEN cleared ELSE bindings[v]
    BY <2>1 DEF TypeOK, Books
  <2> HIDE DEF cleared
  <2>4. cleared # NoBinding
    BY <2>2, SentinelAssumption
  <2>5. \A v \in Users : bindings[v] # NoBinding =>
            HasToken(bindings'[v], bindings[v].token)
    BY <2>2, <2>3, <2>4 DEF HasToken
  <2> QED BY <1>23, <2>1, <2>5
<1>25. CASE SaveStore
  BY <1>23, <1>25 DEF SaveStore, HasToken
<1>26. CASE Crash
  <2>1. /\ main' = main /\ wal' = wal /\ pc' = "down"
        /\ \A u \in Users : newest'[u] = IF AtRisk(u) THEN 0 ELSE newest[u]
    BY <1>26 DEF Crash, Exit
  <2>2. FilesKeep'
    BY <1>2, <2>1, FilesUnchanged
  <2> QED BY <2>1, <2>2 DEF MemoryKeeps, SavesInv
<1>27. CASE UNCHANGED vars
  <2>1. Held' = Held /\ Recovered' = Recovered
    BY <1>27 DEF vars, Held, Recovered
  <2> QED BY <1>2, <1>27, <2>1 DEF vars, MemoryKeeps, TokensIn, FilesKeep, SavesInv, AtRisk
<1> QED
  BY <1>5, <1>6, <1>7, <1>9, <1>10, <1>13, <1>14, <1>15, <1>16, <1>17, <1>19,
     <1>20, <1>21, <1>22, <1>24, <1>25, <1>26, <1>27 DEF Next, Put

LEMMA OneFaultAlways == Spec => []OneFaultInv
<1>1. Init => OneFaultInv
  BY DEF Init, OneFaultInv, MemoryKeeps, FilesKeep, SavesInv
<1>2. /\ TypeOK /\ ArgOK /\ IInv /\ Faultless /\ OneFaultInv
      /\ [Next]_vars /\ TypeOK'
      => OneFaultInv'
  BY OneFaultStep DEF OneFaultInv, IInv
<1> QED
  BY <1>1, <1>2, FaultlessAlways, Invariant, TypeInvariant, PTL DEF Spec

\* As long as at most one file operation has failed, the token that putBinding
\* was handed last, the only one that the provider still accepts, is in the
\* files at every point and after every crash, except for what AtRisk names: a
\* crash before the save of the next put or remove after that failure.
THEOREM RotatedTokenRecoverableAlways == Spec => []RotatedTokenRecoverable
<1>1. OneFaultInv => RotatedTokenRecoverable
  BY DEF OneFaultInv, FilesKeep, HasToken, RotatedTokenRecoverable
<1> QED
  BY <1>1, OneFaultAlways, PTL
=============================================================================
