----------------------- MODULE RefreshScheduleProofs -----------------------
(***************************************************************************)
(* What holds of the refresh schedule for every choice of its times and    *)
(* bounds, whatever fails and however often the process restarts: how long *)
(* package auth keeps a permission after the provider's last word, and that*)
(* a denied account is left in peace.  Where refreshAhead leaves time for    *)
(* two sweeps, one failed refresh costs nobody a permission.               *)
(***************************************************************************)
EXTENDS RefreshSchedule, TLAPS

\* What the place x holds, which lets a permission last for t, lets it last no
\* longer than a word that may come back, nor than the last word if x has it.
Bounded(x, t) ==
    /\ t <= given
    /\ x \in current => t <= word

\* PermissionBounded, of everything that may still reach package auth.
BoundedInv ==
    /\ Bounded("item", GrantOf(item))
    /\ Bounded("main", GrantOf(main))
    /\ Bounded("wal", GrantOf(wal))
    /\ Bounded("auth", grant)

IInv == TypeOK /\ BoundedInv

-----------------------------------------------------------------------------
(* Lemmas about the operators.                                             *)

\* The larger and the smaller of two numbers.
LEMMA MaxOfTwo ==
    ASSUME NEW a \in Nat, NEW b \in Nat
    PROVE  Max({a, b}) \in Nat /\ Max({a, b}) >= a /\ Max({a, b}) >= b
<1>1. \E x \in {a, b} : \A y \in {a, b} : x >= y
  <2>1. CASE a >= b
    BY <2>1
  <2>2. CASE b >= a
    BY <2>2
  <2> QED BY <2>1, <2>2
<1> QED BY <1>1 DEF Max

LEMMA MinOfTwo ==
    ASSUME NEW a \in Nat, NEW b \in Nat
    PROVE  Min({a, b}) \in 0..b
<1>1. \E x \in {a, b} : \A y \in {a, b} : x <= y
  <2>1. CASE a <= b
    BY <2>1
  <2>2. CASE b <= a
    BY <2>2
  <2> QED BY <2>1, <2>2
<1> QED BY <1>1 DEF Min

\* The bounds are numbers, and a span of time begins at 0.
LEMMA Bounds ==
    /\ Minute \in 0..Minute /\ Interval \in 0..Interval /\ 0 \in 0..Interval
    /\ 0 \in 0..SweepTime /\ SweepTime \in Nat /\ MaxFaults \in Nat
    /\ 0 \in 0..MaxFaults /\ 0 \in 0..MaxRestarts /\ MaxRestarts \in Nat
    /\ 0 \in 0..Tolerated /\ Tolerated \in 0..Tolerated
BY ScheduleAssumption

\* What package auth is told of a binding is a time.
LEMMA GrantKind ==
    ASSUME NEW b \in Binding \union {NoBinding}
    PROVE  GrantOf(b) \in Nat
BY DEF GrantOf, Binding

\* Time passing keeps the kind of a binding and the order of two times.
LEMMA LaterKind == ASSUME NEW t \in Nat PROVE Later(t) \in Nat /\ Later(t) <= t
BY ScheduleAssumption DEF Later

LEMMA LaterOrder ==
    ASSUME NEW s \in Nat, NEW t \in Nat, s <= t
    PROVE  Later(s) <= Later(t)
BY ScheduleAssumption DEF Later

LEMMA AgedKind ==
    ASSUME NEW b \in Binding \union {NoBinding}
    PROVE  /\ Aged(b) \in Binding \union {NoBinding}
           /\ GrantOf(Aged(b)) = Later(GrantOf(b))
<1>1. CASE b = NoBinding
  BY <1>1, ScheduleAssumption DEF Aged, GrantOf, Later
<1>2. CASE b # NoBinding
  <2>1. /\ b = [perms |-> b.perms, access |-> b.access, next |-> b.next]
        /\ b.perms \in BOOLEAN /\ b.next \in Nat
        /\ b.access \in Nat \union {NoExpiry}
    BY <1>2 DEF Binding
  <2>2. Aged(b) = [perms |-> b.perms, access |-> Later(b.access),
                   next |-> Later(b.next)]
    BY <1>2, <2>1 DEF Aged
  <2>3. Later(b.next) \in Nat /\ Later(b.access) \in Nat \union {NoExpiry}
    BY <2>1, LaterKind DEF Later
  <2>4. Aged(b) \in Binding
    BY <2>1, <2>2, <2>3 DEF Binding
  <2>5. (Later(b.access) = NoExpiry) <=> (b.access = NoExpiry)
    BY <2>1, LaterKind, ScheduleAssumption DEF Later
  <2>6. Aged(b) # NoBinding
    BY <2>4, NoBindingAssumption
  <2>7. Later(0) = 0
    BY DEF Later
  <2>8. GrantOf(Aged(b)) = IF ~b.perms \/ b.access = NoExpiry
                           THEN 0 ELSE Later(b.access)
    BY <2>2, <2>5, <2>6 DEF GrantOf
  <2> QED BY <1>2, <2>4, <2>7, <2>8 DEF GrantOf
<1> QED BY <1>1, <1>2

-----------------------------------------------------------------------------
LEMMA InvInit == Init => IInv
<1> SUFFICES ASSUME Init PROVE IInv
  OBVIOUS
<1>1. TypeOK
  <2>1. sweep \in [stage : {"idle", "pending", "others"}, left : 0..SweepTime]
    BY Bounds DEF Init, Idle
  <2> QED BY <2>1, Bounds DEF Init, TypeOK
<1>2. BoundedInv
  BY DEF Init, BoundedInv, Bounded, GrantOf
<1> QED BY <1>1, <1>2 DEF IInv

\* What the invariant says of the parts that a refresh changes.
Kinds ==
    /\ {item, main, wal} \subseteq Binding \union {NoBinding}
    /\ grant \in Nat
    /\ faults \in 0..MaxFaults
    /\ word \in Nat
    /\ current \subseteq Places
    /\ given \in Nat
    /\ quiet \in 0..Interval
    /\ setbacks \in 0..Tolerated

\* After the provider's word is b, and the places of c hold it, a place is
\* bounded that holds b, or nothing, or what it did while it is not one of c.
LEMMA SpeaksKeeps ==
    ASSUME given \in Nat, NEW b \in Binding \union {NoBinding},
           NEW c \in SUBSET Places, Speaks(b, c)
    PROVE  /\ word' \in Nat /\ given' \in Nat /\ current' \subseteq Places
           /\ \A x \in Places, s, t \in Nat :
                  /\ s <= given
                  /\ t = GrantOf(b) \/ t = 0 \/ (t = s /\ x \notin c)
                  => t <= given' /\ (x \in current' => t <= word')
<1> DEFINE m == Max({given, GrantOf(b)})
<1>1. /\ GrantOf(b) \in Nat
      /\ m \in Nat /\ m >= given /\ m >= GrantOf(b)
  BY GrantKind, MaxOfTwo
<1>2. /\ word' = GrantOf(b) /\ current' = c
      /\ given' = IF c = Places THEN GrantOf(b) ELSE m
  BY DEF Speaks
<1> HIDE DEF m
<1>3. ASSUME NEW x \in Places, NEW s \in Nat, NEW t \in Nat, s <= given,
             t = GrantOf(b) \/ t = 0 \/ (t = s /\ x \notin c)
      PROVE  t <= given' /\ (x \in current' => t <= word')
  BY <1>1, <1>2, <1>3
<1> QED BY <1>1, <1>2, <1>3

\* A grant is stored, whatever its outcome.
LEMMA PutKeeps ==
    ASSUME Kinds, BoundedInv, NEW b \in Binding, Put(b)
    PROVE  Kinds' /\ BoundedInv'
<1>1. /\ GrantOf(main) \in Nat /\ GrantOf(wal) \in Nat /\ grant \in Nat
      /\ GrantOf(main) <= given /\ GrantOf(wal) <= given /\ grant <= given
      /\ GrantOf(b) \in Nat /\ GrantOf(NoBinding) = 0
      /\ {"item", "main", "wal", "auth"} = Places
  BY GrantKind DEF Kinds, BoundedInv, Bounded, GrantOf, Places
<1>2. /\ item' \in {b}
      /\ main' \in {main, b}
      /\ wal' \in {wal, b, NoBinding}
      /\ grant' \in {grant, GrantOf(b)}
      /\ quiet' = 0
      /\ setbacks' \in {0, Tolerated}
      /\ faults' = faults \/ Fail
  <2>1. CASE Stored(b)
    BY <2>1 DEF Put, Stored
  <2>2. CASE StoredWithoutWAL(b)
    BY <2>2 DEF Put, StoredWithoutWAL
  <2>3. CASE StoredInWAL(b)
    BY <2>3 DEF Put, StoredInWAL
  <2>4. CASE NotStored(b)
    BY <2>4 DEF Put, NotStored, Unsaved
  <2> QED BY <2>1, <2>2, <2>3, <2>4 DEF Put
\* The places that are said to hold b do.
<1>3. PICK c \in SUBSET Places :
        /\ Speaks(b, c)
        /\ "main" \in c => main' = b
        /\ "wal" \in c => wal' = b \/ wal' = NoBinding
        /\ "wal" \notin c => wal' = wal
        /\ "auth" \in c => grant' = GrantOf(b)
  <2>1. CASE Stored(b)
    BY <1>1, <2>1 DEF Stored
  <2>2. CASE StoredWithoutWAL(b)
    <3> DEFINE c == {"item", "main", "auth"} \union NoOlderWAL
    <3>1. c \in SUBSET Places
      BY <1>1 DEF NoOlderWAL
    <3> QED BY <2>2, <3>1 DEF StoredWithoutWAL, NoOlderWAL
  <2>3. CASE StoredInWAL(b)
    <3> DEFINE c == {"item", "wal"} \union {x \in {"main"} : main' = b}
    <3>1. PICK d \in SUBSET Places : d = c
      BY <1>1
    <3>2. Speaks(b, d) /\ wal' = b /\ ("main" \in d => main' = b)
          /\ "wal" \in d /\ "auth" \notin d
      BY <2>3, <3>1 DEF StoredInWAL
    <3> QED BY <3>2
  <2>4. CASE NotStored(b)
    <3> DEFINE c == {"item", "auth"} \union NoOlderWAL
    <3>1. c \in SUBSET Places
      BY <1>1 DEF NoOlderWAL
    <3> QED BY <2>4, <3>1 DEF NotStored, Unsaved, NoOlderWAL
  <2> QED BY <2>1, <2>2, <2>3, <2>4 DEF Put
<1>4. /\ word' \in Nat /\ given' \in Nat /\ current' \subseteq Places
      /\ \A x \in Places, s, t \in Nat :
             /\ s <= given
             /\ t = GrantOf(b) \/ t = 0 \/ (t = s /\ x \notin c)
             => t <= given' /\ (x \in current' => t <= word')
  BY <1>3, SpeaksKeeps DEF Kinds
<1>5. Kinds'
  <2>1. faults' \in 0..MaxFaults
    BY <1>2, Bounds DEF Kinds, Fail
  <2> QED BY <1>1, <1>2, <1>4, <2>1, Bounds DEF Kinds
<1>6. /\ GrantOf(item') = GrantOf(b)
      /\ GrantOf(main') = GrantOf(b) \/ (GrantOf(main') = GrantOf(main) /\ "main" \notin c)
      /\ \/ GrantOf(wal') = GrantOf(b) \/ GrantOf(wal') = 0
         \/ GrantOf(wal') = GrantOf(wal) /\ "wal" \notin c
      /\ grant' = GrantOf(b) \/ (grant' = grant /\ "auth" \notin c)
  BY <1>1, <1>2, <1>3
<1>7. /\ GrantOf(item') \in Nat /\ GrantOf(main') \in Nat
      /\ GrantOf(wal') \in Nat /\ grant' \in Nat
  BY <1>1, <1>6
<1>8. /\ "item" \in Places /\ "main" \in Places /\ "wal" \in Places /\ "auth" \in Places
  BY <1>1
<1>9. /\ GrantOf(item') <= given' /\ ("item" \in current' => GrantOf(item') <= word')
      /\ GrantOf(main') <= given' /\ ("main" \in current' => GrantOf(main') <= word')
  BY <1>1, <1>4, <1>6, <1>7, <1>8
<1>10. /\ GrantOf(wal') <= given' /\ ("wal" \in current' => GrantOf(wal') <= word')
       /\ grant' <= given' /\ ("auth" \in current' => grant' <= word')
  BY <1>1, <1>4, <1>6, <1>7, <1>8
<1> QED BY <1>5, <1>9, <1>10 DEF BoundedInv, Bounded

\* A login or a refresh the provider grants.
LEMMA RenewedKeeps == Kinds /\ BoundedInv /\ Renewed => Kinds' /\ BoundedInv'
<1> SUFFICES ASSUME Kinds, BoundedInv, Renewed
             PROVE  Kinds' /\ BoundedInv'
  OBVIOUS
<1>1. PICK p \in BOOLEAN, t \in Lifetimes : Put(Granted(p, t))
  BY DEF Renewed
<1>2. Granted(p, t) \in Binding
  BY ScheduleAssumption DEF Granted, Binding
<1> QED BY <1>1, <1>2, PutKeeps

\* A refresh, whatever the provider answers.
LEMMA RefreshKeeps == Kinds /\ BoundedInv /\ RefreshOne => Kinds' /\ BoundedInv'
<1> SUFFICES ASSUME Kinds, BoundedInv, RefreshOne
             PROVE  Kinds' /\ BoundedInv'
  OBVIOUS
<1>1. item \in Binding /\ Interval \in Nat
  BY ScheduleAssumption DEF RefreshOne, Kinds
<1>2. Setback => setbacks' \in 0..Tolerated
  <2>1. setbacks + 1 \in Nat /\ Tolerated \in Nat
    BY ScheduleAssumption DEF Kinds
  <2> QED BY <2>1, MinOfTwo DEF Setback
<1>3. CASE Renewed
  BY <1>3, RenewedKeeps
<1>4. CASE RecordFailure
  <2>1. /\ item' \in Binding
        /\ item'.perms = item.perms /\ item'.access = item.access
    BY <1>1, <1>4 DEF RecordFailure, Binding
  <2>2. GrantOf(item') = GrantOf(item)
    BY <1>1, <2>1, NoBindingAssumption DEF GrantOf
  <2>3. /\ main' = item' /\ current' \subseteq Places
        /\ "item" \in current' => "item" \in current
        /\ "main" \in current' => "item" \in current
        /\ "wal" \in current' => "wal" \in current
        /\ "auth" \in current' => "auth" \in current
    BY <1>4 DEF RecordFailure, Kinds, Places
  <2> QED
    BY <1>2, <1>4, <2>1, <2>2, <2>3
    DEF RecordFailure, Kinds, BoundedInv, Bounded
<1>5. CASE RecordDenial
  <2>1. /\ item' = DeniedItem /\ DeniedItem \in Binding /\ main' = item'
        /\ GrantOf(DeniedItem) = 0 /\ grant' = 0 /\ wal' = wal
    BY <1>1, <1>5 DEF RecordDenial, DeniedItem, Binding, GrantOf
  <2>2. PICK c \in SUBSET Places :
          /\ Speaks(DeniedItem, c)
          /\ "wal" \in c => wal = NoBinding
    <3> DEFINE d == {"item", "main", "auth"} \union NoOlderWAL
    <3>1. d \in SUBSET Places
      BY DEF NoOlderWAL, Places
    <3> QED BY <1>5, <3>1 DEF RecordDenial, NoOlderWAL
  <2>3. /\ word' \in Nat /\ given' \in Nat /\ current' \subseteq Places
        /\ \A x \in Places, s, t \in Nat :
               /\ s <= given
               /\ t = GrantOf(DeniedItem) \/ t = 0 \/ (t = s /\ x \notin c)
               => t <= given' /\ (x \in current' => t <= word')
    BY <2>1, <2>2, SpeaksKeeps DEF Kinds
  <2>4. /\ GrantOf(wal) \in Nat /\ GrantOf(wal) <= given
        /\ GrantOf(NoBinding) = 0
        /\ "item" \in Places /\ "main" \in Places /\ "wal" \in Places /\ "auth" \in Places
    BY GrantKind DEF Kinds, BoundedInv, Bounded, GrantOf, Places
  <2>5. 0 <= given' /\ 0 <= word'
    BY <2>3
  <2>6. GrantOf(wal) <= given' /\ ("wal" \in current' => GrantOf(wal) <= word')
    BY <2>2, <2>3, <2>4
  <2>7. BoundedInv'
    BY <2>1, <2>5, <2>6 DEF BoundedInv, Bounded
  <2>8. Kinds'
    BY <1>1, <1>2, <1>5, <2>1, <2>3 DEF RecordDenial, Kinds
  <2> QED BY <2>7, <2>8
<1>6. CASE RecordFails
  BY <1>2, <1>6, ScheduleAssumption
  DEF RecordFails, Fail, store, spoken, Kinds, BoundedInv, Bounded
<1> QED BY <1>3, <1>4, <1>5, <1>6 DEF RefreshOne

\* Time passes.
LEMMA ElapseKeeps == IInv /\ Elapse => IInv'
<1> SUFFICES ASSUME IInv, Elapse PROVE IInv'
  OBVIOUS
<1>1. /\ item \in Binding \union {NoBinding}
      /\ main \in Binding \union {NoBinding}
      /\ wal \in Binding \union {NoBinding}
      /\ grant \in Nat /\ word \in Nat /\ given \in Nat /\ quiet \in Nat
      /\ sweep.left \in Nat
  BY ScheduleAssumption DEF IInv, TypeOK
<1>2. {item', main', wal'} \subseteq Binding \union {NoBinding}
  BY <1>1, AgedKind DEF Elapse
<1>3. /\ grant' \in Nat /\ word' \in Nat /\ given' \in Nat
      /\ quiet' \in Nat /\ quiet' <= quiet
      /\ Later(sweep.left) \in Nat /\ Later(sweep.left) <= sweep.left
  BY <1>1, LaterKind DEF Elapse
<1>4. cronIn' \in 0..Minute
  BY ScheduleAssumption DEF Elapse, IInv, TypeOK
<1>5. TypeOK'
  BY <1>2, <1>3, <1>4, ScheduleAssumption DEF Elapse, IInv, TypeOK
<1>6. BoundedInv'
  <2>1. current' = current /\ word' = Later(word) /\ given' = Later(given)
    BY DEF Elapse
  <2>2. ASSUME NEW x, NEW t \in Nat, Bounded(x, t)
        PROVE  Later(t) <= given' /\ (x \in current' => Later(t) <= word')
    BY <1>1, <2>1, <2>2, LaterOrder DEF Bounded
  <2>3. ASSUME NEW x, NEW b \in Binding \union {NoBinding}, Bounded(x, GrantOf(b))
        PROVE  GrantOf(Aged(b)) <= given' /\ (x \in current' => GrantOf(Aged(b)) <= word')
    BY <2>2, <2>3, AgedKind, GrantKind
  <2>4. /\ item' = Aged(item) /\ main' = Aged(main) /\ wal' = Aged(wal)
        /\ grant' = Later(grant)
    BY DEF Elapse
  <2> QED
    BY <1>1, <2>2, <2>3, <2>4 DEF IInv, BoundedInv, Bounded
<1> QED BY <1>5, <1>6 DEF IInv

\* The rest of the state keeps its kind beside a refresh.
Rest ==
    /\ up \in BOOLEAN
    /\ cronIn \in 0..Minute
    /\ sweep \in [stage : {"idle", "pending", "others"}, left : 0..SweepTime]
    /\ restarts \in 0..MaxRestarts

LEMMA Parts == IInv <=> Kinds /\ Rest /\ BoundedInv
BY DEF IInv, TypeOK, Kinds, Rest

LEMMA InvNext == IInv /\ [Next]_vars => IInv'
<1> SUFFICES ASSUME IInv, [Next]_vars PROVE IInv'
  OBVIOUS
<1> USE DEF Bounded
<1>0. /\ Kinds /\ Rest /\ BoundedInv
      /\ (Kinds' /\ Rest' /\ BoundedInv' => IInv')
  BY Parts DEF IInv, TypeOK, Kinds, Rest
<1>1. GrantOf(NoBinding) = 0
  BY DEF GrantOf
<1>2. CASE RefreshNow
  <2>1. Rest'
    BY <1>0, <1>2 DEF RefreshNow, Rest
  <2> QED BY <1>0, <1>2, <2>1, RefreshKeeps DEF RefreshNow
<1>3. CASE Complete
  <2>1. Rest'
    BY <1>0, <1>3 DEF Complete, Rest
  <2> QED BY <1>0, <1>3, <2>1, RenewedKeeps DEF Complete
<1>4. CASE Remove
  <2>1. /\ word' = 0 /\ current' = Places /\ given' = 0
    BY <1>1, <1>4 DEF Remove, Speaks
  <2> QED
    BY <1>0, <1>1, <1>4, <2>1, ScheduleAssumption
    DEF Remove, Kinds, Rest, BoundedInv
<1>5. CASE RemoveFails
  BY <1>0, <1>1, <1>5, ScheduleAssumption
  DEF RemoveFails, Fail, Kinds, Rest, BoundedInv, Places
<1>6. CASE SweepBegins
  <2>1. PICK t \in 0..SweepTime :
            sweep' = [stage |-> IF Due(item) THEN "pending" ELSE "others",
                      left |-> t]
    BY <1>6 DEF SweepBegins
  <2>2. Rest'
    BY <1>0, <1>6, <2>1, ScheduleAssumption DEF SweepBegins, Rest
  <2> QED BY <1>0, <1>6, <2>2 DEF SweepBegins, store, spoken, Kinds, BoundedInv
<1>7. CASE SweepSkipped
  <2>1. setbacks' \in 0..Tolerated
    <3>1. setbacks + 1 \in Nat /\ Tolerated \in Nat
      BY <1>0, ScheduleAssumption DEF Kinds
    <3> QED BY <1>7, <3>1, MinOfTwo DEF SweepSkipped, Setback
  <2> QED
    BY <1>0, <1>7, <2>1, ScheduleAssumption
    DEF SweepSkipped, store, spoken, Kinds, Rest, BoundedInv
<1>8. CASE SweepRefreshes
  <2>1. Rest'
    BY <1>0, <1>8 DEF SweepRefreshes, Rest
  <2> QED BY <1>0, <1>8, <2>1, RefreshKeeps DEF SweepRefreshes
<1>9. CASE SweepFindsNone
  BY <1>0, <1>9 DEF SweepFindsNone, store, spoken, Kinds, Rest, BoundedInv
<1>10. CASE SweepEnds
  BY <1>0, <1>10, ScheduleAssumption
  DEF SweepEnds, Idle, store, spoken, Kinds, Rest, BoundedInv
<1>11. CASE Crash
  <2>1. Rest'
    <3>1. sweep' \in [stage : {"idle", "pending", "others"}, left : 0..SweepTime]
      BY <1>11, Bounds DEF Crash, Idle
    <3>2. restarts' \in 0..MaxRestarts
      BY <1>0, <1>11, Bounds DEF Crash, Rest
    <3> QED BY <1>11, <3>1, <3>2, Bounds DEF Crash, Rest
  <2>2. Kinds' /\ BoundedInv'
    BY <1>0, <1>1, <1>11, Bounds DEF Crash, Unsaved, spoken, Kinds, BoundedInv
  <2> QED BY <1>0, <2>1, <2>2
<1>12. CASE Start
  <2>1. /\ Recovered \in Binding \union {NoBinding}
        /\ GrantOf(Recovered) \in Nat
        /\ GrantOf(Recovered) <= given
        /\ Source \in current => GrantOf(Recovered) <= word
    BY <1>0, GrantKind DEF Recovered, Source, Kinds, BoundedInv
  <2>2. current' \subseteq Places /\ word \in Nat /\ given \in Nat
    BY <1>0, <1>12 DEF Start, Kinds, Places
  <2>3. Source \notin current => current' = {"wal"}
    BY <1>12 DEF Start
  <2>4. BoundedInv'
    BY <1>1, <1>12, <2>1, <2>2, <2>3 DEF Start, BoundedInv
  <2> QED
    BY <1>0, <1>1, <1>12, <2>1, <2>2, <2>4, ScheduleAssumption
    DEF Start, Kinds, Rest
<1>13. CASE Elapse
  BY <1>13, ElapseKeeps
<1>14. CASE UNCHANGED vars
  BY <1>0, <1>14 DEF vars, store, spoken, Kinds, Rest, BoundedInv, GrantOf
<1> QED
  BY <1>2, <1>3, <1>4, <1>5, <1>6, <1>7, <1>8, <1>9, <1>10, <1>11, <1>12,
     <1>13, <1>14
  DEF Next, Sweep, Command

-----------------------------------------------------------------------------
LEMMA InvAlways == Spec => []IInv
BY InvInit, InvNext, PTL DEF Spec

\* Every variable of the schedule keeps its kind, whatever times and bounds.
THEOREM TypeCorrect == Spec => []TypeOK
<1>1. IInv => TypeOK
  BY DEF IInv
<1> QED BY InvAlways, <1>1, PTL

\* Package auth keeps a permission no longer than the provider's last word lets
\* it last, unless putBinding has failed before telling it or the process has
\* started from an older file, and then no longer than such an older word: for
\* any lifetimes and any number of failures and restarts.
THEOREM PermissionBoundedAlways == Spec => []PermissionBounded
<1>1. IInv => PermissionBounded
  BY DEF IInv, BoundedInv, Bounded, PermissionBounded
<1> QED BY InvAlways, <1>1, PTL

-----------------------------------------------------------------------------
(* A denied account is left in peace: its binding has no end of an access  *)
(* that could make it due, and its next refresh is not before the end of   *)
(* the interval, in memory and in the file that a restart reads.           *)

Resting(b) == b = NoBinding \/ (b.access = NoExpiry /\ b.next >= quiet)

RestingInv == quiet > 0 => Resting(main) /\ Resting(item)

Awaited == sweep.stage # "pending" /\ sweep'.stage = "pending" => quiet = 0

LEMMA RestingInit == Init => RestingInv
BY DEF Init, RestingInv

\* A refresh ends the rest, renews it, or leaves it alone.
LEMMA RefreshRests ==
    ASSUME IInv, RestingInv, RefreshOne
    PROVE  RestingInv'
<1>1. quiet \in 0..Interval /\ Interval \in Nat
  BY ScheduleAssumption DEF IInv, TypeOK
<1>2. CASE Renewed
  BY <1>2 DEF Renewed, Put, RestingInv
<1>3. CASE RecordFailure
  <2>1. item \in Binding
    BY DEF RefreshOne, IInv, TypeOK
  <2>2. item'.next = Interval /\ item'.access = item.access
    BY <1>3, <2>1 DEF RecordFailure, Binding
  <2>3. quiet' = quiet /\ main' = item'
    BY <1>3 DEF RecordFailure
  <2>4. quiet > 0 => item.access = NoExpiry
    BY <2>1, NoBindingAssumption DEF RestingInv, Resting
  <2> QED BY <1>1, <2>2, <2>3, <2>4 DEF RestingInv, Resting
<1>4. CASE RecordDenial
  BY <1>1, <1>4 DEF RecordDenial, DeniedItem, RestingInv, Resting
<1>5. CASE RecordFails
  BY <1>5 DEF RecordFails, store, RestingInv, Resting
<1> QED BY <1>2, <1>3, <1>4, <1>5 DEF RefreshOne

\* Time brings the next refresh no nearer than the end of the rest.
LEMMA ElapseRests == IInv /\ RestingInv /\ Elapse => RestingInv'
<1> SUFFICES ASSUME IInv, RestingInv, Elapse, quiet' > 0 PROVE RestingInv'
  BY DEF RestingInv
<1>1. quiet \in Nat /\ quiet' = Later(quiet)
  BY ScheduleAssumption DEF IInv, TypeOK, Elapse
<1>2. quiet > 0
  BY <1>1, LaterKind
<1>3. ASSUME NEW b \in Binding \union {NoBinding}, Resting(b)
      PROVE  \/ Aged(b) = NoBinding
             \/ Aged(b).access = NoExpiry /\ Aged(b).next >= quiet'
  <2>1. CASE b = NoBinding
    BY <2>1 DEF Aged
  <2>2. CASE b # NoBinding
    <3>1. b \in Binding /\ b.next \in Nat /\ quiet <= b.next
          /\ b.access = NoExpiry
      BY <1>1, <1>3, <2>2 DEF Resting, Binding
    <3>2. Aged(b).access = NoExpiry /\ Aged(b).next = Later(b.next)
      BY <2>2, <3>1 DEF Aged, Binding, Later
    <3>3. Later(quiet) <= Later(b.next) /\ Later(b.next) \in Nat
      BY <1>1, <3>1, LaterOrder, LaterKind
    <3> QED BY <1>1, <3>2, <3>3, LaterKind
  <2> QED BY <2>1, <2>2
<1>4. item \in Binding \union {NoBinding} /\ main \in Binding \union {NoBinding}
  BY DEF IInv, TypeOK
<1>5. item' = Aged(item) /\ main' = Aged(main)
  BY DEF Elapse
<1>6. Resting(main) /\ Resting(item)
  BY <1>2 DEF RestingInv
<1> QED BY <1>3, <1>4, <1>5, <1>6 DEF RestingInv, Resting

LEMMA RestingNext == IInv /\ RestingInv /\ [Next]_vars => RestingInv' /\ Awaited
<1> SUFFICES ASSUME IInv, RestingInv, [Next]_vars PROVE RestingInv' /\ Awaited
  OBVIOUS
<1>1. quiet \in Nat
  BY ScheduleAssumption DEF IInv, TypeOK
<1>2. CASE RefreshNow
  BY <1>2, RefreshRests DEF RefreshNow, Awaited
<1>3. CASE Complete
  BY <1>3 DEF Complete, Renewed, Put, RestingInv, Awaited
<1>4. CASE Remove
  BY <1>4 DEF Remove, RestingInv, Awaited
<1>5. CASE RemoveFails
  BY <1>5 DEF RemoveFails, RestingInv, Resting, Awaited
<1>6. CASE SweepBegins
  <2>1. PICK t \in 0..SweepTime :
            sweep' = [stage |-> IF Due(item) THEN "pending" ELSE "others",
                      left |-> t]
    BY <1>6 DEF SweepBegins
  <2>2. Awaited
    <3> SUFFICES ASSUME sweep'.stage = "pending", quiet # 0 PROVE FALSE
      BY DEF Awaited
    <3>1. Due(item)
      BY <2>1
    <3>2. Resting(item) /\ item # NoBinding /\ item.next > 0
      BY <1>1, <1>6, <3>1 DEF SweepBegins, RestingInv, Resting, Due
    <3> QED BY <1>1, <3>1, <3>2 DEF Due, Resting
  <2>3. RestingInv'
    BY <1>6 DEF SweepBegins, store, RestingInv, Resting
  <2> QED BY <2>2, <2>3
<1>7. CASE SweepSkipped
  BY <1>7 DEF SweepSkipped, store, RestingInv, Resting, Awaited
<1>8. CASE SweepRefreshes
  BY <1>8, RefreshRests DEF SweepRefreshes, Awaited
<1>9. CASE SweepFindsNone
  BY <1>9 DEF SweepFindsNone, store, RestingInv, Resting, Awaited
<1>10. CASE SweepEnds
  BY <1>10 DEF SweepEnds, Idle, store, RestingInv, Resting, Awaited
<1>11. CASE Crash
  BY <1>11 DEF Crash, Unsaved, Idle, RestingInv, Resting, Awaited
<1>12. CASE Start
  BY <1>12 DEF Start, Recovered, RestingInv, Resting, Awaited
<1>13. CASE Elapse
  <2>1. sweep'.stage = sweep.stage
    BY <1>13 DEF Elapse, IInv, TypeOK
  <2> QED BY <1>13, <2>1, ElapseRests DEF Awaited
<1>14. CASE UNCHANGED vars
  BY <1>14 DEF vars, store, RestingInv, Resting, Awaited
<1> QED
  BY <1>2, <1>3, <1>4, <1>5, <1>6, <1>7, <1>8, <1>9, <1>10, <1>11, <1>12,
     <1>13, <1>14
  DEF Next, Sweep, Command

\* A sweep leaves a denied account in peace for an interval, whatever the
\* times, and whatever fails or restarts meanwhile.
THEOREM DenialHeededAlways == Spec => DenialHeeded
<1>1. IInv /\ RestingInv /\ [Next]_vars => RestingInv'
  BY RestingNext
<1>2. IInv /\ RestingInv /\ [Next]_vars => [Awaited]_vars
  BY RestingNext
<1>3. DenialHeeded <=> [][Awaited]_vars
  BY PTL DEF DenialHeeded, Awaited
<1> QED BY InvAlways, RestingInit, <1>1, <1>2, <1>3, PTL DEF Spec

-----------------------------------------------------------------------------
(* One failure is forgiven.  This depends on how the times compare.        *)

\* refreshAhead leaves time for the firing of cron that finds the access ending,
\* for one more after a failed refresh or a skipped sweep, and for a sweep to
\* come to the account; what the provider grants lasts longer than that; and
\* the second setback in a row is told from the first.
Proportions ==
    /\ Ahead >= 2 * Minute + SweepTime
    /\ \A t \in Lifetimes : t > 2 * Minute + SweepTime
    /\ Tolerated >= 2

\* The time until the account must have been refreshed for the access not to
\* end first, if from here on there are no more setbacks than are forgiven: a
\* sweep that has taken it up comes to it in time, or the next one does; and
\* before the first setback there is time for yet another.
Needed ==
    IF setbacks = 0
    THEN IF sweep.stage = "pending" THEN cronIn + SweepTime
                                    ELSE cronIn + Minute + SweepTime
    ELSE IF sweep.stage = "pending" THEN sweep.left ELSE cronIn + SweepTime

\* An account whose setbacks are forgiven.
Favoured == up /\ item # NoBinding /\ setbacks <= 1 /\ item.perms

InTime ==
    /\ item.access \in Nat
    /\ grant = item.access
    /\ item.access > Needed

TimelyInv ==
    /\ ~up => setbacks = Tolerated /\ item = NoBinding
    /\ Favoured => InTime

LEMMA TimelyInit == Init => TimelyInv
BY DEF Init, TimelyInv, Favoured

\* A setback is counted as long as it matters.
LEMMA SetbackCounts ==
    ASSUME Proportions, TypeOK, Setback
    PROVE  /\ setbacks' \in Nat /\ setbacks' >= 1
           /\ setbacks' <= 1 => setbacks = 0 /\ setbacks' = 1
           /\ setbacks = Tolerated => setbacks' = Tolerated
<1>1. setbacks \in Nat /\ setbacks <= Tolerated /\ Tolerated \in Nat /\ Tolerated >= 2
  BY ScheduleAssumption DEF TypeOK, Proportions
<1>2. \A a, b \in Nat : Min({a, b}) = IF a <= b THEN a ELSE b
  <2> SUFFICES ASSUME NEW a \in Nat, NEW b \in Nat
               PROVE  Min({a, b}) = IF a <= b THEN a ELSE b
    OBVIOUS
  <2>1. \E x \in {a, b} : \A y \in {a, b} : x <= y
    <3>1. CASE a <= b
      BY <3>1
    <3>2. CASE b <= a
      BY <3>2
    <3> QED BY <3>1, <3>2
  <2>2. /\ Min({a, b}) \in {a, b}
        /\ \A y \in {a, b} : Min({a, b}) <= y
    BY <2>1 DEF Min
  <2> QED BY <2>2
<1>3. setbacks' = IF setbacks + 1 <= Tolerated THEN setbacks + 1 ELSE Tolerated
  BY <1>1, <1>2 DEF Setback
<1> QED BY <1>1, <1>3

\* A refresh that the provider grants leaves time for everything, unless only
\* the write-ahead file holds it.
LEMMA RenewedTimely ==
    ASSUME Proportions, TypeOK, TypeOK', Renewed, up, UNCHANGED <<up, cronIn>>
    PROVE  TimelyInv'
<1>1. PICK p \in BOOLEAN, t \in Lifetimes : Put(Granted(p, t))
  BY DEF Renewed
<1>2. /\ item' = Granted(p, t) /\ t \in Nat /\ t # NoExpiry
      /\ Granted(p, t) \in Binding /\ Granted(p, t).access = t
      /\ Granted(p, t).perms = p
  BY <1>1, ScheduleAssumption DEF Put, Granted, Binding
<1>3. CASE StoredInWAL(Granted(p, t))
  BY <1>2, <1>3, ScheduleAssumption DEF StoredInWAL, TimelyInv, Favoured, Proportions
<1>4. CASE ~StoredInWAL(Granted(p, t))
  <2>1. setbacks' = 0 /\ grant' = GrantOf(Granted(p, t))
    BY <1>1, <1>4 DEF Put, Stored, StoredWithoutWAL, NotStored
  <2>2. p => grant' = t
    BY <1>2, <2>1, NoBindingAssumption DEF GrantOf
  <2>3. cronIn' \in 0..Minute /\ sweep'.left \in Nat
        /\ SweepTime \in Nat /\ Minute \in Nat
    BY ScheduleAssumption DEF TypeOK
  <2>4. t > 2 * Minute + SweepTime
    BY DEF Proportions
  <2>5. t > Needed'
    BY <1>2, <2>1, <2>3, <2>4 DEF Needed
  <2>6. item'.access = t /\ item'.perms = p
    BY <1>2
  <2> QED BY <1>2, <2>2, <2>5, <2>6 DEF TimelyInv, Favoured, InTime
<1> QED BY <1>3, <1>4

\* The first setback shortens the time that is needed by at least as much as
\* it takes, whether a sweep has brought it about or a command.
LEMMA SetbackNeeds ==
    ASSUME Proportions, TypeOK, TypeOK', setbacks = 0, setbacks' = 1,
           cronIn' = cronIn \/ (cronIn = 0 /\ cronIn' = Minute /\ sweep' = sweep),
           sweep' = sweep
           \/ (sweep.stage = "pending" /\ sweep'.stage = "others" /\ cronIn' = cronIn)
    PROVE  Needed' <= Needed
<1>1. /\ cronIn \in Nat /\ cronIn' \in Nat /\ Minute \in Nat /\ SweepTime \in Nat
      /\ sweep.left \in Nat /\ sweep.left <= SweepTime
      /\ sweep'.left \in Nat /\ sweep'.left <= SweepTime
  BY ScheduleAssumption DEF TypeOK
<1> DEFINE pending == sweep.stage = "pending"
<1>a. /\ Needed = IF pending THEN cronIn + SweepTime ELSE cronIn + Minute + SweepTime
      /\ pending' => Needed' = sweep'.left
      /\ ~pending' => Needed' = cronIn' + SweepTime
  BY DEF Needed
<1> HIDE DEF pending
<1>2. CASE sweep' = sweep
  <2>1. pending' <=> pending
    BY <1>2 DEF pending
  <2>2. cronIn' = cronIn \/ (cronIn = 0 /\ cronIn' = Minute)
    OBVIOUS
  <2>3. CASE pending
    BY <1>1, <1>a, <2>1, <2>3
  <2>4. CASE ~pending
    BY <1>1, <1>a, <2>1, <2>2, <2>4
  <2> QED BY <2>3, <2>4
<1>3. CASE sweep.stage = "pending" /\ sweep'.stage = "others" /\ cronIn' = cronIn
  <2>1. pending /\ ~pending'
    BY <1>3 DEF pending
  <2> QED BY <1>1, <1>3, <1>a, <2>1
<1> QED BY <1>2, <1>3

\* A refresh, by a command or by the worker that was to come to the account.
LEMMA RefreshTimely ==
    ASSUME Proportions, TypeOK, TypeOK', TimelyInv, RefreshOne, up,
           UNCHANGED <<up, cronIn>>,
           sweep' = sweep
           \/ (sweep.stage = "pending" /\ sweep'.stage = "others" /\ cronIn' = cronIn)
    PROVE  TimelyInv'
<1>1. CASE Renewed
  BY <1>1, RenewedTimely
<1>2. CASE RecordDenial
  BY <1>2 DEF RecordDenial, DeniedItem, TimelyInv, Favoured
<1>3. CASE RecordFailure \/ RecordFails
  <2>1. Setback /\ grant' = grant
    BY <1>3 DEF RecordFailure, RecordFails, store
  <2>2. item \in Binding
    BY DEF RefreshOne, TypeOK
  <2>3. item'.access = item.access /\ item'.perms = item.perms
    BY <1>3, <2>2 DEF RecordFailure, RecordFails, store, Binding
  <2> SUFFICES ASSUME Favoured' PROVE InTime'
    BY DEF TimelyInv
  <2>4. setbacks = 0 /\ setbacks' = 1
    BY <2>1, SetbackCounts DEF Favoured
  <2>5. InTime
    BY <2>2, <2>3, <2>4 DEF TimelyInv, Favoured, RefreshOne
  <2>6. Needed' <= Needed
    BY <2>4, SetbackNeeds
  <2>7. Needed \in Int /\ Needed' \in Int
    BY ScheduleAssumption DEF Needed, TypeOK
  <2> QED BY <2>1, <2>3, <2>5, <2>6, <2>7 DEF InTime
<1> QED BY <1>1, <1>2, <1>3 DEF RefreshOne

\* Time brings the end of the access and the next refresh nearer alike.
LEMMA ElapseTimely ==
    ASSUME Proportions, TypeOK, TypeOK', TimelyInv, Elapse
    PROVE  TimelyInv'
<1>1. up' = up /\ setbacks' = setbacks /\ item' = Aged(item)
  BY DEF Elapse
<1> SUFFICES ASSUME Favoured' PROVE InTime'
  BY <1>1 DEF TimelyInv, Aged
<1>2. item \in Binding \union {NoBinding}
  BY DEF TypeOK
<1>3. item # NoBinding
  BY <1>1 DEF Favoured, Aged
<1>4. item'.access = Later(item.access) /\ item'.perms = item.perms
  BY <1>1, <1>2, <1>3 DEF Aged, Binding
<1>5. InTime /\ up
  BY <1>1, <1>3, <1>4 DEF TimelyInv, Favoured
<1>6. /\ cronIn \in Nat /\ cronIn > 0 /\ cronIn' = cronIn - 1
      /\ Minute \in Nat /\ SweepTime \in Nat
  BY <1>5, ScheduleAssumption DEF Elapse, TypeOK
<1>7. /\ sweep.left \in Nat /\ sweep'.stage = sweep.stage
      /\ sweep'.left = Later(sweep.left)
      /\ sweep.stage = "pending" => sweep.left > 0
  BY ScheduleAssumption DEF Elapse, TypeOK, Idle
<1>8. Needed' = Needed - 1 /\ Needed \in Nat /\ Needed > 0
  BY <1>1, <1>6, <1>7, ScheduleAssumption DEF Needed, Later
<1>9. item.access \in Nat /\ item.access > Needed /\ grant = item.access
  BY <1>5 DEF InTime
<1>10. /\ Later(item.access) = item.access - 1
       /\ grant' = item.access - 1
  BY <1>8, <1>9, ScheduleAssumption DEF Later, Elapse
<1> QED BY <1>4, <1>8, <1>9, <1>10 DEF InTime

\* A sweep that begins takes up an account whose access ends soon; one whose
\* access does not has time until the sweep after the next.
LEMMA SweepBeginsTimely ==
    ASSUME Proportions, TypeOK, TypeOK', TimelyInv, SweepBegins
    PROVE  TimelyInv'
<1>1. UNCHANGED <<up, item, grant, setbacks>>
  BY DEF SweepBegins, store
<1> SUFFICES ASSUME Favoured' PROVE InTime'
  BY <1>1 DEF TimelyInv, SweepBegins
<1>2. InTime /\ item # NoBinding /\ setbacks \in {0, 1}
  BY <1>1, ScheduleAssumption DEF TimelyInv, Favoured, TypeOK
<1>3. PICK t \in 0..SweepTime :
          sweep' = [stage |-> IF Due(item) THEN "pending" ELSE "others",
                    left |-> t]
  BY DEF SweepBegins
<1>4. cronIn = 0 /\ cronIn' = Minute /\ sweep.stage = "idle"
  BY DEF SweepBegins, Idle
<1>5. item.access \in Nat /\ item.access > Needed
  BY <1>2 DEF InTime
<1>6. Minute \in Nat /\ SweepTime \in Nat /\ Ahead \in Nat
      /\ Ahead >= 2 * Minute + SweepTime
  BY ScheduleAssumption DEF Proportions
<1>7. CASE Due(item)
  <2>1. sweep'.stage = "pending" /\ sweep'.left = t
    BY <1>3, <1>7
  <2>2. item.access > Needed'
    BY <1>1, <1>2, <1>4, <1>5, <1>6, <2>1 DEF Needed
  <2> QED BY <1>1, <1>2, <2>2 DEF InTime
<1>8. CASE ~Due(item)
  <2>1. sweep'.stage = "others"
    BY <1>3, <1>8
  <2>2. item.access > Ahead
    BY <1>2, <1>5, <1>6, <1>8, ScheduleAssumption DEF Due
  <2>3. item.access > Needed'
    BY <1>1, <1>2, <1>4, <1>5, <1>6, <2>1, <2>2 DEF Needed
  <2> QED BY <1>1, <1>2, <2>3 DEF InTime
<1> QED BY <1>7, <1>8

\* The sweep of a minute is left out.
LEMMA SweepSkippedTimely ==
    ASSUME Proportions, TypeOK, TypeOK', TimelyInv, SweepSkipped
    PROVE  TimelyInv'
<1>1. Setback /\ up /\ UNCHANGED <<up, item, grant, sweep>>
      /\ cronIn = 0 /\ cronIn' = Minute
  BY DEF SweepSkipped, store
<1> SUFFICES ASSUME Favoured' PROVE InTime'
  BY <1>1 DEF TimelyInv
<1>2. setbacks = 0 /\ setbacks' = 1
  BY <1>1, SetbackCounts DEF Favoured
<1>3. InTime
  BY <1>1, <1>2 DEF TimelyInv, Favoured
<1>4. Needed' <= Needed /\ Needed \in Int /\ Needed' \in Int
  BY <1>1, <1>2, SetbackNeeds, ScheduleAssumption DEF Needed, TypeOK
<1> QED BY <1>1, <1>3, <1>4 DEF InTime

LEMMA TimelyNext ==
    ASSUME Proportions, TypeOK, TypeOK', TimelyInv, [Next]_vars
    PROVE  TimelyInv'
<1>1. Tolerated \in Nat /\ Tolerated > 1
  BY ScheduleAssumption DEF Proportions
<1>2. CASE RefreshNow
  BY <1>2, RefreshTimely DEF RefreshNow
<1>3. CASE Complete
  BY <1>3, RenewedTimely DEF Complete
<1>4. CASE Remove
  BY <1>4 DEF Remove, TimelyInv, Favoured
<1>5. CASE RemoveFails
  BY <1>5 DEF RemoveFails, TimelyInv, Favoured, InTime, Needed
<1>6. CASE SweepBegins
  BY <1>6, SweepBeginsTimely
<1>7. CASE SweepSkipped
  BY <1>7, SweepSkippedTimely
<1>8. CASE SweepRefreshes
  <2>1. up
    BY <1>8 DEF SweepRefreshes, RefreshOne, TimelyInv
  <2>2. sweep'.stage = "others" /\ cronIn' = cronIn /\ up' = up
    BY <1>8 DEF SweepRefreshes, TypeOK
  <2> QED BY <1>8, <2>1, <2>2, RefreshTimely DEF SweepRefreshes
<1>9. CASE SweepFindsNone
  BY <1>9 DEF SweepFindsNone, store, TimelyInv, Favoured
<1>10. CASE SweepEnds
  <2>1. /\ sweep.stage = "others" /\ sweep'.stage = "idle"
        /\ UNCHANGED <<up, item, grant, cronIn, setbacks>>
    BY <1>10 DEF SweepEnds, Idle, store
  <2> QED BY <2>1 DEF TimelyInv, Favoured, InTime, Needed
<1>11. CASE Crash
  BY <1>11 DEF Crash, TimelyInv, Favoured
<1>12. CASE Start
  BY <1>1, <1>12 DEF Start, TimelyInv, Favoured
<1>13. CASE Elapse
  BY <1>13, ElapseTimely
<1>14. CASE UNCHANGED vars
  BY <1>14 DEF vars, store, TimelyInv, Favoured, InTime, Needed
<1> QED
  BY <1>2, <1>3, <1>4, <1>5, <1>6, <1>7, <1>8, <1>9, <1>10, <1>11, <1>12,
     <1>13, <1>14
  DEF Next, Sweep, Command

\* An account that is bound and was granted permissions keeps them without a
\* gap while the process is up, if no two refreshes in a row fail and no two
\* sweeps in a row are skipped: for every way of choosing the times under which
\* refreshAhead leaves room for it.
THEOREM OneFailureForgivenAlways ==
    ASSUME Proportions
    PROVE  Spec => []OneFailureForgiven
<1>1. IInv /\ TimelyInv /\ IInv' /\ [Next]_vars => TimelyInv'
  BY TimelyNext DEF IInv
<1>2. IInv /\ TimelyInv => OneFailureForgiven
  <2> SUFFICES ASSUME IInv, TimelyInv, Favoured PROVE grant > 0
    BY DEF OneFailureForgiven, Favoured
  <2>1. Needed \in Nat
    BY ScheduleAssumption DEF IInv, TypeOK, Needed
  <2> QED BY <2>1 DEF TimelyInv, InTime
<1> QED BY InvAlways, TimelyInit, <1>1, <1>2, PTL DEF Spec
=============================================================================
