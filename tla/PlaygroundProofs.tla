-------------------------- MODULE PlaygroundProofs --------------------------
(***************************************************************************)
(* What holds of the scheduler for any number of groups and checks.        *)
(***************************************************************************)
EXTENDS Playground, FiniteSetTheorems, TLAPS

\* What OneEntry needs to know of the values' kinds.
KindInv ==
    /\ groups \in [Groups -> Group \union {None}]
    /\ file \in [Groups -> Group \union {None}]
    /\ cron \in [Groups -> Nat]

\* The store knows the entry of a name exactly when there is a group of that
\* name with a schedule.
EntriesInv == entries = Scheduled(groups)

IInv == KindInv /\ EntriesInv /\ OneEntry

LEMMA InvInit == Init => IInv
BY DEF Init, IInv, KindInv, EntriesInv, OneEntry, Scheduled, OneEach

\* scheduleLocked, when the group it is for gets the schedule that it enters.
LEMMA ScheduleKeeps ==
    ASSUME IInv, NEW n \in Groups, NEW on \in BOOLEAN, Schedule(n, on),
           groups' \in [Groups -> Group \union {None}],
           \A m \in Groups \ {n} : groups'[m] = groups[m],
           on <=> (groups'[n] # None /\ groups'[n].scheduled)
    PROVE  cron' \in [Groups -> Nat] /\ EntriesInv' /\ OneEntry'
<1>1. cron[n] = IF n \in entries THEN 1 ELSE 0
  BY DEF IInv, EntriesInv, OneEntry, Scheduled
<1>2. cron' = [cron EXCEPT ![n] = IF on THEN 1 ELSE 0]
  BY <1>1 DEF Schedule, IInv, KindInv
<1>3. cron' \in [Groups -> Nat] /\ OneEntry'
  BY <1>2 DEF IInv, KindInv, OneEntry
<1>4. EntriesInv'
  BY DEF Schedule, IInv, EntriesInv, Scheduled
<1> QED
  BY <1>3, <1>4

\* Steps that leave the schedules alone.
LEMMA QuietKeeps ==
    ASSUME IInv, UNCHANGED <<entries, cron>>, file' \in {file, groups'},
           groups' \in [Groups -> Group \union {None}],
           \A m \in Groups : (groups'[m] # None /\ groups'[m].scheduled)
                                 <=> (groups[m] # None /\ groups[m].scheduled)
    PROVE  IInv'
BY DEF IInv, KindInv, EntriesInv, OneEntry, Scheduled

LEMMA SaveFile == Save => file' \in {file, groups'}
BY DEF Save

LEMMA MutateKeeps ==
    ASSUME IInv, NEW n \in Groups, groups[n] # None,
           NEW g \in Group, g.scheduled = groups[n].scheduled, Mutate(n, g)
    PROVE  IInv'
<1>1. groups[n] \in Group
  BY DEF IInv, KindInv
<1>2. groups' \in [Groups -> Group \union {None}]
  BY DEF Mutate, IInv, KindInv
<1>3. \A m \in Groups : (groups'[m] # None /\ groups'[m].scheduled)
                            <=> (groups[m] # None /\ groups[m].scheduled)
  BY PlaygroundAssumption DEF Mutate, IInv, KindInv
<1>4. UNCHANGED <<entries, cron>> /\ file' \in {file, groups'}
  BY SaveFile DEF Mutate
<1> QED
  BY <1>2, <1>3, <1>4, QuietKeeps

LEMMA InvNext == IInv /\ [Next]_vars => IInv'
<1> SUFFICES ASSUME IInv, [Next]_vars PROVE IInv'
  OBVIOUS
<1>1. ASSUME NEW n \in Groups, Create(n) PROVE IInv'
  <2>1. [scheduled |-> FALSE, asserts |-> FALSE, threshold |-> 0] \in Group
    BY PlaygroundAssumption DEF Group
  <2>2. groups' \in [Groups -> Group \union {None}]
    BY <1>1, <2>1 DEF Create, IInv, KindInv
  <2>3. \A m \in Groups : (groups'[m] # None /\ groups'[m].scheduled)
                              <=> (groups[m] # None /\ groups[m].scheduled)
    BY <1>1, <2>1, PlaygroundAssumption DEF Create, IInv, KindInv
  <2> QED
    BY <1>1, <2>2, <2>3, SaveFile, QuietKeeps DEF Create
<1>2. ASSUME NEW n \in Groups, Delete(n) PROVE IInv'
  <2>1. groups' \in [Groups -> Group \union {None}]
    BY <1>2 DEF Delete, IInv, KindInv
  <2>2. groups'[n] = None /\ \A m \in Groups \ {n} : groups'[m] = groups[m]
    BY <1>2 DEF Delete, IInv, KindInv
  <2>3. cron' \in [Groups -> Nat] /\ EntriesInv' /\ OneEntry'
    <3>1. Schedule(n, FALSE)
      BY <1>2 DEF Delete
    <3> QED
      BY <2>1, <2>2, <3>1, ScheduleKeeps
  <2> QED
    BY <1>2, <2>1, <2>3, SaveFile DEF Delete, IInv, KindInv
<1>3. ASSUME NEW n \in Groups, NEW on \in BOOLEAN, SetSchedule(n, on) PROVE IInv'
  <2>1. groups[n] \in Group /\ groups[n] # None
    BY <1>3 DEF SetSchedule, IInv, KindInv
  <2>2. [groups[n] EXCEPT !.scheduled = on] \in Group
    BY <2>1 DEF Group
  <2>3. groups' \in [Groups -> Group \union {None}]
    BY <1>3, <2>2 DEF SetSchedule, IInv, KindInv
  <2>4. /\ groups'[n] # None /\ (on <=> groups'[n].scheduled)
        /\ \A m \in Groups \ {n} : groups'[m] = groups[m]
    BY <1>3, <2>1, <2>2, PlaygroundAssumption DEF SetSchedule, IInv, KindInv, Group
  <2>5. cron' \in [Groups -> Nat] /\ EntriesInv' /\ OneEntry'
    <3>1. Schedule(n, on)
      BY <1>3 DEF SetSchedule
    <3> QED
      BY <2>3, <2>4, <3>1, ScheduleKeeps
  <2> QED
    BY <1>3, <2>3, <2>5, SaveFile DEF SetSchedule, IInv, KindInv
<1>4. ASSUME NEW n \in Groups, NEW on \in BOOLEAN, SetAsserts(n, on) PROVE IInv'
  <2>1. groups[n] \in Group /\ groups[n] # None
    BY <1>4 DEF SetAsserts, IInv, KindInv
  <2> DEFINE g == [groups[n] EXCEPT !.asserts = on]
  <2>2. g \in Group /\ g.scheduled = groups[n].scheduled
    BY <2>1 DEF Group
  <2> QED
    BY <1>4, <2>1, <2>2, MutateKeeps DEF SetAsserts
<1>5. ASSUME NEW n \in Groups, NEW t \in 1..MaxThreshold, SetThreshold(n, t) PROVE IInv'
  <2>1. groups[n] \in Group /\ groups[n] # None
    BY <1>5 DEF SetThreshold, IInv, KindInv
  <2> DEFINE g == [groups[n] EXCEPT !.threshold = t]
  <2>2. g \in Group /\ g.scheduled = groups[n].scheduled
    BY <2>1, PlaygroundAssumption DEF Group
  <2> QED
    BY <1>5, <2>1, <2>2, MutateKeeps DEF SetThreshold
<1>6. ASSUME Restart PROVE IInv'
  <2>1. groups' = file /\ file' = file /\ entries' = Scheduled(groups')
        /\ cron' = OneEach(entries')
    BY <1>6 DEF Restart
  <2> QED
    BY <2>1 DEF IInv, KindInv, EntriesInv, OneEntry, Scheduled, OneEach
<1>7. ASSUME UNCHANGED config PROVE IInv'
  BY <1>7 DEF config, IInv, KindInv, EntriesInv, OneEntry, Scheduled
<1>8. ASSUME NEW n \in Groups, NEW k \in Checks, Fire(k, n) PROVE UNCHANGED config
  BY <1>8 DEF Fire
<1>9. ASSUME NEW k \in Checks, Run(k) \/ Lose(k) PROVE UNCHANGED config
  BY <1>9 DEF Run, Load, Observe, Classify, Deliver, Lose
<1>10. ASSUME NEW n \in Groups, Flip(n) PROVE UNCHANGED config
  BY <1>10 DEF Flip
<1>11. CASE UNCHANGED vars
  BY <1>7, <1>11 DEF vars, config
<1> QED
  BY <1>1, <1>2, <1>3, <1>4, <1>5, <1>6, <1>7, <1>8, <1>9, <1>10, <1>11 DEF Next

\* The cron has exactly one entry for each group with a schedule and none for
\* any other name, through every creation, deletion, change of schedule, failed
\* save and restart.
THEOREM OneEntryAlways == Spec => []OneEntry
<1>1. IInv => OneEntry
  BY DEF IInv
<1> QED
  BY <1>1, InvInit, InvNext, PTL DEF Spec

-----------------------------------------------------------------------------
(* Types.                                                                  *)

LEMMA TypeInit == Init => TypeOK
BY PlaygroundAssumption DEF Init, TypeOK, Scheduled, OneEach

LEMMA NoteKind ==
    ASSUME NEW bad, NEW good, Note(bad, good),
           notice \in [Groups -> {"sure", "unsure", "mixed"}]
    PROVE  notice' \in [Groups -> {"sure", "unsure", "mixed"}]
BY DEF Note

\* The kinds that InvNext keeps, with those of a command that saves.
LEMMA CommandKind ==
    ASSUME TypeOK, IInv', Save \/ UNCHANGED <<file, faults>>, Command,
           entries' \subseteq Groups, UNCHANGED <<healthy, told, flips>>,
           states' \in [Groups -> State \union {None}],
           check' \in [Checks -> Check \union {None}],
           notice' \in [Groups -> {"sure", "unsure", "mixed"}]
    PROVE  TypeOK'
<1>1. commands' \in 0..MaxCommands
  BY PlaygroundAssumption DEF TypeOK, Command
<1>2. faults' \in 0..MaxFaults
  BY PlaygroundAssumption DEF TypeOK, Save, Fault
<1> QED
  BY <1>1, <1>2 DEF TypeOK, IInv, KindInv

\* A step of a check.
LEMMA CheckKind ==
    ASSUME TypeOK, UNCHANGED <<config, healthy, told, commands, flips, faults>>,
           NEW k \in Checks, NEW c \in Check \union {None},
           check' = [check EXCEPT ![k] = c],
           states' \in [Groups -> State \union {None}],
           notice' \in [Groups -> {"sure", "unsure", "mixed"}]
    PROVE  TypeOK'
BY DEF TypeOK, config

\* What a goroutine at work does.
LEMMA AtKind ==
    ASSUME TypeOK, NEW k \in Checks, NEW stages, At(k, stages)
    PROVE  check[k] \in Check
BY DEF TypeOK, At

LEMMA CountedKind ==
    ASSUME NEW s \in State
    PROVE  Counted(s) \in State /\ Counted(s).alerting = s.alerting
<1>1. s.fails \in 0..MaxThreshold /\ s.alerting \in BOOLEAN
  BY DEF State
<1>2. (IF s.fails < MaxThreshold THEN s.fails + 1 ELSE s.fails) \in 0..MaxThreshold
  BY <1>1, PlaygroundAssumption
<1> QED
  BY <1>1, <1>2 DEF Counted, State

LEMMA ClassifyKind ==
    ASSUME TypeOK, NEW k \in Checks, Classify(k)
    PROVE  TypeOK'
<1> DEFINE n == check[k].name
           s == IF states[n] = None THEN [fails |-> 0, alerting |-> FALSE] ELSE states[n]
<1>1. check[k] \in Check
  BY AtKind DEF Classify
<1>2. n \in Groups
  BY <1>1 DEF Check
<1>3. s \in State
  BY <1>2, PlaygroundAssumption DEF TypeOK, State
<1>4. notice' \in [Groups -> {"sure", "unsure", "mixed"}]
  BY NoteKind DEF Classify, TypeOK
<1>5. UNCHANGED <<config, healthy, told, commands, flips, faults>>
  BY DEF Classify
<1>6. states' \in [Groups -> State \union {None}]
  <2>1. Counted(s) \in State /\ [Counted(s) EXCEPT !.alerting = TRUE] \in State
    BY <1>3, CountedKind DEF State
  <2>2. Passed(s) \in State
    BY PlaygroundAssumption DEF Passed, State
  <2>3. \/ UNCHANGED states
        \/ \E r \in State : states' = [states EXCEPT ![n] = r]
    BY <2>1, <2>2 DEF Classify
  <2> QED
    BY <2>3 DEF TypeOK
<1>7. \E c \in Check \union {None} : check' = [check EXCEPT ![k] = c]
  <2>1. [check[k] EXCEPT !.stage = "sending", !.alert = TRUE] \in Check
    BY <1>1 DEF Check
  <2>2. [check[k] EXCEPT !.stage = "sending"] \in Check
    BY <1>1 DEF Check
  <2> QED
    BY <2>1, <2>2 DEF Classify, End, TypeOK
<1> QED
  BY <1>4, <1>5, <1>6, <1>7, CheckKind

LEMMA TypeNext == TypeOK /\ IInv /\ [Next]_vars => TypeOK'
<1> SUFFICES ASSUME TypeOK, IInv, [Next]_vars PROVE TypeOK'
  OBVIOUS
<1>0. IInv'
  BY InvNext
<1>1. ASSUME NEW n \in Groups, Create(n) PROVE TypeOK'
  BY <1>0, <1>1, CommandKind DEF Create, TypeOK
<1>2. ASSUME NEW n \in Groups, Delete(n) PROVE TypeOK'
  <2>1. entries' \subseteq Groups
    BY <1>2 DEF Delete, Schedule, TypeOK
  <2>2. notice' \in [Groups -> {"sure", "unsure", "mixed"}]
    BY <1>2, NoteKind DEF Delete, TypeOK
  <2> QED
    BY <1>0, <1>2, <2>1, <2>2, CommandKind DEF Delete, TypeOK
<1>3. ASSUME NEW n \in Groups, NEW on \in BOOLEAN, SetSchedule(n, on) PROVE TypeOK'
  <2>1. entries' \subseteq Groups
    BY <1>3 DEF SetSchedule, Schedule, TypeOK
  <2> QED
    BY <1>0, <1>3, <2>1, CommandKind DEF SetSchedule, TypeOK
<1>4. ASSUME NEW n \in Groups, NEW g, Mutate(n, g) PROVE TypeOK'
  BY <1>0, <1>4, CommandKind DEF Mutate, TypeOK
<1>5. ASSUME Restart PROVE TypeOK'
  <2>1. notice' \in [Groups -> {"sure", "unsure", "mixed"}]
    BY <1>5, NoteKind DEF Restart, TypeOK
  <2>2. entries' \subseteq Groups
    BY <1>5 DEF Restart, Scheduled
  <2> QED
    BY <1>0, <1>5, <2>1, <2>2, CommandKind DEF Restart, TypeOK
<1>6. ASSUME NEW n \in Groups, NEW k \in Checks, Fire(k, n) PROVE TypeOK'
  <2>1. [name |-> n, stage |-> "fired", group |-> None, alert |-> FALSE] \in Check
    BY DEF Check
  <2> QED
    BY <1>6, <2>1, CheckKind DEF Fire, TypeOK
<1>7. ASSUME NEW k \in Checks, Load(k) PROVE TypeOK'
  <2>1. check[k] \in Check
    BY <1>7, AtKind DEF Load
  <2>2. ASSUME groups[check[k].name] # None
        PROVE  [check[k] EXCEPT !.stage = "loaded", !.group = groups[check[k].name]] \in Check
    BY <2>1, <2>2 DEF TypeOK, Check
  <2>3. \E c \in Check \union {None} : check' = [check EXCEPT ![k] = c]
    BY <1>7, <2>2 DEF Load, End, TypeOK
  <2> QED
    BY <1>7, <2>3, CheckKind DEF Load, TypeOK
<1>8. ASSUME NEW k \in Checks, Observe(k) PROVE TypeOK'
  <2>1. check[k] \in Check
    BY <1>8, AtKind DEF Observe
  <2>2. \A s \in {"passed", "failed"} : [check[k] EXCEPT !.stage = s] \in Check
    BY <2>1 DEF Check
  <2>3. \E c \in Check \union {None} : check' = [check EXCEPT ![k] = c]
    BY <1>8, <2>2 DEF Observe, TypeOK
  <2> QED
    BY <1>8, <2>3, CheckKind DEF Observe, TypeOK
<1>9. ASSUME NEW k \in Checks, Deliver(k) PROVE TypeOK'
  <2>1. check[k] \in Check
    BY <1>9, AtKind DEF Deliver
  <2>2. told' \in [Groups -> BOOLEAN]
    BY <1>9, <2>1 DEF Deliver, TypeOK, Check
  <2>3. notice' \in [Groups -> {"sure", "unsure", "mixed"}]
    BY <1>9, NoteKind DEF Deliver, TypeOK
  <2> QED
    BY <1>9, <2>2, <2>3 DEF Deliver, End, TypeOK, config
<1>10. ASSUME NEW k \in Checks, Lose(k) PROVE TypeOK'
  <2>1. notice' \in [Groups -> {"sure", "unsure", "mixed"}]
    BY <1>10, NoteKind DEF Lose, TypeOK
  <2>2. faults' \in 0..MaxFaults
    BY <1>10, PlaygroundAssumption DEF Lose, Fault, TypeOK
  <2> QED
    BY <1>10, <2>1, <2>2 DEF Lose, End, TypeOK, config
<1>11. ASSUME NEW n \in Groups, Flip(n) PROVE TypeOK'
  <2>1. flips' \in 0..MaxFlips
    BY <1>11, PlaygroundAssumption DEF Flip, TypeOK
  <2>2. healthy' \in [Groups -> BOOLEAN]
    BY <1>11 DEF Flip, TypeOK
  <2> QED
    BY <1>11, <2>1, <2>2 DEF Flip, TypeOK, config
<1>12. CASE UNCHANGED vars
  BY <1>12 DEF vars, TypeOK
<1>13. ASSUME NEW n \in Groups, NEW on \in BOOLEAN, SetAsserts(n, on) PROVE TypeOK'
  BY <1>4, <1>13 DEF SetAsserts
<1>14. ASSUME NEW n \in Groups, NEW t, SetThreshold(n, t) PROVE TypeOK'
  BY <1>4, <1>14 DEF SetThreshold
<1> QED
  BY <1>1, <1>2, <1>3, <1>5, <1>6, <1>7, <1>8, <1>9, <1>10, <1>11, <1>12,
     <1>13, <1>14, ClassifyKind DEF Next, Run

\* Every variable of the scheduler keeps its type.
THEOREM TypeCorrect == Spec => []TypeOK
<1> QED
  BY TypeInit, InvInit, TypeNext, InvNext, PTL DEF Spec

-----------------------------------------------------------------------------
(* The alerts.  While a notice is on its way alone, it says what the state  *)
(* says, so that its delivery makes the two agree.                         *)

\* What is on its way for n is at most one notice, and a true one.
Alone(n) ==
    \A k \in Sending(n) : Sending(n) = {k} /\ (check[k].alert <=> Alerting(n))

AlertInv == AlertsAgree /\ \A n \in Groups : notice[n] # "mixed" => Alone(n)

\* Two notices on their way are more than one.
LEMMA TwoAreMany ==
    ASSUME NEW checks, NEW n, NEW j \in SendingIn(checks, n),
           NEW k \in SendingIn(checks, n), j # k
    PROVE  Cardinality(SendingIn(checks, n)) > 1
<1> DEFINE S == SendingIn(checks, n)
<1>1. IsFiniteSet(S)
  BY PlaygroundAssumption, FS_Subset DEF SendingIn
<1>2. Cardinality({j}) = 1 /\ {j} \in SUBSET S /\ {j} # S
  BY FS_Singleton
<1>3. Cardinality(S) \in Nat
  BY <1>1, FS_CardinalityType
<1>4. 1 <= Cardinality(S) /\ Cardinality(S) # 1
  <2>1. Cardinality({j}) <= Cardinality(S) /\ (Cardinality(S) = Cardinality({j}) => S = {j})
    BY <1>1, <1>2, FS_Subset
  <2> QED
    BY <1>2, <2>1
<1> QED
  BY <1>3, <1>4

\* What a notice' that is not "mixed", or "sure", goes back to.
LEMMA NoteMeans ==
    ASSUME NEW bad, NEW good, Note(bad, good), NEW n \in Groups
    PROVE  /\ notice'[n] # "mixed" =>
                  /\ \A j, k \in SendingIn(check', n) : j = k
                  /\ SendingIn(check', n) # {} => n \notin bad /\ notice[n] # "mixed"
           /\ notice'[n] = "sure" =>
                  n \notin bad /\ notice[n] # "mixed" /\ (n \in good \/ notice[n] = "sure")
<1> DEFINE many == Cardinality(SendingIn(check', n)) > 1
           told1 == n \in bad \/ notice[n] = "mixed"
           some == SendingIn(check', n) # {}
<1>1. notice'[n] = IF many \/ (some /\ told1) THEN "mixed"
                   ELSE IF told1 THEN "unsure"
                   ELSE IF n \in good THEN "sure"
                   ELSE notice[n]
  BY DEF Note
<1>2. notice'[n] # "mixed" => ~many /\ ~(some /\ told1)
  BY <1>1
<1>3. notice'[n] = "sure" => ~told1 /\ (n \in good \/ notice[n] = "sure")
  BY <1>1
<1>4. ~many => \A j, k \in SendingIn(check', n) : j = k
  BY TwoAreMany
<1> QED
  BY <1>2, <1>3, <1>4

LEMMA AlertInit == Init => AlertInv
BY DEF Init, AlertInv, AlertsAgree, Alone, Alerting, Sending, SendingIn

\* A step that touches neither the states nor what is on its way.
LEMMA AlertKept ==
    ASSUME AlertInv, UNCHANGED <<told, notice, states>>,
           \A n \in Groups : SendingIn(check', n) = Sending(n),
           \A n \in Groups : \A k \in Sending(n) : check'[k].alert = check[k].alert
    PROVE  AlertInv'
BY DEF AlertInv, AlertsAgree, Alone, Alerting, Sending

\* A step of a check that is not sending before and after it.
LEMMA NotSending ==
    ASSUME TypeOK, NEW k \in Checks, NEW c,
           check' = [check EXCEPT ![k] = c],
           check[k] = None \/ check[k].stage # "sending",
           c = None \/ c.stage # "sending"
    PROVE  /\ \A n \in Groups : SendingIn(check', n) = Sending(n)
           /\ \A n \in Groups : \A j \in Sending(n) : check'[j].alert = check[j].alert
BY DEF TypeOK, Sending, SendingIn

\* The end of a check that was sending.
LEMMA SendingEnds ==
    ASSUME TypeOK, NEW k \in Checks, At(k, {"sending"}), End(k)
    PROVE  /\ check[k].name \in Groups
           /\ k \in Sending(check[k].name)
           /\ SendingIn(check', check[k].name) = Sending(check[k].name) \ {k}
           /\ \A n \in Groups \ {check[k].name} :
                  SendingIn(check', n) = Sending(n)
           /\ \A j \in Checks \ {k} : check'[j] = check[j]
<1>1. check[k] \in Check
  BY AtKind
<1> QED
  BY <1>1 DEF TypeOK, At, End, Sending, SendingIn, Check

LEMMA AlertDelete ==
    ASSUME TypeOK, AlertInv, NEW n \in Groups, Delete(n) PROVE AlertInv'
<1>1. UNCHANGED <<check, told>> /\ Note({n}, {})
  BY DEF Delete
<1>2. \A m \in Groups \ {n} : Alerting(m)' = Alerting(m)
  BY DEF Delete, TypeOK, Alerting
<1>3. ASSUME NEW m \in Groups, notice'[m] # "mixed" PROVE Alone(m)'
  <2>1. Sending(m)' = Sending(m)
    BY <1>1 DEF Sending
  <2>2. CASE Sending(m)' = {}
    BY <2>2 DEF Alone
  <2>3. CASE Sending(m)' # {}
    <3>1. m # n /\ notice[m] # "mixed"
      BY <1>1, <1>3, <2>3, NoteMeans DEF Sending
    <3> QED
      BY <1>1, <1>2, <2>1, <3>1 DEF AlertInv, Alone
  <2> QED
    BY <2>2, <2>3
<1>4. ASSUME NEW m \in Groups, notice'[m] = "sure", Sending(m)' = {}
      PROVE  told'[m] <=> Alerting(m)'
  <2>1. m # n /\ notice[m] = "sure"
    BY <1>1, <1>4, NoteMeans
  <2> QED
    BY <1>1, <1>2, <1>4, <2>1 DEF AlertInv, AlertsAgree, Sending
<1> QED
  BY <1>3, <1>4 DEF AlertInv, AlertsAgree

LEMMA AlertRestart ==
    ASSUME TypeOK, AlertInv, Restart PROVE AlertInv'
<1>1. \A n \in Groups : SendingIn(check', n) = {}
  BY DEF Restart, SendingIn
<1>2. \A n \in Groups : ~Alerting(n)'
  BY DEF Restart, Alerting
<1>3. ASSUME NEW n \in Groups, notice'[n] = "sure" PROVE ~told'[n]
  <2>1. ~Alerting(n) /\ Sending(n) = {} /\ notice[n] = "sure"
    BY <1>3, NoteMeans DEF Restart
  <2> QED
    BY <2>1 DEF Restart, AlertInv, AlertsAgree, TypeOK
<1> QED
  BY <1>1, <1>2, <1>3 DEF AlertInv, AlertsAgree, Alone, Sending

LEMMA AlertDeliver ==
    ASSUME TypeOK, AlertInv, NEW k \in Checks, Deliver(k) PROVE AlertInv'
<1> DEFINE n == check[k].name
<1>1. At(k, {"sending"}) /\ End(k) /\ Note({}, {n})
      /\ UNCHANGED states /\ told' = [told EXCEPT ![n] = check[k].alert]
  BY DEF Deliver
<1>2. /\ n \in Groups
      /\ k \in Sending(n)
      /\ SendingIn(check', n) = Sending(n) \ {k}
      /\ \A m \in Groups \ {n} : SendingIn(check', m) = Sending(m)
      /\ \A j \in Checks \ {k} : check'[j] = check[j]
  BY <1>1, SendingEnds
<1>3. \A m \in Groups : Alerting(m)' = Alerting(m)
  BY <1>1 DEF Alerting
<1>4. ASSUME NEW m \in Groups, notice'[m] # "mixed" PROVE Alone(m)'
  <2>1. CASE Sending(m)' = {}
    BY <2>1 DEF Alone
  <2>2. CASE Sending(m)' # {}
    <3>1. notice[m] # "mixed"
      BY <1>1, <1>4, <2>2, NoteMeans DEF Sending
    <3>2. Alone(m)
      BY <3>1 DEF AlertInv
    <3>3. m # n
      BY <1>2, <2>2, <3>2 DEF Alone, Sending
    <3>4. Sending(m)' = Sending(m) /\ \A j \in Sending(m) : check'[j] = check[j]
      BY <1>2, <3>3 DEF Sending, SendingIn
    <3> QED
      BY <1>3, <3>2, <3>4 DEF Alone
  <2> QED
    BY <2>1, <2>2
<1>5. ASSUME NEW m \in Groups, notice'[m] = "sure", Sending(m)' = {}
      PROVE  told'[m] <=> Alerting(m)'
  <2>1. notice[m] # "mixed" /\ (m = n \/ notice[m] = "sure")
    BY <1>1, <1>5, NoteMeans
  <2>2. CASE m = n
    <3>1. check[k].alert <=> Alerting(n)
      BY <1>2, <2>1, <2>2 DEF AlertInv, Alone
    <3> QED
      BY <1>1, <1>2, <1>3, <2>2, <3>1 DEF TypeOK
  <2>3. CASE m # n
    BY <1>1, <1>2, <1>3, <1>5, <2>1, <2>3 DEF AlertInv, AlertsAgree, Sending, TypeOK
  <2> QED
    BY <2>2, <2>3
<1> QED
  BY <1>4, <1>5 DEF AlertInv, AlertsAgree

LEMMA AlertLose ==
    ASSUME TypeOK, AlertInv, NEW k \in Checks, Lose(k) PROVE AlertInv'
<1> DEFINE n == check[k].name
<1>1. At(k, {"sending"}) /\ End(k) /\ Note({n}, {}) /\ UNCHANGED <<states, told>>
  BY DEF Lose
<1>2. /\ n \in Groups
      /\ \A m \in Groups \ {n} : SendingIn(check', m) = Sending(m)
      /\ \A j \in Checks \ {k} : check'[j] = check[j]
      /\ k \in Sending(n)
  BY <1>1, SendingEnds
<1>3. \A m \in Groups : Alerting(m)' = Alerting(m)
  BY <1>1 DEF Alerting
<1>4. ASSUME NEW m \in Groups, notice'[m] # "mixed" PROVE Alone(m)'
  <2>1. CASE Sending(m)' = {}
    BY <2>1 DEF Alone
  <2>2. CASE Sending(m)' # {}
    <3>1. notice[m] # "mixed" /\ m # n
      BY <1>1, <1>4, <2>2, NoteMeans DEF Sending
    <3>2. Sending(m)' = Sending(m) /\ \A j \in Sending(m) : check'[j] = check[j]
      BY <1>2, <3>1 DEF Sending, SendingIn
    <3> QED
      BY <1>3, <3>1, <3>2 DEF AlertInv, Alone
  <2> QED
    BY <2>1, <2>2
<1>5. ASSUME NEW m \in Groups, notice'[m] = "sure", Sending(m)' = {}
      PROVE  told'[m] <=> Alerting(m)'
  <2>1. notice[m] = "sure" /\ m # n
    BY <1>1, <1>5, NoteMeans
  <2> QED
    BY <1>1, <1>2, <1>3, <1>5, <2>1 DEF AlertInv, AlertsAgree, Sending
<1> QED
  BY <1>4, <1>5 DEF AlertInv, AlertsAgree

\* A check that has nothing to tell yet tells nothing.
QuietInv == \A k \in Checks : check[k] # None /\ check[k].stage # "sending" => ~check[k].alert

LEMMA QuietNext ==
    ASSUME TypeOK, QuietInv, [Next]_vars PROVE QuietInv'
<1>1. CASE UNCHANGED check
  BY <1>1 DEF QuietInv
<1>2. ASSUME NEW k \in Checks, End(k) PROVE QuietInv'
  BY <1>2 DEF QuietInv, End, TypeOK
<1>3. ASSUME NEW k \in Checks, At(k, {"fired", "loaded", "passed", "failed"}),
             NEW c, check' = [check EXCEPT ![k] = c],
             c.stage = "sending" \/ c.alert = check[k].alert
      PROVE  QuietInv'
  BY <1>3 DEF QuietInv, At, TypeOK
<1>4. ASSUME NEW n \in Groups, NEW k \in Checks, Fire(k, n) PROVE QuietInv'
  BY <1>4 DEF Fire, QuietInv, TypeOK
<1>5. ASSUME NEW k \in Checks, Load(k) PROVE QuietInv'
  <2>1. check[k] \in Check
    BY <1>5, AtKind DEF Load
  <2> DEFINE c == [check[k] EXCEPT !.stage = "loaded", !.group = groups[check[k].name]]
  <2>2. CASE End(k)
    BY <1>2, <2>2
  <2>3. CASE check' = [check EXCEPT ![k] = c]
    <3>1. c.alert = check[k].alert
      BY <2>1 DEF Check
    <3>2. At(k, {"fired", "loaded", "passed", "failed"})
      BY <1>5 DEF Load, At
    <3> HIDE DEF c
    <3> QED
      BY <1>3, <2>3, <3>1, <3>2
  <2> QED
    BY <1>5, <2>2, <2>3 DEF Load
<1>6. ASSUME NEW k \in Checks, Observe(k) PROVE QuietInv'
  <2>1. check[k] \in Check
    BY <1>6, AtKind DEF Observe
  <2> DEFINE c == [check[k] EXCEPT !.stage =
                      IF healthy[check[k].name] THEN "passed" ELSE "failed"]
  <2>2. check' = [check EXCEPT ![k] = c]
    BY <1>6 DEF Observe
  <2>3. c.alert = check[k].alert
    BY <2>1 DEF Check
  <2>4. At(k, {"fired", "loaded", "passed", "failed"})
    BY <1>6 DEF Observe, At
  <2> HIDE DEF c
  <2> QED
    BY <1>3, <2>2, <2>3, <2>4
<1>7. ASSUME NEW k \in Checks, Classify(k) PROVE QuietInv'
  <2>1. check[k] \in Check
    BY <1>7, AtKind DEF Classify
  <2>2. At(k, {"fired", "loaded", "passed", "failed"})
    BY <1>7 DEF Classify, At
  <2>3. CASE End(k)
    BY <1>2, <2>3
  <2>4. ASSUME NEW c, check' = [check EXCEPT ![k] = c], c.stage = "sending" PROVE QuietInv'
    BY <1>3, <2>2, <2>4
  <2> DEFINE a == [check[k] EXCEPT !.stage = "sending", !.alert = TRUE]
             b == [check[k] EXCEPT !.stage = "sending"]
  <2>5. a.stage = "sending" /\ b.stage = "sending"
    BY <2>1 DEF Check
  <2>6. End(k) \/ check' = [check EXCEPT ![k] = a] \/ check' = [check EXCEPT ![k] = b]
    BY <1>7 DEF Classify
  <2> HIDE DEF a, b
  <2> QED
    BY <2>3, <2>4, <2>5, <2>6
<1>8. CASE Restart
  BY <1>8 DEF Restart, QuietInv
<1>9. ASSUME NEW k \in Checks, Deliver(k) \/ Lose(k) PROVE QuietInv'
  BY <1>2, <1>9 DEF Deliver, Lose
<1>10. ASSUME NEW n \in Groups,
              Create(n) \/ Delete(n) \/ Flip(n)
              \/ (\E on \in BOOLEAN : SetSchedule(n, on) \/ SetAsserts(n, on))
              \/ (\E t \in 1..MaxThreshold : SetThreshold(n, t))
       PROVE  UNCHANGED check
  BY <1>10 DEF Create, Delete, Flip, SetSchedule, SetAsserts, SetThreshold, Mutate
<1>11. CASE UNCHANGED vars
  BY <1>1, <1>11 DEF vars
<1> QED
  BY <1>1, <1>4, <1>5, <1>6, <1>7, <1>8, <1>9, <1>10, <1>11 DEF Next, Run

\* What classify does to the state of its group, and what it sends.
LEMMA ClassifyEffect ==
    ASSUME TypeOK, QuietInv, NEW k \in Checks, Classify(k), NEW n, n = check[k].name
    PROVE  /\ n \in Groups
           /\ \A m \in Groups \ {n} : states'[m] = states[m]
           /\ \/ End(k) /\ (Alerting(n)' <=> Alerting(n))
              \/ \E c \in Check : /\ check' = [check EXCEPT ![k] = c]
                                  /\ c.name = n /\ c.stage = "sending"
                                  /\ c.alert <=> Alerting(n)'
<1> DEFINE g == check[k].group
           s == IF states[n] = None THEN [fails |-> 0, alerting |-> FALSE] ELSE states[n]
<1>1. check[k] \in Check /\ At(k, {"passed", "failed"})
  BY AtKind DEF Classify, At
<1>2. n \in Groups
  BY <1>1 DEF Check
<1>3. s \in State
  BY <1>2, PlaygroundAssumption DEF TypeOK, State
<1>4. Alerting(n) <=> s.alerting
  BY DEF Alerting
<1>5. ASSUME NEW r \in State, states' = [states EXCEPT ![n] = r]
      PROVE  /\ Alerting(n)' <=> r.alerting
             /\ \A m \in Groups \ {n} : states'[m] = states[m]
  BY <1>2, <1>5, PlaygroundAssumption DEF TypeOK, Alerting
<1>6. CASE UNCHANGED states /\ End(k)
  BY <1>2, <1>6 DEF Alerting
<1>7. CASE /\ states' = [states EXCEPT ![n] = [Counted(s) EXCEPT !.alerting = TRUE]]
           /\ check' = [check EXCEPT ![k].stage = "sending", ![k].alert = TRUE]
  <2> DEFINE r == [Counted(s) EXCEPT !.alerting = TRUE]
             c == [check[k] EXCEPT !.stage = "sending", !.alert = TRUE]
  <2>1. r \in State /\ r.alerting
    BY <1>3, CountedKind DEF State
  <2>2. c \in Check /\ c.name = n /\ c.stage = "sending" /\ c.alert
    BY <1>1 DEF Check
  <2>3. check' = [check EXCEPT ![k] = c]
    BY <1>7
  <2>4. Alerting(n)' /\ \A m \in Groups \ {n} : states'[m] = states[m]
    BY <1>5, <1>7, <2>1
  <2> QED
    BY <1>2, <2>2, <2>3, <2>4
<1>8. CASE states' = [states EXCEPT ![n] = Counted(s)] /\ End(k)
  BY <1>2, <1>3, <1>4, <1>5, <1>8, CountedKind
<1>9. CASE states' = [states EXCEPT ![n] = Passed(s)] /\ s.alerting
           /\ check' = [check EXCEPT ![k].stage = "sending"]
  <2> DEFINE c == [check[k] EXCEPT !.stage = "sending"]
  <2>1. Passed(s) \in State /\ ~Passed(s).alerting
    BY PlaygroundAssumption DEF Passed, State
  <2>2. c \in Check /\ c.name = n /\ c.stage = "sending" /\ c.alert = check[k].alert
    BY <1>1 DEF Check
  <2>3. ~check[k].alert
    BY <1>1 DEF QuietInv, At
  <2>4. check' = [check EXCEPT ![k] = c]
    BY <1>9
  <2>5. ~Alerting(n)' /\ \A m \in Groups \ {n} : states'[m] = states[m]
    BY <1>5, <1>9, <2>1
  <2> QED
    BY <1>2, <2>2, <2>3, <2>4, <2>5
<1>10. CASE states' = [states EXCEPT ![n] = Passed(s)] /\ ~s.alerting /\ End(k)
  <2>1. Passed(s) \in State /\ ~Passed(s).alerting
    BY PlaygroundAssumption DEF Passed, State
  <2> QED
    BY <1>2, <1>4, <1>5, <1>10, <2>1
<1> QED
  BY <1>6, <1>7, <1>8, <1>9, <1>10 DEF Classify

LEMMA AlertClassify ==
    ASSUME TypeOK, QuietInv, AlertInv, NEW k \in Checks, Classify(k) PROVE AlertInv'
<1> PICK n : n = check[k].name
  OBVIOUS
<1>1. /\ n \in Groups
      /\ \A m \in Groups \ {n} : states'[m] = states[m]
      /\ \/ End(k) /\ (Alerting(n)' <=> Alerting(n))
         \/ \E c \in Check : /\ check' = [check EXCEPT ![k] = c]
                             /\ c.name = n /\ c.stage = "sending"
                             /\ c.alert <=> Alerting(n)'
  BY ClassifyEffect
<1>2. At(k, {"passed", "failed"}) /\ Note({}, {}) /\ UNCHANGED told
  BY DEF Classify, At
<1>3. CASE End(k) /\ (Alerting(n)' <=> Alerting(n))
  <2>1. /\ \A m \in Groups : SendingIn(check', m) = Sending(m)
        /\ \A m \in Groups : \A j \in Sending(m) : check'[j].alert = check[j].alert
    BY <1>2, <1>3, NotSending DEF End, At
  <2>2. \A m \in Groups : Alerting(m)' <=> Alerting(m)
    BY <1>1, <1>3 DEF Alerting
  <2>3. ASSUME NEW m \in Groups, notice'[m] # "mixed" PROVE Alone(m)'
    <3>1. Sending(m) # {} => notice[m] # "mixed"
      BY <1>2, <2>1, <2>3, NoteMeans
    <3> QED
      BY <2>1, <2>2, <3>1 DEF AlertInv, Alone, Sending
  <2>4. ASSUME NEW m \in Groups, notice'[m] = "sure", Sending(m)' = {}
        PROVE  told'[m] <=> Alerting(m)'
    <3>1. notice[m] = "sure"
      BY <1>2, <2>4, NoteMeans
    <3> QED
      BY <1>2, <2>1, <2>2, <2>4, <3>1 DEF AlertInv, AlertsAgree, Sending
  <2> QED
    BY <2>3, <2>4 DEF AlertInv, AlertsAgree
<1>4. ASSUME NEW c \in Check, check' = [check EXCEPT ![k] = c],
             c.name = n, c.stage = "sending", c.alert <=> Alerting(n)'
      PROVE  AlertInv'
  <2>1. check'[k] = c /\ \A j \in Checks \ {k} : check'[j] = check[j]
    BY <1>4 DEF TypeOK
  <2>2. k \in Sending(n)' /\ c # None
    BY <1>4, <2>1, PlaygroundAssumption DEF Sending, SendingIn
  <2>3. \A m \in Groups \ {n} :
            /\ Sending(m)' = Sending(m) /\ Alerting(m)' = Alerting(m)
            /\ \A j \in Sending(m) : check'[j] = check[j]
    BY <1>1, <1>2, <1>4, <2>1 DEF Sending, SendingIn, Alerting, At
  <2>4. ASSUME NEW m \in Groups, notice'[m] # "mixed" PROVE Alone(m)'
    <3>1. \A i, j \in Sending(m)' : i = j
      BY <1>2, <2>4, NoteMeans DEF Sending
    <3>2. CASE m = n
      BY <1>4, <2>1, <2>2, <3>1, <3>2 DEF Alone
    <3>3. CASE m # n
      <4>1. Sending(m) # {} => notice[m] # "mixed"
        BY <1>2, <2>3, <2>4, <3>3, NoteMeans DEF Sending
      <4> QED
        BY <2>3, <3>3, <4>1 DEF AlertInv, Alone
    <3> QED
      BY <3>2, <3>3
  <2>5. ASSUME NEW m \in Groups, notice'[m] = "sure", Sending(m)' = {}
        PROVE  told'[m] <=> Alerting(m)'
    <3>1. notice[m] = "sure" /\ m # n
      BY <1>2, <2>2, <2>5, NoteMeans
    <3> QED
      BY <1>2, <2>3, <2>5, <3>1 DEF AlertInv, AlertsAgree
  <2> QED
    BY <2>4, <2>5 DEF AlertInv, AlertsAgree
<1> QED
  BY <1>1, <1>3, <1>4

LEMMA AlertNext ==
    ASSUME TypeOK, QuietInv, AlertInv, [Next]_vars PROVE AlertInv'
<1>1. CASE UNCHANGED <<told, notice, states, check>>
  BY <1>1, AlertKept DEF Sending
<1>2. ASSUME NEW n \in Groups,
             Create(n) \/ Flip(n)
             \/ (\E on \in BOOLEAN : SetSchedule(n, on) \/ SetAsserts(n, on))
             \/ (\E t \in 1..MaxThreshold : SetThreshold(n, t))
      PROVE  UNCHANGED <<told, notice, states, check>>
  BY <1>2 DEF Create, Flip, SetSchedule, SetAsserts, SetThreshold, Mutate
<1>3. ASSUME NEW k \in Checks, NEW c, check' = [check EXCEPT ![k] = c],
             check[k] = None \/ check[k].stage # "sending",
             c = None \/ c.stage # "sending", UNCHANGED <<told, notice, states>>
      PROVE  AlertInv'
  BY <1>3, NotSending, AlertKept
<1>4. ASSUME NEW n \in Groups, NEW k \in Checks, Fire(k, n) PROVE AlertInv'
  BY <1>3, <1>4 DEF Fire
<1>5. ASSUME NEW k \in Checks, Load(k) PROVE AlertInv'
  <2>1. check[k] \in Check /\ check[k].stage # "sending"
    BY <1>5, AtKind DEF Load, At
  <2>2. [check[k] EXCEPT !.stage = "loaded", !.group = groups[check[k].name]].stage
            # "sending"
    BY <2>1 DEF Check
  <2>3. UNCHANGED <<told, notice, states>>
    BY <1>5 DEF Load
  <2>4. \E c : check' = [check EXCEPT ![k] = c] /\ (c = None \/ c.stage # "sending")
    BY <1>5, <2>2 DEF Load, End
  <2> QED
    BY <1>3, <2>1, <2>3, <2>4
<1>6. ASSUME NEW k \in Checks, Observe(k) PROVE AlertInv'
  <2>1. check[k] \in Check /\ check[k].stage # "sending"
    BY <1>6, AtKind DEF Observe, At
  <2>2. \A s \in {"passed", "failed"} : [check[k] EXCEPT !.stage = s].stage # "sending"
    BY <2>1 DEF Check
  <2>3. UNCHANGED <<told, notice, states>>
    BY <1>6 DEF Observe
  <2>4. \E c : check' = [check EXCEPT ![k] = c] /\ (c = None \/ c.stage # "sending")
    BY <1>6, <2>2 DEF Observe
  <2> QED
    BY <1>3, <2>1, <2>3, <2>4
<1>7. CASE UNCHANGED vars
  BY <1>1, <1>7 DEF vars
<1> QED
  BY <1>1, <1>2, <1>4, <1>5, <1>6, <1>7, AlertDelete, AlertRestart, AlertClassify,
     AlertDeliver, AlertLose DEF Next, Run

\* The administrators have been told what the state says, from the first notice
\* delivered alone until one is lost or overtaken, however many checks of a
\* group overlap with each other, with commands, and with a deletion.
THEOREM AlertsAgreeAlways == Spec => []AlertsAgree
<1>1. Init => QuietInv
  BY DEF Init, QuietInv
<1>2. AlertInv => AlertsAgree
  BY DEF AlertInv
<1>3. TypeOK /\ QuietInv /\ [Next]_vars => QuietInv'
  BY QuietNext
<1>4. TypeOK /\ QuietInv /\ AlertInv /\ [Next]_vars => AlertInv'
  BY AlertNext
<1> QED
  BY <1>1, <1>2, <1>3, <1>4, TypeInit, InvInit, TypeNext, InvNext, AlertInit, PTL DEF Spec
=============================================================================
