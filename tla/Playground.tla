----------------------------- MODULE Playground -----------------------------
(***************************************************************************)
(* The scheduled checks of the playground and their alerts                 *)
(* (internal/playground/playground.go, scheduler.go; the commands and      *)
(* notify of internal/plugins/playground).                                 *)
(*                                                                         *)
(* The store's operations hold its mutex and are one action each.  The     *)
(* cron starts every check in a goroutine of its own, also when the one    *)
(* before has not ended.  A check copies its group, asks the endpoint,     *)
(* classifies what it saw under the mutex, and then, outside the mutex,    *)
(* sends a notice if there is anything to tell.                            *)
(*                                                                         *)
(* Left out: times, so that a scheduled group may be checked at any        *)
(* moment; what requests and assertions say, which is whether the endpoint *)
(* is healthy; the reports of groups without assertions, which concern no  *)
(* alert; a file torn by the end of the process.                           *)
(***************************************************************************)
EXTENDS Naturals, FiniteSets

CONSTANTS
    Groups,         \* names of groups
    Checks,         \* goroutines of checks
    MaxThreshold,   \* bound: thresholds, and failures counted
    MaxCommands,    \* bound: commands, and ends of the process
    MaxFlips,       \* bound: changes of an endpoint's health
    MaxFaults,      \* bound: failed saves and lost notices
    None            \* no group, no state, no check

VARIABLES
    groups,     \* the map in memory
    file,       \* its copy on disk
    entries,    \* names whose cron entry the store knows
    cron,       \* per name, the entries the cron really has
    states,     \* the debounce states
    check,      \* what each goroutine does
    healthy,    \* whether a group's endpoint passes its assertions
    told,       \* per name, whether the last notice said it fails
    notice,     \* history: whether told should agree with states
    commands, flips, faults

vars == <<groups, file, entries, cron, states, check, healthy, told, notice,
          commands, flips, faults>>

\* A threshold of 0 is one that was never set.
Group == [scheduled : BOOLEAN, asserts : BOOLEAN, threshold : 0..MaxThreshold]

State == [fails : 0..MaxThreshold, alerting : BOOLEAN]

Check == [name : Groups, stage : {"fired", "loaded", "passed", "failed", "sending"},
          group : Group \union {None}, alert : BOOLEAN]

ASSUME PlaygroundAssumption ==
    /\ MaxThreshold \in Nat \ {0} /\ None \notin Group \union State \union Check
    /\ MaxCommands \in Nat /\ MaxFlips \in Nat /\ MaxFaults \in Nat
    /\ IsFiniteSet(Checks)

Alerting(n) == states[n] # None /\ states[n].alerting

-----------------------------------------------------------------------------
(* The history.  A notice is sure when it was the only one on its way from *)
(* its classification to its delivery, and the state stayed what it was.   *)

SendingIn(checks, n) ==
    {k \in Checks : checks[k] # None /\ checks[k].name = n /\ checks[k].stage = "sending"}

Sending(n) == SendingIn(check, n)

\* Something happens to the alerts of the names in bad that no notice tells;
\* those of the names in good are delivered.
Note(bad, good) ==
    notice' = [n \in Groups |->
        IF \/ Cardinality(SendingIn(check', n)) > 1
           \/ SendingIn(check', n) # {} /\ (n \in bad \/ notice[n] = "mixed")
        THEN "mixed"
        ELSE IF n \in bad \/ notice[n] = "mixed" THEN "unsure"
        ELSE IF n \in good THEN "sure"
        ELSE notice[n]]

Fault == faults < MaxFaults /\ faults' = faults + 1

-----------------------------------------------------------------------------
(* The commands.                                                           *)

Scheduled(gs) == {n \in Groups : gs[n] # None /\ gs[n].scheduled}

OneEach(ns) == [n \in Groups |-> IF n \in ns THEN 1 ELSE 0]

\* The process has started, from any file.
Init ==
    /\ groups \in [Groups -> Group \union {None}]
    /\ file = groups
    /\ entries = Scheduled(groups)
    /\ cron = OneEach(entries)
    /\ states = [n \in Groups |-> None]
    /\ check = [k \in Checks |-> None]
    /\ healthy = [n \in Groups |-> TRUE]
    /\ told = [n \in Groups |-> FALSE]
    /\ notice = [n \in Groups |-> "sure"]
    /\ commands = 0 /\ flips = 0 /\ faults = 0

\* A failed save leaves the change in memory.
Save ==
    \/ file' = groups' /\ UNCHANGED faults
    \/ Fault /\ UNCHANGED file

Command == commands < MaxCommands /\ commands' = commands + 1

\* Mutant: the entry before is not removed from the cron.
ScheduleTwice(n, on) ==
    /\ cron' = [cron EXCEPT ![n] =
           IF on THEN @ + 1 ELSE IF n \in entries THEN @ - 1 ELSE @]
    /\ entries' = IF on THEN entries \union {n} ELSE entries \ {n}

\* Mutant: an entry is removed that may not be there.
ScheduleUnchecked(n, on) ==
    /\ cron' = [cron EXCEPT ![n] = @ - 1 + (IF on THEN 1 ELSE 0)]
    /\ entries' = IF on THEN entries \union {n} ELSE entries \ {n}

\* scheduleLocked.
Schedule(n, on) ==
    /\ cron' = [cron EXCEPT ![n] =
           (IF n \in entries THEN @ - 1 ELSE @) + (IF on THEN 1 ELSE 0)]
    /\ entries' = IF on THEN entries \union {n} ELSE entries \ {n}

Create(n) ==
    /\ groups[n] = None
    /\ groups' = [groups EXCEPT ![n] =
           [scheduled |-> FALSE, asserts |-> FALSE, threshold |-> 0]]
    /\ Save /\ Command
    /\ UNCHANGED <<entries, cron, states, check, healthy, told, notice, flips>>

Delete(n) ==
    /\ groups[n] # None
    /\ Schedule(n, FALSE)
    /\ groups' = [groups EXCEPT ![n] = None]
    /\ states' = [states EXCEPT ![n] = None]
    /\ Save /\ Command
    /\ UNCHANGED <<check, healthy, told, flips>>
    /\ Note({n}, {})

SetSchedule(n, on) ==
    /\ groups[n] # None
    /\ groups' = [groups EXCEPT ![n].scheduled = on]
    /\ Schedule(n, on)
    /\ Save /\ Command
    /\ UNCHANGED <<states, check, healthy, told, notice, flips>>

\* Mutate, from /pg assert and /pg set threshold.
Mutate(n, g) ==
    /\ groups' = [groups EXCEPT ![n] = g]
    /\ Save /\ Command
    /\ UNCHANGED <<entries, cron, states, check, healthy, told, notice, flips>>

SetAsserts(n, on) == groups[n] # None /\ Mutate(n, [groups[n] EXCEPT !.asserts = on])

SetThreshold(n, t) == groups[n] # None /\ Mutate(n, [groups[n] EXCEPT !.threshold = t])

\* The process ends; Init loads the file and StartScheduler adds the entries.
Restart ==
    /\ Command
    /\ groups' = file
    /\ entries' = Scheduled(file)
    /\ cron' = OneEach(entries')
    /\ states' = [n \in Groups |-> None]
    /\ check' = [k \in Checks |-> None]
    /\ UNCHANGED <<file, healthy, told, flips, faults>>
    /\ Note({n \in Groups : Alerting(n) \/ Sending(n) # {}}, {})

-----------------------------------------------------------------------------
(* runCheck.                                                               *)

config == <<groups, file, entries, cron>>

End(k) == check' = [check EXCEPT ![k] = None]

Fire(k, n) ==
    /\ cron[n] > 0 /\ check[k] = None
    /\ check' = [check EXCEPT ![k] =
           [name |-> n, stage |-> "fired", group |-> None, alert |-> FALSE]]
    /\ UNCHANGED <<config, states, healthy, told, notice, commands, flips, faults>>

At(k, stages) == check[k] # None /\ check[k].stage \in stages

\* Get, which copies the group; the check ends when it is gone.
Load(k) ==
    LET g == groups[check[k].name]
    IN  /\ At(k, {"fired"})
        /\ IF g = None
           THEN End(k)
           ELSE check' = [check EXCEPT ![k].stage = "loaded", ![k].group = g]
        /\ UNCHANGED <<config, states, healthy, told, notice, commands, flips, faults>>

\* Execute and EvalAsserts, at the moment the endpoint answers.
Observe(k) ==
    /\ At(k, {"loaded"})
    /\ check' = [check EXCEPT ![k].stage =
           IF healthy[check[k].name] THEN "passed" ELSE "failed"]
    /\ UNCHANGED <<config, states, healthy, told, notice, commands, flips, faults>>

\* Mutant: a threshold that was not set is never reached.
BeginsIfSet(s, g) == g.threshold > 0 /\ s.fails >= g.threshold /\ ~s.alerting

\* Whether a failure begins an alert; s has counted it.
Begins(s, g) == s.fails >= g.threshold /\ ~s.alerting

\* Mutant: a success resets the counter alone.
PassedCount(s) == [s EXCEPT !.fails = 0]

Passed(s) == [fails |-> 0, alerting |-> FALSE]

Counted(s) == [s EXCEPT !.fails = IF @ < MaxThreshold THEN @ + 1 ELSE @]

\* classify.
Classify(k) ==
    LET n == check[k].name
        g == check[k].group
        s == IF states[n] = None THEN [fails |-> 0, alerting |-> FALSE] ELSE states[n]
    IN  /\ UNCHANGED <<config, healthy, told, commands, flips, faults>>
        /\ \/ /\ At(k, {"passed", "failed"}) /\ ~g.asserts
              /\ UNCHANGED states
              /\ End(k)
           \/ /\ At(k, {"failed"}) /\ g.asserts
              /\ IF Begins(Counted(s), g)
                 THEN /\ states' = [states EXCEPT ![n] = [Counted(s) EXCEPT !.alerting = TRUE]]
                      /\ check' = [check EXCEPT ![k].stage = "sending", ![k].alert = TRUE]
                 ELSE states' = [states EXCEPT ![n] = Counted(s)] /\ End(k)
           \/ /\ At(k, {"passed"}) /\ g.asserts
              /\ states' = [states EXCEPT ![n] = Passed(s)]
              /\ IF s.alerting
                 THEN check' = [check EXCEPT ![k].stage = "sending"]
                 ELSE End(k)
        /\ Note({}, {})

\* notify.
Deliver(k) ==
    /\ At(k, {"sending"})
    /\ told' = [told EXCEPT ![check[k].name] = check[k].alert]
    /\ End(k)
    /\ UNCHANGED <<config, states, healthy, commands, flips, faults>>
    /\ Note({}, {check[k].name})

\* There is no administrator, or Telegram does not take the notice.
Lose(k) ==
    /\ At(k, {"sending"})
    /\ Fault
    /\ End(k)
    /\ UNCHANGED <<config, states, healthy, told, commands, flips>>
    /\ Note({check[k].name}, {})

\* The endpoint fails, or works again.
Flip(n) ==
    /\ flips < MaxFlips /\ flips' = flips + 1
    /\ healthy' = [healthy EXCEPT ![n] = ~@]
    /\ UNCHANGED <<config, states, check, told, notice, commands, faults>>

Run(k) == Load(k) \/ Observe(k) \/ Classify(k) \/ Deliver(k)

Next ==
    \/ \E n \in Groups :
           \/ Create(n) \/ Delete(n) \/ Flip(n)
           \/ \E on \in BOOLEAN : SetSchedule(n, on) \/ SetAsserts(n, on)
           \/ \E t \in 1..MaxThreshold : SetThreshold(n, t)
           \/ \E k \in Checks : Fire(k, n)
    \/ \E k \in Checks : Run(k) \/ Lose(k)
    \/ Restart

\* The cron fires every entry again and again, and every check ends: its request
\* has a deadline of 20 seconds, and a notice is sent or lost.
Fairness ==
    /\ \A n \in Groups : SF_vars(\E k \in Checks : Fire(k, n))
    /\ \A k \in Checks : WF_vars(Run(k))

Spec == Init /\ [][Next]_vars /\ Fairness

-----------------------------------------------------------------------------
(* Properties.                                                             *)

\* Every variable holds a value of its kind.
TypeOK ==
    /\ groups \in [Groups -> Group \union {None}]
    /\ file \in [Groups -> Group \union {None}]
    /\ entries \subseteq Groups
    /\ cron \in [Groups -> Nat]
    /\ states \in [Groups -> State \union {None}]
    /\ check \in [Checks -> Check \union {None}]
    /\ healthy \in [Groups -> BOOLEAN]
    /\ told \in [Groups -> BOOLEAN]
    /\ notice \in [Groups -> {"sure", "unsure", "mixed"}]
    /\ commands \in 0..MaxCommands /\ flips \in 0..MaxFlips /\ faults \in 0..MaxFaults

\* The cron has one entry for each group with a schedule and none for any other
\* name, deleted ones included: rescheduling "effective immediately" neither
\* doubles the checks nor leaves any behind.
OneEntry ==
    \A n \in Groups :
        cron[n] = IF groups[n] # None /\ groups[n].scheduled THEN 1 ELSE 0

\* The administrators have been told that a group fails exactly when its state
\* says so ("a notice follows on recovery"), from the first notice on that was
\* delivered by itself, until one is lost or overtaken or the state is dropped.
AlertsAgree ==
    \A n \in Groups : notice[n] = "sure" /\ Sending(n) = {} => (told[n] <=> Alerting(n))

Watched(n) == groups[n] # None /\ groups[n].scheduled /\ groups[n].asserts

\* The alert follows the endpoint: a group that stays scheduled, with
\* assertions, whose endpoint stays down ends up alerting and whose endpoint
\* stays up ends up not alerting, whatever the checks that were under way when
\* it changed, or when the group was deleted and created again, still report.
AlertFollows ==
    \A n \in Groups :
        /\ <>[](Watched(n) /\ ~healthy[n]) => <>[]Alerting(n)
        /\ <>[](Watched(n) /\ healthy[n]) => <>[]~Alerting(n)
=============================================================================
