----------------------- MODULE DynamicCommandsProofs -----------------------
(***************************************************************************)
(* What holds of the dynamic commands for any names, any number of         *)
(* administrators at work, and any number of failures and restarts.        *)
(***************************************************************************)
EXTENDS DynamicCommands, TLAPS

\* Setup has registered the groups.
Wired == phase \in {"wired", "up"}

\* Command n has a handler, or is getting it at this moment.
Answered(n) ==
    handled[n] # "none" \/ \E h \in Handlers : At(h, "listed") /\ job[h].name = n

\* What Setup has done by each of its stages, before any handler runs.  No
\* command that is given a handler belongs to a plugin.
PhaseInv ==
    /\ phase # "up" => Quiet
    /\ phase \in {"down", "installed"} => dynamic = {}
    /\ phase # "down" => base = Static /\ \A n \in Static : handled[n] = "static"
    /\ \A h \in Handlers : At(h, "listed") => job[h].name \notin Static

\* Every fit and free group has its handler or a command in progress that
\* leads there.
GroupInv ==
    Wired =>
        \A n \in (groups \intersect Fit) \ Static :
            \/ handled[n] = "group"
            \/ \E h \in Handlers : /\ At(h, "created") \/ At(h, "listed")
                                   /\ job[h].name = n
            \/ trust[n] = "unsaved"

\* Nothing that is in the menu, or in the table, or in a menu on its way, is
\* without an answer.
MenuInv ==
    /\ Wired => \A n \in dynamic : Answered(n)
    /\ phase = "up" => \A n \in menu : Answered(n)
    /\ \A h \in Handlers : At(h, "pushing") => \A n \in job[h].menu : Answered(n)

\* A name without a race has at most one command in progress, which knows what
\* became of the group and has yet to change the table, or has changed it.
TableInv ==
    Wired =>
        \A n \in Fit \ Static : trust[n] = "clean" =>
            /\ \A g, h \in Handlers : WorksOn(g, n) /\ WorksOn(h, n) => g = h
            /\ \A h \in Handlers : WorksOn(h, n) =>
                   /\ At(h, "created") => n \in groups
                   /\ At(h, "deleted") => n \notin groups
            /\ \/ \E h \in Handlers : /\ WorksOn(h, n)
                                      /\ At(h, "created") \/ At(h, "deleted")
               \/ n \in dynamic <=> n \in groups

\* A handler has changed the table and not yet read the menu.
Changing == \E h \in Handlers : At(h, "listed") \/ At(h, "changed")

\* A push that is alone on its way carries what the table holds, but for
\* changes whose own push is still to come; and so does the menu it has set.
ToldInv ==
    phase = "up" /\ ~Changing =>
        /\ told /\ (\A h \in Handlers : ~At(h, "pushing")) => menu = FullMenu
        /\ \A h \in Handlers : At(h, "pushing") /\ job[h].alone =>
               job[h].menu = FullMenu

AloneInv ==
    \A g, h \in Handlers :
        At(g, "pushing") /\ At(h, "pushing") /\ job[h].alone => g = h

IInv ==
    TypeOK /\ PhaseInv /\ GroupInv /\ MenuInv /\ TableInv /\ ToldInv /\ AloneInv

-----------------------------------------------------------------------------
(* How the handlers' jobs change.                                          *)

\* Every handler but h goes on as it was.
OthersStay(h) == \A g \in Handlers \ {h} : job'[g] = job[g]

LEMMA JobFields ==
    ASSUME TypeOK, NEW h \in Handlers, job[h] # NoJob
    PROVE  /\ job[h] \in Job
           /\ job[h].name \in Names /\ job[h].stage \in Stages
           /\ job[h].menu \in SUBSET Names /\ job[h].alone \in BOOLEAN
BY DEF TypeOK, Job

LEMMA GoStep ==
    ASSUME TypeOK, NEW h \in Handlers, job[h] # NoJob,
           NEW s \in Stages, Go(h, s)
    PROVE  /\ job' \in [Handlers -> Job \union {NoJob}]
           /\ OthersStay(h)
           /\ job'[h] # NoJob
           /\ job'[h].name = job[h].name /\ job'[h].stage = s
           /\ job'[h].menu = job[h].menu /\ job'[h].alone = job[h].alone
<1>1. job[h] \in Job
  BY JobFields
<1>2. [job[h] EXCEPT !.stage = s] \in Job
  BY <1>1 DEF Job
<1>3. job'[h] = [job[h] EXCEPT !.stage = s]
  BY DEF Go, TypeOK
<1>4. job' \in [Handlers -> Job \union {NoJob}] /\ OthersStay(h)
  BY <1>2 DEF Go, TypeOK, OthersStay
<1> QED BY <1>1, <1>2, <1>3, <1>4, CommandsAssumption DEF Job

LEMMA DoneStep ==
    ASSUME TypeOK, NEW h \in Handlers, Done(h)
    PROVE  /\ job' \in [Handlers -> Job \union {NoJob}]
           /\ OthersStay(h)
           /\ job'[h] = NoJob
BY DEF Done, TypeOK, OthersStay

LEMMA StartStep ==
    ASSUME TypeOK, NEW h \in Handlers, NEW n \in Names, NEW s \in Stages,
           job' = [job EXCEPT ![h] = Started(n, s)]
    PROVE  /\ job' \in [Handlers -> Job \union {NoJob}]
           /\ OthersStay(h)
           /\ job'[h] # NoJob
           /\ job'[h].name = n /\ job'[h].stage = s
<1>1. Started(n, s) \in Job
  BY DEF Started, Job
<1> QED BY <1>1, CommandsAssumption DEF Started, TypeOK, OthersStay

\* What is answered stays so while a handler moves on from any stage but
\* "listed", and when it moves on from there by setting its command's handler.
LEMMA AnsweredStays ==
    ASSUME TypeOK, NEW h \in Handlers, OthersStay(h),
           \/ handled' = handled /\ (~At(h, "listed"))
           \/ /\ At(h, "listed")
              /\ handled' = [handled EXCEPT ![job[h].name] = "group"],
           NEW n \in Names, Answered(n)
    PROVE  Answered(n)'
<1>1. CASE handled[n] # "none"
  <2>1. CASE handled' = handled
    BY <1>1, <2>1 DEF Answered
  <2>2. CASE handled' = [handled EXCEPT ![job[h].name] = "group"]
    BY <1>1, <2>2 DEF Answered, TypeOK
  <2> QED BY <2>1, <2>2
<1>2. CASE \E g \in Handlers : At(g, "listed") /\ job[g].name = n
  <2>1. PICK g \in Handlers : At(g, "listed") /\ job[g].name = n
    BY <1>2
  <2>2. CASE g # h
    <3>1. job'[g] = job[g]
      BY <2>2 DEF OthersStay
    <3> QED BY <2>1, <3>1 DEF Answered, At
  <2>3. CASE g = h
    BY <2>1, <2>3 DEF Answered, TypeOK
  <2> QED BY <2>2, <2>3
<1> QED BY <1>1, <1>2 DEF Answered

-----------------------------------------------------------------------------
LEMMA InvInit == Init => IInv
<1> SUFFICES ASSUME Init PROVE IInv
  OBVIOUS
<1>1. TypeOK
  <2>1. /\ handled \in [Names -> {"none", "static", "group"}]
        /\ job \in [Handlers -> Job \union {NoJob}]
        /\ trust \in [Names -> {"clean", "raced", "unsaved"}]
    BY DEF Init, Nothing, NoJobs
  <2>2. faults \in 0..MaxFaults /\ restarts \in 0..MaxRestarts
    BY CommandsAssumption DEF Init
  <2> QED BY <2>1, <2>2 DEF Init, TypeOK
<1>2. \A h \in Handlers : job[h] = NoJob
  BY DEF Init, NoJobs
<1> QED
  BY <1>1, <1>2
  DEF Init, IInv, PhaseInv, Quiet, GroupInv, MenuInv, TableInv, ToldInv,
      AloneInv, Wired, At

LEMMA ExitKeeps ==
    ASSUME TypeOK, Exit, menu' \in SUBSET Names,
           faults' \in 0..MaxFaults, restarts' \in 0..MaxRestarts
    PROVE  IInv'
<1>1. TypeOK'
  BY DEF TypeOK, Exit, Nothing, NoJobs
<1>2. \A h \in Handlers : job'[h] = NoJob
  BY DEF Exit, NoJobs
<1>3. phase' = "down" /\ dynamic' = {}
  BY DEF Exit
<1> QED
  BY <1>1, <1>2, <1>3
  DEF IInv, PhaseInv, Quiet, GroupInv, MenuInv, TableInv, ToldInv, AloneInv,
      Wired, At

LEMMA SetupKeeps ==
    ASSUME IInv, Install \/ Wire \/ InitialPush \/ InitialPushFails \/ Crash
    PROVE  IInv'
<1> USE DEF IInv
<1>1. CASE Install
  <2>1. TypeOK'
    BY <1>1, CommandsAssumption DEF Install, TypeOK
  <2>2. \A h \in Handlers : job'[h] = NoJob
    BY <1>1 DEF Install, PhaseInv, Quiet
  <2>3. PhaseInv'
    BY <1>1, <2>2, CommandsAssumption DEF Install, PhaseInv, Quiet, At, TypeOK
  <2> QED
    BY <1>1, <2>1, <2>2, <2>3
    DEF Install, GroupInv, MenuInv, TableInv, ToldInv, AloneInv, Wired, At
<1>2. CASE Wire
  <2> DEFINE added == (groups \intersect Fit) \ base
  <2>1. /\ dynamic = {} /\ base = Static
        /\ \A n \in Static : handled[n] = "static"
        /\ Quiet
    BY <1>2 DEF Wire, PhaseInv
  <2>2. /\ dynamic' = added
        /\ handled' = [n \in Names |-> IF n \in added THEN "group"
                                                      ELSE handled[n]]
        /\ phase' = "wired" /\ groups' = groups /\ base' = base /\ job' = job
    BY <1>2, <2>1 DEF Wire
  <2>3. added \subseteq Names /\ Static \subseteq Names
    BY CommandsAssumption DEF TypeOK
  <2>4. TypeOK'
    BY <1>2, <2>2, <2>3 DEF Wire, TypeOK
  <2>5. \A n \in added : handled'[n] = "group"
    BY <2>2, <2>3
  <2>6. \A n \in Static : handled'[n] = "static"
    BY <2>1, <2>2, <2>3
  <2>7. Quiet'
    BY <2>1, <2>2 DEF Quiet
  <2>8. PhaseInv' /\ Wired'
    BY <2>1, <2>2, <2>6, <2>7 DEF PhaseInv, Wired, Quiet, At
  <2>9. \A n \in Fit \ Static : n \in dynamic' <=> n \in groups'
    BY <2>1, <2>2
  <2>10. \A h \in Handlers : job'[h] = NoJob
    BY <2>7 DEF Quiet
  <2>11. GroupInv' /\ MenuInv'
    BY <2>2, <2>5, <2>9, <2>10 DEF GroupInv, MenuInv, Answered, At
  <2>12. TableInv' /\ ToldInv' /\ AloneInv'
    BY <2>2, <2>9, <2>10 DEF TableInv, ToldInv, AloneInv, WorksOn, At
  <2> QED BY <2>4, <2>8, <2>11, <2>12
<1>3. CASE InitialPush
  <2>1. Quiet /\ base = Static /\ Wired
    BY <1>3 DEF InitialPush, PhaseInv, Wired
  <2>2. \A h \in Handlers : job[h] = NoJob /\ job'[h] = NoJob
    BY <1>3, <2>1 DEF InitialPush, Quiet
  <2>3. /\ phase' = "up" /\ menu' = FullMenu /\ FullMenu' = FullMenu
        /\ groups' = groups /\ dynamic' = dynamic /\ base' = base
        /\ handled' = handled /\ trust' = trust
    BY <1>3 DEF InitialPush, FullMenu
  <2>4. TypeOK'
    BY <1>3, <2>1, CommandsAssumption DEF InitialPush, TypeOK, FullMenu
  <2>5. PhaseInv' /\ GroupInv'
    BY <2>1, <2>2, <2>3 DEF PhaseInv, GroupInv, Wired, At
  <2>6. \A n \in FullMenu : Answered(n)'
    BY <2>1, <2>2, <2>3 DEF PhaseInv, MenuInv, Wired, Answered, FullMenu, At
  <2>7. MenuInv'
    BY <2>2, <2>3, <2>6 DEF MenuInv, FullMenu, At
  <2>8. TableInv' /\ ToldInv' /\ AloneInv'
    BY <2>1, <2>2, <2>3 DEF TableInv, ToldInv, AloneInv, Wired, WorksOn, At
  <2> QED BY <2>4, <2>5, <2>7, <2>8
<1>4. CASE InitialPushFails
  <2>1. menu' \in SUBSET Names
    BY <1>4 DEF InitialPushFails, FullMenu, TypeOK
  <2>2. faults' \in 0..MaxFaults /\ restarts' \in 0..MaxRestarts
    BY <1>4, CommandsAssumption DEF InitialPushFails, Fail, TypeOK
  <2> QED BY <1>4, <2>1, <2>2, ExitKeeps DEF InitialPushFails
<1>5. CASE Crash
  <2>1. menu' \in SUBSET Names
    <3>1. \A h \in Handlers : At(h, "pushing") => job[h].menu \in SUBSET Names
      BY JobFields DEF At
    <3> QED BY <1>5, <3>1 DEF Crash, TypeOK
  <2>2. faults' \in 0..MaxFaults /\ restarts' \in 0..MaxRestarts
    BY <1>5, CommandsAssumption DEF Crash, TypeOK
  <2> QED BY <1>5, <2>1, <2>2, ExitKeeps DEF Crash
<1> QED BY <1>1, <1>2, <1>3, <1>4, <1>5

-----------------------------------------------------------------------------
(* Commands that begin.                                                    *)

\* A handler at work is only there when Setup is over.
LEMMA AtWork ==
    ASSUME IInv, NEW h \in Handlers, job[h] # NoJob
    PROVE  phase = "up" /\ base = Static /\ Wired
BY DEF IInv, PhaseInv, Quiet, Wired

LEMMA StartKeeps ==
    ASSUME IInv, NEW h \in Handlers, NEW n \in Names,
           Create(h, n) \/ Delete(h, n)
    PROVE  IInv'
<1> USE DEF IInv
<1>1. /\ phase = "up" /\ phase' = "up" /\ job[h] = NoJob
      /\ base' = base /\ dynamic' = dynamic /\ menu' = menu
      /\ handled' = handled /\ told' = told
      /\ faults' = faults /\ restarts' = restarts
  BY DEF Create, Delete, Free
<1>2. \/ /\ n \notin groups /\ groups' = groups \union {n}
         /\ \/ n \in Fit /\ job' = [job EXCEPT ![h] = Started(n, "created")]
            \/ n \notin Fit /\ job' = job
      \/ /\ n \in groups /\ groups' = groups \ {n}
         /\ job' = [job EXCEPT ![h] = Started(n, "deleted")]
  BY DEF Create, Delete
<1>3. /\ job' \in [Handlers -> Job \union {NoJob}]
      /\ OthersStay(h)
      /\ \/ job'[h] = NoJob /\ n \notin Fit
         \/ /\ job'[h] # NoJob /\ job'[h].name = n
            /\ \/ job'[h].stage = "created" /\ n \in groups'
               \/ job'[h].stage = "deleted" /\ n \notin groups'
  <2>1. CASE job' = job
    BY <1>1, <1>2, <2>1, StartStep DEF TypeOK, OthersStay, Stages
  <2>2. CASE job' = [job EXCEPT ![h] = Started(n, "created")] /\ n \in groups'
    BY <2>2, StartStep DEF Stages
  <2>3. CASE job' = [job EXCEPT ![h] = Started(n, "deleted")] /\ n \notin groups'
    BY <2>3, StartStep DEF Stages
  <2> QED BY <1>2, <2>1, <2>2, <2>3
<1>4. trust' = [trust EXCEPT ![n] =
                  IF \E g \in Handlers \ {h} : WorksOn(g, n) THEN "raced"
                                                             ELSE "clean"]
  BY DEF Create, Delete, Begun
<1>5. /\ \A m \in Names \ {n} : /\ trust'[m] = trust[m]
                                /\ m \in groups' <=> m \in groups
      /\ trust'[n] = "clean" => \A g \in Handlers \ {h} : ~WorksOn(g, n)
  BY <1>2, <1>4 DEF TypeOK
<1>6. TypeOK'
  <2>1. trust' \in [Names -> {"clean", "raced", "unsaved"}]
    BY <1>4 DEF TypeOK
  <2>2. groups' \subseteq Names /\ file' \subseteq Names
    BY <1>2 DEF Create, Delete, TypeOK
  <2> QED BY <1>1, <1>3, <2>1, <2>2 DEF TypeOK
<1>7. \A g \in Handlers :
          /\ At(g, "listed")' <=> At(g, "listed")
          /\ At(g, "changed")' <=> At(g, "changed")
          /\ At(g, "pushing")' <=> At(g, "pushing")
          /\ g # h => job'[g] = job[g]
          /\ At(g, "listed") \/ At(g, "changed") \/ At(g, "pushing")
                 => job'[g] = job[g]
  BY <1>1, <1>3 DEF At, OthersStay
<1>8. PhaseInv' /\ AloneInv' /\ ToldInv'
  BY <1>1, <1>7 DEF PhaseInv, AloneInv, ToldInv, Changing, FullMenu
<1>9. MenuInv'
  <2>1. \A m : Answered(m) => Answered(m)'
    BY <1>1, <1>7 DEF Answered
  <2> QED BY <1>1, <1>7, <2>1 DEF MenuInv, Wired
<1>10. GroupInv'
  <2> SUFFICES ASSUME NEW m \in (groups' \intersect Fit) \ Static
               PROVE  \/ handled'[m] = "group"
                      \/ \E g \in Handlers :
                             /\ At(g, "created")' \/ At(g, "listed")'
                             /\ job'[g].name = m
                      \/ trust'[m] = "unsaved"
    BY <1>1 DEF GroupInv, Wired
  <2>1. CASE m = n
    BY <1>3, <2>1 DEF At
  <2>2. CASE m # n
    <3>1. m \in groups /\ m \in Names /\ trust'[m] = trust[m]
      BY <1>5, <2>2, CommandsAssumption
    <3>2. \A g \in Handlers : At(g, "created") => job'[g] = job[g]
      BY <1>1, <1>7 DEF At
    <3>3. \/ handled[m] = "group"
          \/ \E g \in Handlers : /\ At(g, "created") \/ At(g, "listed")
                                 /\ job[g].name = m
          \/ trust[m] = "unsaved"
      BY <1>1, <3>1 DEF GroupInv, Wired
    <3> QED BY <1>1, <1>7, <3>1, <3>2, <3>3 DEF At
  <2> QED BY <2>1, <2>2
<1>11. TableInv'
  <2> SUFFICES ASSUME NEW m \in Fit \ Static, trust'[m] = "clean"
               PROVE  /\ \A f, g \in Handlers :
                             WorksOn(f, m)' /\ WorksOn(g, m)' => f = g
                      /\ \A g \in Handlers : WorksOn(g, m)' =>
                             /\ At(g, "created")' => m \in groups'
                             /\ At(g, "deleted")' => m \notin groups'
                      /\ \/ \E g \in Handlers :
                                /\ WorksOn(g, m)'
                                /\ At(g, "created")' \/ At(g, "deleted")'
                         \/ m \in dynamic' <=> m \in groups'
    BY <1>1 DEF TableInv, Wired
  <2>1. CASE m = n
    <3>1. \A g \in Handlers \ {h} : ~WorksOn(g, n)'
      BY <1>5, <1>7, <2>1 DEF WorksOn
    <3>2. WorksOn(h, n)' /\ (At(h, "created")' \/ At(h, "deleted")')
      BY <1>3, <2>1 DEF WorksOn, At
    <3>3. /\ At(h, "created")' => n \in groups'
          /\ At(h, "deleted")' => n \notin groups'
      BY <1>3, <2>1 DEF At
    <3> QED BY <2>1, <3>1, <3>2, <3>3
  <2>2. CASE m # n
    <3>1. m \in Names /\ trust[m] = "clean" /\ (m \in groups' <=> m \in groups)
      BY <1>5, <2>2, CommandsAssumption
    <3>2. ~WorksOn(h, m)' /\ ~WorksOn(h, m)
      BY <1>1, <1>3, <2>2 DEF WorksOn
    <3>3. \A g \in Handlers \ {h} : job'[g] = job[g]
      BY <1>7
    <3>4. \A g \in Handlers : WorksOn(g, m)' <=> WorksOn(g, m)
      BY <3>2, <3>3 DEF WorksOn
    <3>5. \A g \in Handlers : WorksOn(g, m) =>
              /\ At(g, "created")' <=> At(g, "created")
              /\ At(g, "deleted")' <=> At(g, "deleted")
      BY <3>2, <3>3 DEF WorksOn, At
    <3>6. /\ \A f, g \in Handlers : WorksOn(f, m) /\ WorksOn(g, m) => f = g
          /\ \A g \in Handlers : WorksOn(g, m) =>
                 /\ At(g, "created") => m \in groups
                 /\ At(g, "deleted") => m \notin groups
          /\ \/ \E g \in Handlers : /\ WorksOn(g, m)
                                    /\ At(g, "created") \/ At(g, "deleted")
             \/ m \in dynamic <=> m \in groups
      BY <1>1, <3>1 DEF TableInv, Wired
    <3>7. \A f, g \in Handlers : WorksOn(f, m)' /\ WorksOn(g, m)' => f = g
      BY <3>4, <3>6
    <3>8. \A g \in Handlers : WorksOn(g, m)' =>
              /\ At(g, "created")' => m \in groups'
              /\ At(g, "deleted")' => m \notin groups'
      BY <3>1, <3>4, <3>5, <3>6
    <3>9. \/ \E g \in Handlers : /\ WorksOn(g, m)'
                                 /\ At(g, "created")' \/ At(g, "deleted")'
          \/ m \in dynamic' <=> m \in groups'
      BY <1>1, <3>1, <3>4, <3>5, <3>6
    <3> QED BY <3>7, <3>8, <3>9
  <2> QED BY <2>1, <2>2
<1> QED BY <1>6, <1>8, <1>9, <1>10, <1>11

LEMMA SaveFailsKeeps ==
    ASSUME IInv, NEW h \in Handlers, NEW n \in Names, SaveFails(h, n)
    PROVE  IInv'
<1> USE DEF IInv
<1>1. /\ phase = "up" /\ phase' = "up" /\ job' = job
      /\ base' = base /\ dynamic' = dynamic /\ menu' = menu
      /\ handled' = handled /\ told' = told /\ file' = file
      /\ restarts' = restarts
      /\ trust' = [trust EXCEPT ![n] = "unsaved"]
      /\ groups' = IF n \in groups THEN groups \ {n} ELSE groups \union {n}
  BY DEF SaveFails, Free
<1>2. /\ trust'[n] = "unsaved"
      /\ \A m \in Names \ {n} : /\ trust'[m] = trust[m]
                                /\ m \in groups' <=> m \in groups
  BY <1>1 DEF TypeOK
<1>3. TypeOK'
  <2>1. faults' \in 0..MaxFaults
    BY CommandsAssumption DEF SaveFails, Fail, TypeOK
  <2>2. /\ trust' \in [Names -> {"clean", "raced", "unsaved"}]
        /\ groups' \subseteq Names
    BY <1>1 DEF TypeOK
  <2> QED BY <1>1, <2>1, <2>2 DEF TypeOK
<1>4. PhaseInv' /\ MenuInv' /\ ToldInv' /\ AloneInv'
  BY <1>1 DEF PhaseInv, Quiet, MenuInv, Answered, ToldInv, Changing, FullMenu,
              AloneInv, Wired, At
<1>5. GroupInv'
  <2>1. \A m \in Fit : m \in Names
    BY CommandsAssumption
  <2> QED BY <1>1, <1>2, <2>1 DEF GroupInv, Wired, At
<1>6. TableInv'
  <2> SUFFICES ASSUME NEW m \in Fit \ Static, trust'[m] = "clean"
               PROVE  /\ trust[m] = "clean"
                      /\ m \in groups' <=> m \in groups
    BY <1>1 DEF TableInv, Wired, WorksOn, At
  <2> QED BY <1>2, CommandsAssumption
<1> QED BY <1>3, <1>4, <1>5, <1>6

-----------------------------------------------------------------------------
(* Commands that go on.                                                    *)

\* A command that moves on stays with its name, and with the stages of others.
LEMMA MoveOn ==
    ASSUME NEW h \in Handlers, OthersStay(h), job[h] # NoJob,
           job'[h] # NoJob, job'[h].name = job[h].name
    PROVE  /\ \A g \in Handlers, m \in Names : WorksOn(g, m)' <=> WorksOn(g, m)
           /\ \A g \in Handlers \ {h} : \A s \in Stages : At(g, s)' <=> At(g, s)
<1>1. \A g \in Handlers \ {h} : job'[g] = job[g]
  BY DEF OthersStay
<1>2. \A g \in Handlers, m \in Names : WorksOn(g, m)' <=> WorksOn(g, m)
  BY <1>1 DEF WorksOn
<1>3. \A g \in Handlers \ {h} : \A s \in Stages : At(g, s)' <=> At(g, s)
  BY <1>1 DEF At
<1> QED BY <1>2, <1>3

\* What the table promises of one name.
TableAt(m) ==
    /\ \A g, h \in Handlers : WorksOn(g, m) /\ WorksOn(h, m) => g = h
    /\ \A h \in Handlers : WorksOn(h, m) =>
           /\ At(h, "created") => m \in groups
           /\ At(h, "deleted") => m \notin groups
    /\ \/ \E h \in Handlers : /\ WorksOn(h, m)
                              /\ At(h, "created") \/ At(h, "deleted")
       \/ m \in dynamic <=> m \in groups

\* A handler that changes the table to what became of its group keeps to it.
LEMMA ChangeKeepsTable ==
    ASSUME IInv, NEW h \in Handlers, NEW s \in {"listed", "changed"},
           OthersStay(h), job'[h] # NoJob,
           job'[h].name = job[h].name, job'[h].stage = s,
           \/ At(h, "created") /\ dynamic' = dynamic \union {job[h].name}
           \/ At(h, "deleted") /\ dynamic' = dynamic \ {job[h].name},
           groups' = groups, trust' = trust, phase' = phase
    PROVE  TableInv'
<1>1. job[h] # NoJob
  BY DEF At
<1>2. phase = "up" /\ Wired /\ Wired'
  BY <1>1, AtWork DEF Wired
<1>3. Fit \subseteq Names
  BY CommandsAssumption
<1>4. SUFFICES ASSUME NEW m \in Fit \ Static, trust[m] = "clean"
               PROVE  TableAt(m)'
  BY <1>2 DEF TableInv, TableAt
<1>5. TableAt(m)
  BY <1>2, <1>4 DEF IInv, TableInv, TableAt
<1>6. \A g \in Handlers : WorksOn(g, m)' <=> WorksOn(g, m)
  BY <1>1, <1>3, MoveOn
<1>7. \A g \in Handlers : g # h => job'[g] = job[g]
  BY DEF OthersStay
<1>8. ~At(h, "created")' /\ ~At(h, "deleted")'
  BY DEF At
<1>9. \A f, g \in Handlers : WorksOn(f, m)' /\ WorksOn(g, m)' => f = g
  BY <1>5, <1>6 DEF TableAt
<1>10. \A g \in Handlers : WorksOn(g, m)' =>
           /\ At(g, "created")' => m \in groups'
           /\ At(g, "deleted")' => m \notin groups'
  <2> SUFFICES ASSUME NEW g \in Handlers, WorksOn(g, m)'
               PROVE  /\ At(g, "created")' => m \in groups'
                      /\ At(g, "deleted")' => m \notin groups'
    OBVIOUS
  <2>1. CASE g = h
    BY <1>8, <2>1
  <2>2. CASE g # h
    <3>1. job'[g] = job[g]
      BY <1>7, <2>2
    <3>2. WorksOn(g, m)
      BY <3>1 DEF WorksOn
    <3>3. /\ At(g, "created") => m \in groups
          /\ At(g, "deleted") => m \notin groups
      BY <1>5, <3>2 DEF TableAt
    <3> QED BY <3>1, <3>3 DEF At
  <2> QED BY <2>1, <2>2
<1>11. \/ \E g \in Handlers : /\ WorksOn(g, m)'
                              /\ At(g, "created")' \/ At(g, "deleted")'
       \/ m \in dynamic' <=> m \in groups'
  <2>1. CASE job[h].name = m
    <3>1. WorksOn(h, m)
      BY <1>1, <2>1 DEF WorksOn
    <3> QED BY <1>5, <2>1, <3>1 DEF TableAt
  <2>2. CASE job[h].name # m
    <3>1. ~WorksOn(h, m) /\ (m \in dynamic' <=> m \in dynamic)
      BY <2>2 DEF WorksOn
    <3>2. CASE m \in dynamic <=> m \in groups
      BY <3>1, <3>2
    <3>3. CASE \E f \in Handlers :
                   WorksOn(f, m) /\ (At(f, "created") \/ At(f, "deleted"))
      <4>1. PICK f \in Handlers :
                WorksOn(f, m) /\ (At(f, "created") \/ At(f, "deleted"))
        BY <3>3
      <4>2. job'[f] = job[f]
        BY <1>7, <2>2, <4>1 DEF WorksOn
      <4>3. WorksOn(f, m)' /\ (At(f, "created")' \/ At(f, "deleted")')
        BY <4>1, <4>2 DEF WorksOn, At
      <4> QED BY <4>3
    <3> QED BY <1>5, <3>2, <3>3 DEF TableAt
  <2> QED BY <2>1, <2>2
<1> QED BY <1>9, <1>10, <1>11 DEF TableAt

LEMMA AddKeeps ==
    ASSUME IInv, NEW h \in Handlers, AddDynamic(h)
    PROVE  IInv'
<1> USE DEF IInv
<1> DEFINE n == job[h].name
<1>1. /\ At(h, "created") /\ job[h] # NoJob /\ n \notin base
      /\ dynamic' = dynamic \union {n} /\ Go(h, "listed")
      /\ phase' = phase /\ groups' = groups /\ file' = file /\ base' = base
      /\ handled' = handled /\ menu' = menu /\ faults' = faults
      /\ restarts' = restarts /\ trust' = trust /\ told' = told
  BY DEF AddDynamic, At
<1>2. phase = "up" /\ base = Static /\ Wired
  BY <1>1, AtWork
<1>3. /\ job' \in [Handlers -> Job \union {NoJob}]
      /\ OthersStay(h)
      /\ job'[h] # NoJob /\ job'[h].name = n /\ job'[h].stage = "listed"
  BY <1>1, GoStep DEF Stages
<1>4. n \in Names
  BY <1>1, JobFields
<1>5. TypeOK'
  BY <1>1, <1>3, <1>4 DEF TypeOK
<1>6. \A g \in Handlers \ {h} : job'[g] = job[g]
  BY <1>3 DEF OthersStay
<1>7. PhaseInv'
  BY <1>1, <1>2, <1>3, <1>6 DEF PhaseInv, At
<1>8. \A m \in Names : Answered(m) => Answered(m)'
  BY <1>1, <1>3, AnsweredStays DEF At
<1>9. \A m \in Names : m = n => Answered(m)'
  BY <1>3 DEF Answered, At
<1>10. GroupInv'
  <2> SUFFICES ASSUME NEW m \in (groups \intersect Fit) \ Static
               PROVE  \/ handled'[m] = "group"
                      \/ \E g \in Handlers :
                             /\ At(g, "created")' \/ At(g, "listed")'
                             /\ job'[g].name = m
                      \/ trust'[m] = "unsaved"
    BY <1>1 DEF GroupInv, Wired
  <2>1. ASSUME NEW g \in Handlers, At(g, "created") \/ At(g, "listed"),
               job[g].name = m
        PROVE  (At(g, "created")' \/ At(g, "listed")') /\ job'[g].name = m
    <3>1. CASE g = h
      BY <1>3, <2>1, <3>1 DEF At
    <3>2. CASE g # h
      BY <1>6, <2>1, <3>2 DEF At
    <3> QED BY <3>1, <3>2
  <2>2. \/ handled[m] = "group"
        \/ \E g \in Handlers : /\ At(g, "created") \/ At(g, "listed")
                               /\ job[g].name = m
        \/ trust[m] = "unsaved"
    BY <1>2 DEF GroupInv
  <2> QED BY <1>1, <2>1, <2>2
<1>11. MenuInv'
  <2>1. dynamic \subseteq Names /\ menu \subseteq Names
    BY DEF TypeOK
  <2>2. \A m \in dynamic' : Answered(m)'
    <3>1. \A m \in dynamic : Answered(m)'
      BY <1>2, <1>8, <2>1 DEF MenuInv
    <3>2. ASSUME NEW m \in dynamic', m \notin dynamic PROVE m = n
      BY <1>1, <3>2
    <3> QED BY <1>4, <1>9, <3>1, <3>2
  <2>3. \A m \in menu' : Answered(m)'
    BY <1>1, <1>2, <1>8, <2>1 DEF MenuInv
  <2>4. ASSUME NEW g \in Handlers, At(g, "pushing")', NEW m \in job'[g].menu
        PROVE  Answered(m)'
    <3>1. g # h /\ job'[g] = job[g]
      BY <1>3, <1>6, <2>4 DEF At
    <3>2. At(g, "pushing") /\ m \in job[g].menu
      BY <2>4, <3>1 DEF At
    <3>3. m \in Names
      BY <3>2, JobFields DEF At
    <3> QED BY <1>8, <3>2, <3>3 DEF MenuInv
  <2> QED BY <2>2, <2>3, <2>4 DEF MenuInv
<1>12. TableInv'
  BY <1>1, <1>3, ChangeKeepsTable
<1>13. ToldInv'
  BY <1>3 DEF ToldInv, Changing, At
<1>14. AloneInv'
  BY <1>3, <1>6 DEF AloneInv, At
<1> QED BY <1>5, <1>7, <1>10, <1>11, <1>12, <1>13, <1>14

LEMMA RemoveKeeps ==
    ASSUME IInv, NEW h \in Handlers, RemoveDynamic(h)
    PROVE  IInv'
<1> USE DEF IInv
<1>1. /\ At(h, "deleted") /\ job[h] # NoJob /\ ~At(h, "listed")
      /\ dynamic' = dynamic \ {job[h].name} /\ Go(h, "changed")
      /\ phase' = phase /\ groups' = groups /\ file' = file /\ base' = base
      /\ handled' = handled /\ menu' = menu /\ faults' = faults
      /\ restarts' = restarts /\ trust' = trust /\ told' = told
  BY DEF RemoveDynamic, At
<1>2. phase = "up" /\ base = Static /\ Wired
  BY <1>1, AtWork
<1>3. /\ job' \in [Handlers -> Job \union {NoJob}]
      /\ OthersStay(h)
      /\ job'[h] # NoJob /\ job'[h].name = job[h].name
      /\ job'[h].stage = "changed"
  BY <1>1, GoStep DEF Stages
<1>4. TypeOK'
  BY <1>1, <1>3 DEF TypeOK
<1>5. \A g \in Handlers : g # h => job'[g] = job[g]
  BY <1>3 DEF OthersStay
<1>6. \A g \in Handlers : /\ At(g, "listed")' => At(g, "listed") /\ g # h
                          /\ At(g, "pushing")' => At(g, "pushing") /\ g # h
  BY <1>3, <1>5 DEF At
<1>7. PhaseInv'
  BY <1>1, <1>2, <1>5, <1>6 DEF PhaseInv
<1>8. \A m \in Names : Answered(m) => Answered(m)'
  BY <1>1, <1>3, AnsweredStays
<1>9. GroupInv'
  <2>1. \A g \in Handlers : At(g, "created") \/ At(g, "listed")
                              => job'[g] = job[g]
    BY <1>1, <1>5 DEF At
  <2> QED BY <1>1, <1>2, <2>1 DEF GroupInv, Wired, At
<1>10. MenuInv'
  <2>1. dynamic' \subseteq dynamic /\ dynamic \subseteq Names /\ menu \subseteq Names
    BY <1>1 DEF TypeOK
  <2>2. \A m \in dynamic' : Answered(m)'
    BY <1>2, <1>8, <2>1 DEF MenuInv
  <2>3. \A m \in menu' : Answered(m)'
    BY <1>1, <1>2, <1>8, <2>1 DEF MenuInv
  <2>4. ASSUME NEW g \in Handlers, At(g, "pushing")', NEW m \in job'[g].menu
        PROVE  Answered(m)'
    <3>1. g # h /\ job'[g] = job[g]
      BY <1>5, <1>6, <2>4
    <3>2. At(g, "pushing") /\ m \in job[g].menu
      BY <2>4, <3>1 DEF At
    <3>3. m \in Names
      BY <3>2, JobFields DEF At
    <3> QED BY <1>8, <3>2, <3>3 DEF MenuInv
  <2> QED BY <2>2, <2>3, <2>4 DEF MenuInv
<1>11. TableInv'
  BY <1>1, <1>3, ChangeKeepsTable
<1>12. ToldInv'
  BY <1>3 DEF ToldInv, Changing, At
<1>13. AloneInv'
  BY <1>5, <1>6 DEF AloneInv
<1> QED BY <1>4, <1>7, <1>9, <1>10, <1>11, <1>12, <1>13

LEMMA HandleKeeps ==
    ASSUME IInv, NEW h \in Handlers, Handle(h)
    PROVE  IInv'
<1> USE DEF IInv
<1>1. /\ At(h, "listed") /\ job[h] # NoJob /\ Go(h, "changed")
      /\ handled' = [handled EXCEPT ![job[h].name] = "group"]
      /\ phase' = phase /\ groups' = groups /\ file' = file /\ base' = base
      /\ dynamic' = dynamic /\ menu' = menu /\ faults' = faults
      /\ restarts' = restarts /\ trust' = trust /\ told' = told
  BY DEF Handle, At
<1>2. phase = "up" /\ base = Static /\ Wired
  BY <1>1, AtWork
<1>3. /\ job' \in [Handlers -> Job \union {NoJob}]
      /\ OthersStay(h)
      /\ job'[h] # NoJob /\ job'[h].name = job[h].name
      /\ job'[h].stage = "changed"
  BY <1>1, GoStep DEF Stages
<1>4. /\ job[h].name \in Names /\ job[h].name \notin Static
      /\ handled'[job[h].name] = "group"
      /\ \A m \in Names : m # job[h].name => handled'[m] = handled[m]
  BY <1>1, JobFields DEF PhaseInv, TypeOK
<1>5. TypeOK'
  BY <1>1, <1>3 DEF TypeOK
<1>6. \A g \in Handlers : g # h => job'[g] = job[g]
  BY <1>3 DEF OthersStay
<1>7. \A g \in Handlers : /\ At(g, "listed")' => At(g, "listed") /\ g # h
                          /\ At(g, "pushing")' => At(g, "pushing") /\ g # h
  BY <1>3, <1>6 DEF At
<1>8. PhaseInv'
  BY <1>1, <1>2, <1>4, <1>6, <1>7, CommandsAssumption DEF PhaseInv
<1>9. \A m \in Names : Answered(m) => Answered(m)'
  BY <1>1, <1>3, AnsweredStays
<1>10. GroupInv'
  <2>1. Fit \subseteq Names
    BY CommandsAssumption
  <2> SUFFICES ASSUME NEW m \in (groups \intersect Fit) \ Static
               PROVE  \/ handled'[m] = "group"
                      \/ \E g \in Handlers :
                             /\ At(g, "created")' \/ At(g, "listed")'
                             /\ job'[g].name = m
                      \/ trust'[m] = "unsaved"
    BY <1>1 DEF GroupInv, Wired
  <2>2. CASE m = job[h].name
    BY <1>4, <2>2
  <2>3. CASE m # job[h].name
    <3>1. \/ handled[m] = "group"
          \/ \E g \in Handlers : /\ At(g, "created") \/ At(g, "listed")
                                 /\ job[g].name = m
          \/ trust[m] = "unsaved"
      BY <1>2 DEF GroupInv
    <3>2. ASSUME NEW g \in Handlers, At(g, "created") \/ At(g, "listed"),
                 job[g].name = m
          PROVE  (At(g, "created")' \/ At(g, "listed")') /\ job'[g].name = m
      <4>1. job'[g] = job[g]
        BY <1>6, <2>3, <3>2
      <4> QED BY <3>2, <4>1 DEF At
    <3> QED BY <1>1, <1>4, <2>1, <2>3, <3>1, <3>2
  <2> QED BY <2>2, <2>3
<1>11. MenuInv'
  <2>1. dynamic \subseteq Names /\ menu \subseteq Names
    BY DEF TypeOK
  <2>2. \A m \in dynamic' : Answered(m)'
    BY <1>1, <1>2, <1>9, <2>1 DEF MenuInv
  <2>3. \A m \in menu' : Answered(m)'
    BY <1>1, <1>2, <1>9, <2>1 DEF MenuInv
  <2>4. ASSUME NEW g \in Handlers, At(g, "pushing")', NEW m \in job'[g].menu
        PROVE  Answered(m)'
    <3>1. g # h /\ job'[g] = job[g]
      BY <1>6, <1>7, <2>4
    <3>2. At(g, "pushing") /\ m \in job[g].menu
      BY <2>4, <3>1 DEF At
    <3>3. m \in Names
      BY <3>2, JobFields DEF At
    <3> QED BY <1>9, <3>2, <3>3 DEF MenuInv
  <2> QED BY <2>2, <2>3, <2>4 DEF MenuInv
<1>12. TableInv'
  <2>1. \A g \in Handlers, m \in Names : WorksOn(g, m)' <=> WorksOn(g, m)
    BY <1>1, <1>3, MoveOn
  <2>2. \A g \in Handlers : /\ At(g, "created")' <=> At(g, "created")
                            /\ At(g, "deleted")' <=> At(g, "deleted")
    BY <1>1, <1>3, <1>6 DEF At
  <2> QED
    BY <1>1, <1>2, <2>1, <2>2, CommandsAssumption DEF TableInv, Wired
<1>13. ToldInv'
  BY <1>3 DEF ToldInv, Changing, At
<1>14. AloneInv'
  BY <1>6, <1>7 DEF AloneInv
<1> QED BY <1>5, <1>8, <1>10, <1>11, <1>12, <1>13, <1>14

LEMMA ReadKeeps ==
    ASSUME IInv, NEW h \in Handlers, ReadMenu(h)
    PROVE  IInv'
<1> USE DEF IInv
<1> DEFINE others == {g \in Handlers \ {h} : At(g, "pushing")}
           read == [job[h] EXCEPT !.stage = "pushing", !.menu = FullMenu,
                                  !.alone = (others = {})]
<1>1. /\ At(h, "changed") /\ job[h] # NoJob /\ ~At(h, "listed")
      /\ phase' = phase /\ groups' = groups /\ file' = file /\ base' = base
      /\ dynamic' = dynamic /\ handled' = handled /\ menu' = menu
      /\ faults' = faults /\ restarts' = restarts /\ trust' = trust
      /\ told' = told /\ FullMenu' = FullMenu
      /\ job' = [g \in Handlers |->
                     IF g = h THEN read
                     ELSE IF g \in others THEN [job[g] EXCEPT !.alone = FALSE]
                     ELSE job[g]]
  BY DEF ReadMenu, At, FullMenu
<1>2. phase = "up" /\ base = Static /\ Wired
  BY <1>1, AtWork
<1>3. /\ read \in Job /\ read # NoJob
      /\ read.name = job[h].name /\ read.stage = "pushing"
      /\ read.menu = FullMenu /\ read.alone = (others = {})
  <2>1. job[h] \in Job /\ FullMenu \in SUBSET Names
    BY <1>1, JobFields DEF TypeOK, FullMenu
  <2>2. read \in Job
    BY <2>1 DEF Job, Stages
  <2> QED BY <2>1, <2>2, CommandsAssumption DEF Job
<1>4. \A g \in others : /\ [job[g] EXCEPT !.alone = FALSE] \in Job
                        /\ [job[g] EXCEPT !.alone = FALSE] # NoJob
                        /\ [job[g] EXCEPT !.alone = FALSE].name = job[g].name
                        /\ [job[g] EXCEPT !.alone = FALSE].stage = job[g].stage
                        /\ [job[g] EXCEPT !.alone = FALSE].menu = job[g].menu
                        /\ [job[g] EXCEPT !.alone = FALSE].alone = FALSE
  <2> SUFFICES ASSUME NEW g \in others
               PROVE  LET r == [job[g] EXCEPT !.alone = FALSE]
                      IN  /\ r \in Job /\ r # NoJob
                          /\ r.name = job[g].name /\ r.stage = job[g].stage
                          /\ r.menu = job[g].menu /\ r.alone = FALSE
    OBVIOUS
  <2>1. job[g] \in Job
    BY JobFields DEF At
  <2>2. [job[g] EXCEPT !.alone = FALSE] \in Job
    BY <2>1 DEF Job
  <2> QED BY <2>1, <2>2, CommandsAssumption DEF Job
<1>5. /\ job'[h] = read
      /\ \A g \in Handlers : g # h =>
             /\ At(g, "pushing") => /\ job'[g] # NoJob
                                    /\ job'[g].name = job[g].name
                                    /\ job'[g].stage = job[g].stage
                                    /\ job'[g].menu = job[g].menu
                                    /\ job'[g].alone = FALSE
             /\ ~At(g, "pushing") => job'[g] = job[g]
  BY <1>1, <1>4
<1>6. TypeOK'
  <2>1. job' \in [Handlers -> Job \union {NoJob}]
    BY <1>1, <1>3, <1>4 DEF TypeOK
  <2> QED BY <1>1, <2>1 DEF TypeOK
<1>7. \A g \in Handlers, m \in Names : WorksOn(g, m)' <=> WorksOn(g, m)
  <2> TAKE g \in Handlers, m \in Names
  <2>1. CASE g = h
    BY <1>1, <1>3, <1>5, <2>1 DEF WorksOn
  <2>2. CASE g # h /\ At(g, "pushing")
    BY <1>5, <2>2 DEF WorksOn, At
  <2>3. CASE g # h /\ ~At(g, "pushing")
    BY <1>5, <2>3 DEF WorksOn
  <2> QED BY <2>1, <2>2, <2>3
<1>8. \A g \in Handlers : /\ At(g, "created")' <=> At(g, "created")
                          /\ At(g, "deleted")' <=> At(g, "deleted")
                          /\ At(g, "listed")' <=> At(g, "listed")
                          /\ At(g, "pushing")' <=> At(g, "pushing") \/ g = h
                          /\ At(g, "changed")' => At(g, "changed")
  <2> TAKE g \in Handlers
  <2>1. CASE g = h
    BY <1>1, <1>3, <1>5, <2>1 DEF At
  <2>2. CASE g # h /\ At(g, "pushing")
    BY <1>5, <2>2 DEF At
  <2>3. CASE g # h /\ ~At(g, "pushing")
    BY <1>5, <2>3 DEF At
  <2> QED BY <2>1, <2>2, <2>3
<1>9. \A g \in Handlers : At(g, "listed") \/ At(g, "created") => job'[g] = job[g]
  BY <1>1, <1>5 DEF At
<1>10. PhaseInv'
  BY <1>1, <1>2, <1>8, <1>9 DEF PhaseInv
<1>11. GroupInv'
  BY <1>1, <1>2, <1>8, <1>9 DEF GroupInv, Wired
<1>12. \A m : Answered(m) => Answered(m)'
  BY <1>1, <1>8, <1>9 DEF Answered
<1>13. MenuInv'
  <2>1. \A m \in FullMenu : Answered(m)
    BY <1>2, CommandsAssumption DEF PhaseInv, MenuInv, Answered, FullMenu
  <2>2. ASSUME NEW g \in Handlers, At(g, "pushing")', NEW m \in job'[g].menu
        PROVE  Answered(m)
    <3>1. CASE g = h
      BY <1>3, <1>5, <2>1, <2>2, <3>1
    <3>2. CASE g # h
      <4>1. At(g, "pushing") /\ job'[g].menu = job[g].menu
        BY <1>5, <1>8, <2>2, <3>2
      <4> QED BY <2>2, <4>1 DEF MenuInv
    <3> QED BY <3>1, <3>2
  <2>3. \A m \in dynamic : Answered(m)
    BY <1>2 DEF MenuInv
  <2>4. \A m \in menu : Answered(m)
    BY <1>2 DEF MenuInv
  <2> QED BY <1>1, <1>12, <2>2, <2>3, <2>4 DEF MenuInv
<1>14. TableInv'
  BY <1>1, <1>2, <1>7, <1>8, CommandsAssumption DEF TableInv, Wired
<1>15. ToldInv'
  <2>1. At(h, "pushing")'
    BY <1>8
  <2>2. ASSUME NEW g \in Handlers, At(g, "pushing")', job'[g].alone
        PROVE  job'[g].menu = FullMenu
    BY <1>3, <1>5, <1>8, <2>2
  <2> QED BY <1>1, <2>1, <2>2 DEF ToldInv
<1>16. AloneInv'
  <2> SUFFICES ASSUME NEW f \in Handlers, NEW g \in Handlers,
                      At(f, "pushing")', At(g, "pushing")', job'[g].alone
               PROVE  f = g
    BY DEF AloneInv
  <2>1. g = h
    BY <1>5, <1>8
  <2>2. f \notin others
    BY <1>3, <1>5, <2>1
  <2> QED BY <1>8, <2>1, <2>2
<1> QED BY <1>6, <1>10, <1>11, <1>13, <1>14, <1>15, <1>16

-----------------------------------------------------------------------------
(* Commands that end.                                                      *)

\* When a command ends that is done with its name, what the others rely on
\* stays.
LEMMA EndKeeps ==
    ASSUME IInv, NEW h \in Handlers, Done(h),
           \/ At(h, "pushing") /\ menu' \in {menu, job[h].menu}
           \/ /\ At(h, "created") /\ menu' = menu
              /\ job[h].name \in Static,
           told' \in BOOLEAN, faults' \in 0..MaxFaults,
           UNCHANGED <<phase, groups, file, base, dynamic, handled, restarts,
                       trust>>
    PROVE  /\ TypeOK' /\ PhaseInv' /\ GroupInv' /\ MenuInv' /\ TableInv'
           /\ AloneInv'
<1> USE DEF IInv
<1>1. /\ job[h] # NoJob /\ ~At(h, "listed") /\ ~At(h, "deleted")
      /\ At(h, "created") => job[h].name \in Static
      /\ phase' = phase /\ groups' = groups /\ file' = file /\ base' = base
      /\ dynamic' = dynamic /\ handled' = handled /\ restarts' = restarts
      /\ trust' = trust
  BY DEF At
<1>2. phase = "up" /\ base = Static /\ Wired
  BY <1>1, AtWork
<1>3. /\ job' \in [Handlers -> Job \union {NoJob}]
      /\ OthersStay(h) /\ job'[h] = NoJob
  BY DoneStep
<1>4. \A g \in Handlers : g # h => job'[g] = job[g]
  BY <1>3 DEF OthersStay
<1>5. menu' \in SUBSET Names
  BY <1>1, JobFields DEF TypeOK
<1>6. TypeOK'
  BY <1>1, <1>3, <1>5 DEF TypeOK
<1>7. \A g \in Handlers : \A s : At(g, s)' => g # h /\ At(g, s)
  BY <1>3, <1>4 DEF At
<1>8. PhaseInv'
  BY <1>1, <1>2, <1>4, <1>7 DEF PhaseInv
<1>9. GroupInv'
  <2> SUFFICES ASSUME NEW m \in (groups \intersect Fit) \ Static
               PROVE  \/ handled[m] = "group"
                      \/ \E g \in Handlers :
                             /\ At(g, "created")' \/ At(g, "listed")'
                             /\ job'[g].name = m
                      \/ trust[m] = "unsaved"
    BY <1>1 DEF GroupInv, Wired
  <2>1. ASSUME NEW g \in Handlers, At(g, "created") \/ At(g, "listed"),
               job[g].name = m
        PROVE  (At(g, "created")' \/ At(g, "listed")') /\ job'[g].name = m
    <3>1. job'[g] = job[g]
      BY <1>1, <1>4, <2>1
    <3> QED BY <2>1, <3>1 DEF At
  <2>2. \/ handled[m] = "group"
        \/ \E g \in Handlers : /\ At(g, "created") \/ At(g, "listed")
                               /\ job[g].name = m
        \/ trust[m] = "unsaved"
    BY <1>2 DEF GroupInv
  <2> QED BY <2>1, <2>2
<1>10. \A m \in Names : Answered(m) => Answered(m)'
  BY <1>1, <1>3, AnsweredStays
<1>11. MenuInv'
  <2>1. dynamic \subseteq Names /\ menu \subseteq Names
    BY DEF TypeOK
  <2>2. \A m \in dynamic' : Answered(m)'
    BY <1>1, <1>2, <1>10, <2>1 DEF MenuInv
  <2>3. \A m \in menu' : Answered(m)
    BY <1>1, <1>2 DEF MenuInv
  <2>4. \A m \in menu' : Answered(m)'
    BY <1>5, <1>10, <2>3
  <2>5. ASSUME NEW g \in Handlers, At(g, "pushing")', NEW m \in job'[g].menu
        PROVE  Answered(m)'
    <3>1. At(g, "pushing") /\ job'[g] = job[g] /\ m \in job[g].menu
      BY <1>4, <1>7, <2>5
    <3>2. m \in Names
      BY <3>1, JobFields DEF At
    <3> QED BY <1>10, <3>1, <3>2 DEF MenuInv
  <2> QED BY <2>2, <2>4, <2>5 DEF MenuInv
<1>12. TableInv'
  <2>1. \A g \in Handlers, m \in Names : WorksOn(g, m)' => g # h /\ WorksOn(g, m)
    BY <1>3, <1>4 DEF WorksOn
  <2>2. SUFFICES ASSUME NEW m \in Fit \ Static, trust[m] = "clean"
                 PROVE  TableAt(m)'
    BY <1>1 DEF TableInv, TableAt, Wired
  <2>3. TableAt(m) /\ m \in Names
    BY <1>2, <2>2, CommandsAssumption DEF TableInv, TableAt
  <2>4. \A f, g \in Handlers : WorksOn(f, m)' /\ WorksOn(g, m)' => f = g
    BY <2>1, <2>3 DEF TableAt
  <2>5. ASSUME NEW g \in Handlers, WorksOn(g, m)'
        PROVE  /\ At(g, "created")' => m \in groups'
               /\ At(g, "deleted")' => m \notin groups'
    <3>1. job'[g] = job[g] /\ WorksOn(g, m)
      BY <1>4, <2>1, <2>3, <2>5
    <3>2. /\ At(g, "created") => m \in groups
          /\ At(g, "deleted") => m \notin groups
      BY <2>3, <3>1 DEF TableAt
    <3> QED BY <1>1, <3>1, <3>2 DEF At
  <2>6. ASSUME NEW g \in Handlers,
               WorksOn(g, m) /\ (At(g, "created") \/ At(g, "deleted"))
        PROVE  WorksOn(g, m)' /\ (At(g, "created")' \/ At(g, "deleted")')
    <3>1. g # h
      BY <1>1, <2>6 DEF WorksOn
    <3>2. job'[g] = job[g]
      BY <1>4, <3>1
    <3> QED BY <2>6, <3>2 DEF WorksOn, At
  <2>7. \/ \E g \in Handlers :
               WorksOn(g, m)' /\ (At(g, "created")' \/ At(g, "deleted")')
        \/ m \in dynamic' <=> m \in groups'
    BY <1>1, <2>3, <2>6 DEF TableAt
  <2> QED BY <2>4, <2>5, <2>7 DEF TableAt
<1>13. AloneInv'
  BY <1>4, <1>7 DEF AloneInv
<1> QED BY <1>6, <1>8, <1>9, <1>11, <1>12, <1>13

LEMMA RefusedKeeps ==
    ASSUME IInv, NEW h \in Handlers, AddRefused(h)
    PROVE  IInv'
<1>1. /\ At(h, "created") /\ job[h] # NoJob /\ Done(h) /\ menu' = menu
      /\ UNCHANGED <<phase, groups, file, base, dynamic, handled, restarts,
                     trust>>
      /\ told' = told /\ faults' = faults /\ FullMenu' = FullMenu
  BY DEF AddRefused, At, FullMenu
<1>2. job[h].name \in Static
  BY <1>1, AtWork DEF AddRefused
<1>3. /\ TypeOK' /\ PhaseInv' /\ GroupInv' /\ MenuInv' /\ TableInv'
      /\ AloneInv'
  BY <1>1, <1>2, EndKeeps DEF IInv, TypeOK
<1>4. OthersStay(h) /\ job'[h] = NoJob
  BY <1>1, DoneStep DEF IInv
<1>5. ToldInv'
  <2>1. \A g \in Handlers : g # h => job'[g] = job[g]
    BY <1>4 DEF OthersStay
  <2>2. \A g \in Handlers : /\ At(g, "listed")' <=> At(g, "listed")
                            /\ At(g, "changed")' <=> At(g, "changed")
                            /\ At(g, "pushing")' <=> At(g, "pushing")
                            /\ At(g, "pushing")' => job'[g] = job[g]
    BY <1>1, <1>4, <2>1 DEF At
  <2> QED BY <1>1, <2>2 DEF IInv, ToldInv, Changing
<1> QED BY <1>3, <1>5 DEF IInv

LEMMA PushKeeps ==
    ASSUME IInv, NEW h \in Handlers, PushArrives(h) \/ PushFails(h)
    PROVE  IInv'
<1>1. /\ At(h, "pushing") /\ job[h] # NoJob /\ Done(h)
      /\ menu' \in {menu, job[h].menu}
      /\ UNCHANGED <<phase, groups, file, base, dynamic, handled, restarts,
                     trust>>
      /\ FullMenu' = FullMenu
      /\ \/ told' = job[h].alone /\ menu' = job[h].menu
         \/ told' = FALSE
  BY DEF PushArrives, PushFails, At, FullMenu
<1>2. faults' \in 0..MaxFaults
  BY CommandsAssumption DEF PushArrives, PushFails, Fail, IInv, TypeOK
<1>3. told' \in BOOLEAN
  BY <1>1, JobFields DEF IInv
<1>4. /\ TypeOK' /\ PhaseInv' /\ GroupInv' /\ MenuInv' /\ TableInv'
      /\ AloneInv'
  BY <1>1, <1>2, <1>3, EndKeeps
<1>5. OthersStay(h) /\ job'[h] = NoJob
  BY <1>1, DoneStep DEF IInv
<1>6. \A g \in Handlers : g # h => job'[g] = job[g]
  BY <1>5 DEF OthersStay
<1>7. \A g \in Handlers : /\ At(g, "listed")' <=> At(g, "listed")
                          /\ At(g, "changed")' <=> At(g, "changed")
                          /\ At(g, "pushing")' => /\ At(g, "pushing")
                                                 /\ job'[g] = job[g]
  BY <1>1, <1>5, <1>6 DEF At
<1>8. ToldInv'
  <2> SUFFICES ASSUME phase = "up", ~Changing
               PROVE  /\ told' => menu' = FullMenu
                      /\ \A g \in Handlers : At(g, "pushing")' /\ job'[g].alone
                                             => job'[g].menu = FullMenu
    BY <1>1, <1>7 DEF ToldInv, Changing
  <2>1. \A g \in Handlers : At(g, "pushing") /\ job[g].alone
                            => job[g].menu = FullMenu
    BY DEF IInv, ToldInv
  <2>2. told' => menu' = FullMenu
    BY <1>1, <2>1
  <2>3. ASSUME NEW g \in Handlers, At(g, "pushing")', job'[g].alone
        PROVE  job'[g].menu = FullMenu
    BY <1>7, <2>1, <2>3
  <2> QED BY <2>2, <2>3
<1> QED BY <1>4, <1>8 DEF IInv

-----------------------------------------------------------------------------
LEMMA InvNext == IInv /\ [Next]_vars => IInv'
<1> SUFFICES ASSUME IInv, [Next]_vars PROVE IInv'
  OBVIOUS
<1>1. CASE Install \/ Wire \/ InitialPush \/ InitialPushFails \/ Crash
  BY <1>1, SetupKeeps
<1>2. ASSUME NEW h \in Handlers, NEW n \in Names,
             Create(h, n) \/ Delete(h, n) \/ SaveFails(h, n)
      PROVE  IInv'
  BY <1>2, StartKeeps, SaveFailsKeeps
<1>3. ASSUME NEW h \in Handlers,
             \/ AddDynamic(h) \/ AddRefused(h) \/ Handle(h) \/ RemoveDynamic(h)
             \/ ReadMenu(h) \/ PushArrives(h) \/ PushFails(h)
      PROVE  IInv'
  BY <1>3, AddKeeps, RefusedKeeps, HandleKeeps, RemoveKeeps, ReadKeeps, PushKeeps
<1>4. CASE UNCHANGED vars
  BY <1>4
  DEF vars, IInv, TypeOK, PhaseInv, Quiet, GroupInv, MenuInv, Answered,
      TableInv, ToldInv, AloneInv, Wired, Changing, FullMenu, WorksOn, At
<1> QED BY <1>1, <1>2, <1>3, <1>4 DEF Next

LEMMA InvAlways == Spec => []IInv
BY InvInit, InvNext, PTL DEF Spec

\* Types hold for any names, handlers and bounds.
THEOREM TypeCorrect == Spec => []TypeOK
<1>1. IInv => TypeOK
  BY DEF IInv
<1> QED BY <1>1, InvAlways, PTL

\* A group never takes over a plugin's command, and every group with a fit and
\* free name answers to its own: registerGroupCommand and AddDynamic under any
\* number of administrators, and Wire after any restart.
THEOREM CommandsAnsweredAlways == Spec => []CommandsAnswered
<1>1. IInv => CommandsAnswered
  <2> SUFFICES ASSUME IInv, phase = "up" PROVE CommandsAnswered
    BY DEF CommandsAnswered
  <2>1. \A n \in Static : handled[n] = "static"
    BY DEF IInv, PhaseInv
  <2> QED BY <2>1 DEF IInv, GroupInv, Wired, CommandsAnswered, WorksOn, At
<1> QED BY <1>1, InvAlways, PTL

\* No menu that Telegram shows, however old, names a command the bot does not
\* answer: refreshMenu sends nothing but commands that have a handler, which is
\* never taken away.
THEOREM MenuAnsweredAlways == Spec => []MenuAnswered
<1>1. IInv => MenuAnswered
  BY DEF IInv, MenuInv, Answered, MenuAnswered, WorksOn, At
<1> QED BY <1>1, InvAlways, PTL

\* Between commands, the menu, the table of dynamic commands and the groups
\* agree, wherever no race and no failure came between.
THEOREM MenuAgreesAlways == Spec => []MenuAgrees
<1>1. IInv => MenuAgrees
  <2> SUFFICES ASSUME IInv, phase = "up", Quiet
               PROVE  MenuTold /\ TableAgrees
    BY DEF MenuAgrees
  <2>1. MenuTold
    BY DEF IInv, ToldInv, Changing, Quiet, MenuTold, At
  <2>2. TableAgrees
    BY DEF IInv, TableInv, Wired, Quiet, TableAgrees, WorksOn
  <2> QED BY <2>1, <2>2
<1> QED BY <1>1, InvAlways, PTL
=============================================================================
