-------------------------- MODULE DynamicCommands --------------------------
(***************************************************************************)
(* The commands that come and go with the playground's groups, and the     *)
(* command menu at Telegram (pkg/plugin/dynamic.go, Setup in app.go, /pg   *)
(* new and /pg del in internal/plugins/playground).                        *)
(*                                                                         *)
(* A group whose name is fit for a command has a command of its own.  To   *)
(* create one is to put the group into the store, its entry into the table *)
(* of dynamic commands, its handler into the bot, and to push the whole    *)
(* menu to Telegram; to delete one undoes all but the handler.  Each of    *)
(* these has its own lock or none, so that commands of several             *)
(* administrators interleave, and pushes overtake each other.              *)
(*                                                                         *)
(* Telegram is external: a push arrives, or fails, or arrives without the  *)
(* bot learning of it.  One that arrives after its process has died and    *)
(* another has started is left out.  What else the store of groups does is *)
(* in Playground; its lock is held for each of its operations.             *)
(***************************************************************************)
EXTENDS Naturals

CONSTANTS
    Names,        \* names of groups and commands
    Static,       \* the commands of the plugins
    Fit,          \* names that cmdNameRe accepts
    Handlers,     \* goroutines that run /pg commands
    MaxFaults,    \* bound: saves and pushes that fail
    MaxRestarts,  \* bound: restarts of the process
    NoJob         \* a handler that runs no command

Stages == {"created", "deleted", "listed", "changed", "pushing"}

\* A command in progress: the group, what comes next, and for a push the menu
\* it carries and whether no other push was on its way at the same time.
Job == [name : Names, stage : Stages, menu : SUBSET Names, alone : BOOLEAN]

ASSUME CommandsAssumption ==
    /\ Static \subseteq Fit /\ Fit \subseteq Names
    /\ MaxFaults \in Nat /\ MaxRestarts \in Nat
    /\ NoJob \notin Job

VARIABLES
    phase,     \* how far Setup has come
    groups,    \* the groups in memory
    file,      \* the groups in the file
    base,      \* baseMenu
    dynamic,   \* the table of dynamic commands
    handled,   \* what the bot runs for a command
    menu,      \* the menu at Telegram
    job,       \* what the handlers do
    faults,    \* saves and pushes that have failed
    restarts,  \* times the process has died
    trust,     \* how the last commands about a name went
    told       \* the last push that arrived was the only one on its way

vars == <<phase, groups, file, base, dynamic, handled, menu, job, faults,
          restarts, trust, told>>

-----------------------------------------------------------------------------
Nothing == [n \in Names |-> "none"]

NoJobs == [h \in Handlers |-> NoJob]

Fail == faults < MaxFaults /\ faults' = faults + 1

\* fullMenu.
FullMenu == base \union dynamic

WorksOn(h, n) == job[h] # NoJob /\ job[h].name = n

At(h, stage) == job[h] # NoJob /\ job[h].stage = stage

Go(h, stage) == job' = [job EXCEPT ![h].stage = stage]

Done(h) == job' = [job EXCEPT ![h] = NoJob]

Init ==
    /\ phase = "down"
    /\ groups = {} /\ file = {}
    /\ base = {} /\ dynamic = {}
    /\ handled = Nothing
    /\ menu = {}
    /\ job = NoJobs
    /\ faults = 0 /\ restarts = 0
    /\ trust = [n \in Names |-> "clean"]
    /\ told = FALSE

-----------------------------------------------------------------------------
(* Setup.  Handlers run only when it is over.                              *)

\* The groups are loaded, the plugins' commands mounted, their menu frozen.
Install ==
    /\ phase = "down"
    /\ phase' = "installed"
    /\ groups' = file
    /\ handled' = [n \in Names |-> IF n \in Static THEN "static" ELSE "none"]
    /\ base' = Static
    /\ trust' = [n \in Names |-> "clean"]
    /\ UNCHANGED <<file, dynamic, menu, job, faults, restarts, told>>

\* Wire: registerGroupCommand for each group.  AddDynamic pushes nothing yet.
Wire ==
    LET added == (groups \intersect Fit) \ base
    IN  /\ phase = "installed"
        /\ phase' = "wired"
        /\ dynamic' = dynamic \union added
        /\ handled' = [n \in Names |-> IF n \in added THEN "group"
                                                      ELSE handled[n]]
        /\ UNCHANGED <<groups, file, base, menu, job, faults, restarts,
                       trust, told>>

InitialPush ==
    /\ phase = "wired"
    /\ phase' = "up"
    /\ menu' = FullMenu
    /\ told' = TRUE
    /\ UNCHANGED <<groups, file, base, dynamic, handled, job, faults,
                   restarts, trust>>

\* The process exits: what is in memory is gone.
Exit ==
    /\ phase' = "down"
    /\ groups' = {}
    /\ base' = {} /\ dynamic' = {}
    /\ handled' = Nothing
    /\ job' = NoJobs
    /\ UNCHANGED <<file, trust, told>>

\* Setup returns the error, and with it Run.
InitialPushFails ==
    /\ phase = "wired"
    /\ Fail
    /\ menu' \in {menu, FullMenu}
    /\ Exit
    /\ UNCHANGED restarts

\* A push on its way arrives, or it does not.
Crash ==
    /\ phase # "down"
    /\ restarts < MaxRestarts
    /\ restarts' = restarts + 1
    /\ menu' \in {menu} \union {job[h].menu : h \in {g \in Handlers : At(g, "pushing")}}
    /\ Exit
    /\ UNCHANGED faults

-----------------------------------------------------------------------------
(* /pg new and /pg del: the store of groups.                               *)

Started(n, stage) ==
    [name |-> n, stage |-> stage, menu |-> {}, alone |-> FALSE]

\* What to think of name n, once handler h begins to change its group.
Begun(h, n) ==
    trust' = [trust EXCEPT ![n] =
                 IF \E g \in Handlers \ {h} : WorksOn(g, n) THEN "raced"
                                                            ELSE "clean"]

Free(h) == phase = "up" /\ job[h] = NoJob

\* A name that is unfit for a command gets none.
Create(h, n) ==
    /\ Free(h)
    /\ n \notin groups
    /\ groups' = groups \union {n}
    /\ file' = groups'
    /\ job' = IF n \in Fit THEN [job EXCEPT ![h] = Started(n, "created")]
                           ELSE job
    /\ Begun(h, n)
    /\ UNCHANGED <<phase, base, dynamic, handled, menu, faults, restarts, told>>

Delete(h, n) ==
    /\ Free(h)
    /\ n \in groups
    /\ groups' = groups \ {n}
    /\ file' = groups'
    /\ job' = [job EXCEPT ![h] = Started(n, "deleted")]
    /\ Begun(h, n)
    /\ UNCHANGED <<phase, base, dynamic, handled, menu, faults, restarts, told>>

\* The save fails after the memory has changed, and the command ends there.
SaveFails(h, n) ==
    /\ Free(h)
    /\ Fail
    /\ groups' = IF n \in groups THEN groups \ {n} ELSE groups \union {n}
    /\ trust' = [trust EXCEPT ![n] = "unsaved"]
    /\ UNCHANGED <<phase, file, base, dynamic, handled, menu, job, restarts, told>>

-----------------------------------------------------------------------------
(* AddDynamic and RemoveDynamic.                                           *)

\* Mutant: the plugins' commands are not looked at.
AddUnchecked(h) ==
    /\ At(h, "created")
    /\ dynamic' = dynamic \union {job[h].name}
    /\ Go(h, "listed")
    /\ UNCHANGED <<phase, groups, file, base, handled, menu, faults, restarts,
                   trust, told>>

AddDynamic(h) ==
    /\ At(h, "created")
    /\ job[h].name \notin base
    /\ dynamic' = dynamic \union {job[h].name}
    /\ Go(h, "listed")
    /\ UNCHANGED <<phase, groups, file, base, handled, menu, faults, restarts,
                   trust, told>>

\* The name of a plugin's command is refused, which is only logged.
AddRefused(h) ==
    /\ At(h, "created")
    /\ job[h].name \in base
    /\ Done(h)
    /\ UNCHANGED <<phase, groups, file, base, dynamic, handled, menu, faults,
                   restarts, trust, told>>

\* Mutant: a name that had a handler once gets no new one, or none at all.
HandleSkipped(h) ==
    /\ At(h, "listed")
    /\ Go(h, "changed")
    /\ UNCHANGED <<phase, groups, file, base, dynamic, handled, menu, faults,
                   restarts, trust, told>>

\* b.Handle, outside of the lock.
Handle(h) ==
    /\ At(h, "listed")
    /\ handled' = [handled EXCEPT ![job[h].name] = "group"]
    /\ Go(h, "changed")
    /\ UNCHANGED <<phase, groups, file, base, dynamic, menu, faults, restarts,
                   trust, told>>

\* Mutant: the menu to push is read before the command is dropped.
RemoveAfterRead(h) ==
    /\ At(h, "deleted")
    /\ dynamic' = dynamic \ {job[h].name}
    /\ job' = [job EXCEPT ![h].stage = "pushing", ![h].menu = FullMenu,
                          ![h].alone = \A g \in Handlers : ~At(g, "pushing")]
    /\ UNCHANGED <<phase, groups, file, base, handled, menu, faults, restarts,
                   trust, told>>

RemoveDynamic(h) ==
    /\ At(h, "deleted")
    /\ dynamic' = dynamic \ {job[h].name}
    /\ Go(h, "changed")
    /\ UNCHANGED <<phase, groups, file, base, handled, menu, faults, restarts,
                   trust, told>>

-----------------------------------------------------------------------------
(* refreshMenu: the menu is read under the lock and pushed outside of it.  *)

ReadMenu(h) ==
    LET others == {g \in Handlers \ {h} : At(g, "pushing")}
    IN  /\ At(h, "changed")
        /\ job' = [g \in Handlers |->
                      IF g = h
                      THEN [job[h] EXCEPT !.stage = "pushing",
                                          !.menu = FullMenu,
                                          !.alone = (others = {})]
                      ELSE IF g \in others
                      THEN [job[g] EXCEPT !.alone = FALSE]
                      ELSE job[g]]
        /\ UNCHANGED <<phase, groups, file, base, dynamic, handled, menu,
                       faults, restarts, trust, told>>

PushArrives(h) ==
    /\ At(h, "pushing")
    /\ menu' = job[h].menu
    /\ told' = job[h].alone
    /\ Done(h)
    /\ UNCHANGED <<phase, groups, file, base, dynamic, handled, faults,
                   restarts, trust>>

\* The failure is only logged.
PushFails(h) ==
    /\ At(h, "pushing")
    /\ Fail
    /\ menu' \in {menu, job[h].menu}
    /\ told' = FALSE
    /\ Done(h)
    /\ UNCHANGED <<phase, groups, file, base, dynamic, handled, restarts, trust>>

Next ==
    \/ Install \/ Wire \/ InitialPush \/ InitialPushFails \/ Crash
    \/ \E h \in Handlers :
           \/ \E n \in Names : Create(h, n) \/ Delete(h, n) \/ SaveFails(h, n)
           \/ AddDynamic(h) \/ AddRefused(h) \/ Handle(h) \/ RemoveDynamic(h)
           \/ ReadMenu(h) \/ PushArrives(h) \/ PushFails(h)

Spec == Init /\ [][Next]_vars

-----------------------------------------------------------------------------
(* Properties.                                                             *)

\* Every variable holds a value of its kind.
TypeOK ==
    /\ phase \in {"down", "installed", "wired", "up"}
    /\ {groups, file, base, dynamic, menu} \subseteq SUBSET Names
    /\ handled \in [Names -> {"none", "static", "group"}]
    /\ job \in [Handlers -> Job \union {NoJob}]
    /\ faults \in 0..MaxFaults
    /\ restarts \in 0..MaxRestarts
    /\ trust \in [Names -> {"clean", "raced", "unsaved"}]
    /\ told \in BOOLEAN

\* However groups are created and deleted, and whatever failed: a group never
\* takes over the command of a plugin, and every group whose name is fit and
\* free answers to it, unless it is just being created or its creation was
\* answered with an error.
CommandsAnswered ==
    phase = "up" =>
        /\ \A n \in Static : handled[n] = "static"
        /\ \A n \in (groups \intersect Fit) \ Static :
               \/ handled[n] = "group"
               \/ \E h \in Handlers : /\ WorksOn(h, n)
                                      /\ job[h].stage \in {"created", "listed"}
               \/ trust[n] = "unsaved"

\* Whatever old or overtaken menu Telegram shows, every command in it has a
\* handler, or is getting it at this moment.
MenuAnswered ==
    phase = "up" =>
        \A n \in menu :
            \/ handled[n] # "none"
            \/ \E h \in Handlers : WorksOn(h, n) /\ job[h].stage = "listed"

Quiet == \A h \in Handlers : job[h] = NoJob

\* When nothing is in progress and the last push arrived without another on
\* its way, Telegram shows the plugins' commands and the dynamic ones.
MenuTold == told => menu = FullMenu

\* The dynamic commands are the groups with a fit and free name, but for names
\* whose last commands overlapped or failed to save.
TableAgrees ==
    \A n \in Fit \ Static : trust[n] = "clean" => (n \in dynamic <=> n \in groups)

\* When nothing is in progress, the menu at Telegram has become the commands
\* there are, as far as no race or failure spoiled it.
MenuAgrees == phase = "up" /\ Quiet => MenuTold /\ TableAgrees
=============================================================================
