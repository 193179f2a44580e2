----------------------------- MODULE DomainBook -----------------------------
(***************************************************************************)
(* The Cloudflare record book and the commands that keep it and Cloudflare *)
(* together (internal/cloudflare/store.go, service.go, worker.go, and      *)
(* internal/plugins/cf).                                                   *)
(*                                                                         *)
(* The store's operations hold its mutex and are one action each.  /cf     *)
(* bind, unbind and worker import are jobs of several steps: they look     *)
(* things up, ask Cloudflare, change Cloudflare and write down the result, *)
(* each step on what the ones before it saw.  Handlers run concurrently,   *)
(* and nothing locks a domain from a job's first step to its last.         *)
(*                                                                         *)
(* A domain is a number: NextUnused takes the least.  Cloudflare is one    *)
(* account, which every credential reaches; it changes when asked, and by  *)
(* itself (its dashboard, a request that arrives late).  Saves succeed or  *)
(* fail; a file torn by the end of the process is left out, as are the     *)
(* fields of a record that nothing depends on.                             *)
(***************************************************************************)
EXTENDS Naturals, FiniteSets

CONSTANTS
    Creds, Workers, Domains, Categories,   \* names; "default" is a category
    Handlers,      \* goroutines of command handlers
    MaxCommands,   \* bound: commands that change the store at once
    MaxFaults,     \* bound: failed saves, lost answers, changes from outside
    None           \* nothing: no record, no worker, no category, no job

VARIABLES
    creds, workers, book,   \* the maps in memory
    file,                   \* their copy on disk
    attached,               \* Cloudflare: the worker each domain leads to
    job,                    \* what each handler does
    trust,                  \* history: whether book and Cloudflare should agree
    commands, faults

vars == <<creds, workers, book, file, attached, job, trust, commands, faults>>

Worker == [cred : Creds, category : Categories \union {None}]

Record == [category : Categories, status : {"unused", "used", "banned"},
           worker : Workers \union {None}]

Job == [op : {"bind", "unbind", "import"}, stage : {"found", "chosen", "clear",
            "attached", "missing", "recorded", "deleted"},
        worker : Workers, cred : Creds, category : Categories \union {None},
        domain : Domains \union {None}, force : BOOLEAN, todo : SUBSET Domains]

ASSUME BookAssumption ==
    /\ Domains \subseteq Nat /\ "default" \in Categories
    /\ MaxCommands \in Nat /\ MaxFaults \in Nat
    /\ IsFiniteSet(Handlers)
    /\ None \notin Workers \union Domains \union Worker \union Record \union Job

-----------------------------------------------------------------------------
(* The history.  A job vouches for a domain when it was the only one on it *)
(* from its first look to its last note and nothing else happened to it.   *)

\* The handlers at work on a domain, in a state of the jobs.
On(jobs, d) == {h \in Handlers : jobs[h] # None /\ d \in {jobs[h].domain} \union jobs[h].todo}

\* Something not vouched for happens to the domains in bad; a job ends its work
\* on those in good.
Note(bad, good) ==
    trust' = [d \in Domains |->
        IF \/ Cardinality(On(job', d)) > 1
           \/ On(job', d) # {} /\ (d \in bad \/ trust[d] = "disturbed")
        THEN "disturbed"
        ELSE IF d \in bad \/ trust[d] = "disturbed" THEN "unknown"
        ELSE IF d \in good THEN "agree"
        ELSE trust[d]]

Fault == faults < MaxFaults /\ faults' = faults + 1

-----------------------------------------------------------------------------
(* The store.                                                              *)

SaveOK ==
    /\ file' = [creds |-> creds', workers |-> workers', book |-> book']
    /\ UNCHANGED faults

\* The memory keeps the change.
SaveFails == Fault /\ UNCHANGED file

Save == SaveOK \/ SaveFails

\* Mutant: the workers are not looked at.
CredAnywhere(c) == TRUE

CredUnused(c) == \A w \in Workers : workers[w] # None => workers[w].cred # c

\* The file has credentials and workers, and no domain yet.
Init ==
    /\ creds \in SUBSET Creds
    /\ workers \in [Workers -> Worker \union {None}]
    /\ \A c \in Creds \ creds : CredUnused(c)
    /\ book = [d \in Domains |-> None]
    /\ file = [creds |-> creds, workers |-> workers, book |-> book]
    /\ attached \in [Domains -> Workers \union {None}]
    /\ job = [h \in Handlers |-> None]
    /\ trust = [d \in Domains |-> IF attached[d] = None THEN "agree" ELSE "unknown"]
    /\ commands = 0 /\ faults = 0

\* A command that is one operation of the store.
Command(bad) ==
    /\ commands < MaxCommands /\ commands' = commands + 1
    /\ Save
    /\ UNCHANGED <<attached, job>>
    /\ Note(bad, {})

AddCred(c) ==
    /\ c \notin creds
    /\ creds' = creds \union {c}
    /\ UNCHANGED <<workers, book>>
    /\ Command({})

DelCred(c) ==
    /\ c \in creds /\ CredUnused(c)
    /\ creds' = creds \ {c}
    /\ UNCHANGED <<workers, book>>
    /\ Command({})

AddWorker(w, c, k) ==
    /\ c \in creds /\ workers[w] = None
    /\ workers' = [workers EXCEPT ![w] = [cred |-> c, category |-> k]]
    /\ UNCHANGED <<creds, book>>
    /\ Command({})

\* MutateWorker, from /cf worker cat.
SetWorkerCategory(w, k) ==
    /\ workers[w] # None
    /\ workers' = [workers EXCEPT ![w].category = k]
    /\ UNCHANGED <<creds, book>>
    /\ Command({})

DelWorker(w) ==
    /\ workers[w] # None
    /\ workers' = [workers EXCEPT ![w] = None]
    /\ UNCHANGED <<creds, book>>
    /\ Command({})

\* Mutant: the status is left at its zero value.
NoStatus(k) == [category |-> k, status |-> "", worker |-> None]

Unused(k) == [category |-> k, status |-> "unused", worker |-> None]

AddDomain(d, k) ==
    /\ book[d] = None
    /\ book' = [book EXCEPT ![d] = Unused(k)]
    /\ UNCHANGED <<creds, workers>>
    /\ Command({})

DelDomain(d) ==
    /\ book[d] # None
    /\ book' = [book EXCEPT ![d] = None]
    /\ UNCHANGED <<creds, workers>>
    /\ Command({d})

\* Mutant: the worker stays in the record.
StatusOnly(r, s) == [r EXCEPT !.status = s]

WithStatus(r, s) ==
    [r EXCEPT !.status = s, !.worker = IF s = "unused" THEN None ELSE @]

\* SetDomainField, from /cf domain status and set.
SetDomainStatus(d, s) ==
    /\ book[d] # None
    /\ book' = [book EXCEPT ![d] = WithStatus(@, s)]
    /\ UNCHANGED <<creds, workers>>
    /\ Command({d})

SetDomainCategory(d, k) ==
    /\ book[d] # None
    /\ book' = [book EXCEPT ![d].category = k]
    /\ UNCHANGED <<creds, workers>>
    /\ Command({})

-----------------------------------------------------------------------------
(* The steps of a job.                                                     *)

store == <<creds, workers, book, file>>

At(h, ops, stage) == job[h] # None /\ job[h].op \in ops /\ job[h].stage = stage

Go(h, stage) == job' = [job EXCEPT ![h].stage = stage]

Start(h, j) ==
    /\ job[h] = None
    /\ job' = [job EXCEPT ![h] = j]
    /\ UNCHANGED <<store, attached, commands, faults>>
    /\ Note({}, {})

\* An import goes on with its next domain.
Finish(h) ==
    \/ /\ job[h].todo = {}
       /\ job' = [job EXCEPT ![h] = None]
    \/ \E d \in job[h].todo :
           job' = [job EXCEPT ![h].stage = "attached", ![h].domain = d,
                              ![h].todo = @ \ {d}]

\* The command fails; neither the book nor Cloudflare has changed.
Fail(h) ==
    /\ job[h] # None /\ job[h].stage \in {"found", "chosen", "clear"}
    /\ job' = [job EXCEPT ![h] = None]
    /\ UNCHANGED <<store, attached, commands, faults>>
    /\ Note({}, {})

\* BindDomain, with a domain or without.
Bind(h, w, d, force) ==
    /\ workers[w] # None
    /\ Start(h, [op |-> "bind", stage |-> "found", worker |-> w,
                 cred |-> workers[w].cred, category |-> workers[w].category,
                 domain |-> d, force |-> force, todo |-> {}])

UnusedIn(k) ==
    {d \in Domains : book[d] # None /\ book[d].category = k /\ book[d].status = "unused"}

\* NextUnused, and GetCred.
Choose(h) ==
    /\ At(h, {"bind"}, "found")
    /\ job[h].cred \in creds
    /\ \E d \in Domains :
           /\ \/ d = job[h].domain
              \/ /\ job[h].domain = None
                 /\ d \in UnusedIn(job[h].category)
                 /\ \A e \in UnusedIn(job[h].category) : d <= e
           /\ job' = [job EXCEPT ![h].stage = "chosen", ![h].domain = d]
    /\ UNCHANGED <<store, attached, commands, faults>>
    /\ Note({}, {})

\* Mutant: a conflict is an error only when force is set.
FreeSwapped(h) ==
    job[h].force => attached[job[h].domain] \in {None, job[h].worker}

FreeFor(h) ==
    attached[job[h].domain] \in {None, job[h].worker} \/ job[h].force

\* ListWorkerDomainsByHostname, without a conflict.
CheckConflict(h) ==
    /\ At(h, {"bind"}, "chosen")
    /\ FreeFor(h)
    /\ Go(h, "clear")
    /\ UNCHANGED <<store, attached, commands, faults>>
    /\ Note({}, {})

\* ResolveZoneID and AttachWorkerDomain.
Attach(h) ==
    /\ At(h, {"bind"}, "clear")
    /\ attached' = [attached EXCEPT ![job[h].domain] = job[h].worker]
    /\ Go(h, "attached")
    /\ UNCHANGED <<store, commands, faults>>
    /\ Note({}, {})

\* Cloudflare attaches or detaches, and its answer is lost.
AnswerLost(h) ==
    /\ \/ /\ At(h, {"bind"}, "clear")
          /\ attached' = [attached EXCEPT ![job[h].domain] = job[h].worker]
       \/ /\ At(h, {"unbind"}, "clear")
          /\ attached' = [attached EXCEPT ![job[h].domain] = None]
    /\ Fault
    /\ job' = [job EXCEPT ![h] = None]
    /\ UNCHANGED <<store, commands>>
    /\ Note({job[h].domain}, {})

\* GetDomain.
Look(h) ==
    /\ At(h, {"bind", "import"}, "attached")
    /\ Go(h, IF book[job[h].domain] = None THEN "missing" ELSE "recorded")
    /\ UNCHANGED <<store, attached, commands, faults>>
    /\ Note({}, {})

\* AddDomain.  An import leaves a domain out when this fails, be it because the
\* domain has been added meanwhile or because it could not be saved.
AddMissing(h) ==
    LET d == job[h].domain
        k == IF job[h].category = None THEN "default" ELSE job[h].category
        added == book[d] = None
    IN  /\ At(h, {"bind", "import"}, "missing")
        /\ book' = IF added THEN [book EXCEPT ![d] = Unused(k)] ELSE book
        /\ UNCHANGED <<creds, workers, attached, commands>>
        /\ \/ added /\ SaveOK /\ Go(h, "recorded")
           \/ added /\ SaveFails /\ (IF job[h].op = "bind" THEN Go(h, "recorded") ELSE Finish(h))
           \/ ~added /\ UNCHANGED <<file, faults>>
              /\ (IF job[h].op = "bind" THEN Go(h, "recorded") ELSE Finish(h))
        /\ Note({}, {})

\* Mutant: the record keeps the worker it has.
MarkKeeps(r, w) == [r EXCEPT !.status = "used", !.worker = IF @ = None THEN w ELSE @]

Marked(r, w) == [r EXCEPT !.status = "used", !.worker = w]

\* MutateDomain; the answer is the same when it fails.
MarkUsed(h) ==
    LET d == job[h].domain
    IN  /\ At(h, {"bind", "import"}, "recorded")
        /\ UNCHANGED <<creds, workers, attached, commands>>
        /\ \/ /\ book[d] # None
              /\ book' = [book EXCEPT ![d] = Marked(@, job[h].worker)]
              /\ Save
           \/ book[d] = None /\ UNCHANGED <<book, file, faults>>
        /\ Finish(h)
        /\ Note({}, {d})

\* UnbindDomain's lookups: the domain, its worker, the worker's credential.
Unbind(h, d) ==
    /\ book[d] # None /\ book[d].worker # None
    /\ workers[book[d].worker] # None
    /\ workers[book[d].worker].cred \in creds
    /\ Start(h, [op |-> "unbind", stage |-> "chosen", worker |-> book[d].worker,
                 cred |-> workers[book[d].worker].cred, category |-> None,
                 domain |-> d, force |-> FALSE, todo |-> {}])

\* ListWorkerDomainsByHostname; the command fails when there is nothing to detach.
FindAttachment(h) ==
    /\ At(h, {"unbind"}, "chosen")
    /\ attached[job[h].domain] # None
    /\ Go(h, "clear")
    /\ UNCHANGED <<store, attached, commands, faults>>
    /\ Note({}, {})

\* DeleteWorkerDomain, an error when the attachment is gone.
Detach(h) ==
    /\ At(h, {"unbind"}, "clear")
    /\ attached[job[h].domain] # None
    /\ attached' = [attached EXCEPT ![job[h].domain] = None]
    /\ Go(h, "deleted")
    /\ UNCHANGED <<store, commands, faults>>
    /\ Note({}, {})

MarkUnused(h) ==
    LET d == job[h].domain
    IN  /\ At(h, {"unbind"}, "deleted")
        /\ UNCHANGED <<creds, workers, attached, commands>>
        /\ \/ /\ book[d] # None
              /\ book' = [book EXCEPT ![d] = WithStatus(@, "unused")]
              /\ Save
           \/ book[d] = None /\ UNCHANGED <<book, file, faults>>
        /\ Finish(h)
        /\ Note({}, {d})

\* ImportWorkerDomains.
Import(h, w) ==
    /\ workers[w] # None
    /\ Start(h, [op |-> "import", stage |-> "found", worker |-> w,
                 cred |-> workers[w].cred, category |-> workers[w].category,
                 domain |-> None, force |-> FALSE, todo |-> {}])

\* WorkerBoundDomains, which looks the worker up again.  The command is over
\* when the worker has no domain (Fail, although it is no error then).
ListBound(h) ==
    LET bound == {d \in Domains : attached[d] = job[h].worker}
        w == workers[job[h].worker]
    IN  /\ At(h, {"import"}, "found")
        /\ w # None /\ w.cred \in creds
        /\ \E d \in bound :
               job' = [job EXCEPT ![h].stage = "attached", ![h].domain = d,
                                  ![h].todo = bound \ {d}]
        /\ UNCHANGED <<store, attached, commands, faults>>
        /\ Note({}, {})

-----------------------------------------------------------------------------
\* Someone else changes Cloudflare.
Outside(d, w) ==
    /\ attached[d] # w
    /\ attached' = [attached EXCEPT ![d] = w]
    /\ Fault
    /\ UNCHANGED <<store, job, commands>>
    /\ Note({d}, {})

\* The process ends, and Init loads the file.
Restart ==
    /\ creds' = file.creds /\ workers' = file.workers /\ book' = file.book
    /\ job' = [h \in Handlers |-> None]
    /\ UNCHANGED <<file, attached, commands, faults>>
    /\ Note({d \in Domains : file.book[d] # book[d] \/ On(job, d) # {}}, {})

StoreCommand ==
    \/ \E c \in Creds : AddCred(c) \/ DelCred(c)
    \/ \E w \in Workers :
           \/ \E k \in Categories \union {None}, c \in Creds : AddWorker(w, c, k)
           \/ \E k \in Categories : SetWorkerCategory(w, k)
           \/ DelWorker(w)
    \/ \E d \in Domains :
           \/ DelDomain(d)
           \/ \E k \in Categories : AddDomain(d, k) \/ SetDomainCategory(d, k)
           \/ \E s \in {"unused", "used", "banned"} : SetDomainStatus(d, s)

Begin(h) ==
    \/ \E w \in Workers :
           \/ \E d \in Domains \union {None}, force \in BOOLEAN : Bind(h, w, d, force)
           \/ Import(h, w)
    \/ \E d \in Domains : Unbind(h, d)

Continue(h) ==
    \/ Choose(h) \/ CheckConflict(h) \/ Attach(h) \/ AnswerLost(h) \/ Fail(h)
    \/ Look(h) \/ AddMissing(h) \/ MarkUsed(h)
    \/ FindAttachment(h) \/ Detach(h) \/ MarkUnused(h)
    \/ ListBound(h)

Next ==
    \/ StoreCommand
    \/ \E h \in Handlers : Begin(h) \/ Continue(h)
    \/ \E d \in Domains, w \in Workers \union {None} : Outside(d, w)
    \/ Restart

Spec == Init /\ [][Next]_vars

-----------------------------------------------------------------------------
(* Properties.                                                             *)

\* Every variable holds a value of its kind.
TypeOK ==
    /\ creds \subseteq Creds
    /\ workers \in [Workers -> Worker \union {None}]
    /\ book \in [Domains -> Record \union {None}]
    /\ file \in [creds : SUBSET Creds, workers : [Workers -> Worker \union {None}],
                 book : [Domains -> Record \union {None}]]
    /\ attached \in [Domains -> Workers \union {None}]
    /\ job \in [Handlers -> Job \union {None}]
    /\ trust \in [Domains -> {"agree", "unknown", "disturbed"}]
    /\ commands \in 0..MaxCommands /\ faults \in 0..MaxFaults

\* Bind, unbind and import find a registered worker's credential.
CredsReferenced ==
    \A w \in Workers :
        /\ workers[w] # None => workers[w].cred \in creds
        /\ file.workers[w] # None => file.workers[w].cred \in file.creds

\* A record that says "unused", from which the next bind may take its domain,
\* names no worker.
UnusedHasNoWorker ==
    \A d \in Domains : book[d] # None /\ book[d].status = "unused" => book[d].worker = None

\* No mixture of commands, jobs, failed saves and restarts leaves a worker
\* without its credential, or a worker in a record that says "unused".
StoreConsistent == CredsReferenced /\ UnusedHasNoWorker

\* When one bind, unbind or import was alone on a domain, and all since were,
\* the book names the worker that Cloudflare sends the domain to: failing jobs
\* leave no trace, and those that succeed write down what they did.
BookAgrees ==
    \A d \in Domains : trust[d] = "agree" /\ On(job, d) = {} =>
        attached[d] = IF book[d] = None THEN None ELSE book[d].worker

\* A bind "refuses to re-point a hostname bound to another worker unless force
\* is set", as long as no other job is on the hostname and nothing else happens
\* to it from the moment the bind takes it up.
RepointNeedsForce ==
    [][\A h \in Handlers : Attach(h) \/ (AnswerLost(h) /\ job[h].op = "bind") =>
           \/ attached[job[h].domain] \in {None, job[h].worker}
           \/ job[h].force
           \/ trust[job[h].domain] = "disturbed"]_vars

=============================================================================
