-------------------------- MODULE DomainBookProofs --------------------------
(***************************************************************************)
(* What holds of the domain book for any number of credentials, workers,   *)
(* domains, handlers, commands and faults.                                 *)
(*                                                                         *)
(* The memory is what the next save writes and the file what the next      *)
(* start reads, so that the invariant says of both what the property says  *)
(* of the memory.  Jobs write records too, on what they saw some steps     *)
(* before, so that it says what a job carries.                             *)
(*                                                                         *)
(* That the book agrees with Cloudflare rests on what the one job on a     *)
(* domain has seen and done so far, as long as the domain is not           *)
(* disturbed; each step has to keep that of its own domain and to spare    *)
(* the others.                                                             *)
(***************************************************************************)
EXTENDS DomainBook, FiniteSetTheorems, TLAPS

Content == [creds : SUBSET Creds, workers : [Workers -> Worker \union {None}],
            book : [Domains -> Record \union {None}]]

\* The memory, as a file would hold it.
memory == [creds |-> creds, workers |-> workers, book |-> book]

KindInv == memory \in Content /\ file \in Content /\ job \in [Handlers -> Job \union {None}]

\* StoreConsistent of the memory or the file.
Consistent(s) ==
    /\ \A w \in Workers : s.workers[w] # None => s.workers[w].cred \in s.creds
    /\ \A d \in Domains :
           s.book[d] # None /\ s.book[d].status = "unused" => s.book[d].worker = None

IInv == KindInv /\ Consistent(memory) /\ Consistent(file)

Stages == {"found", "chosen", "clear", "attached", "missing", "recorded", "deleted"}

LEMMA InvInit == Init => IInv
<1> SUFFICES ASSUME Init PROVE IInv
  OBVIOUS
<1>1. memory \in Content /\ file = memory
  BY DEF Init, memory, Content
<1>2. job \in [Handlers -> Job \union {None}]
  BY DEF Init
<1>3. ASSUME NEW w \in Workers, workers[w] # None PROVE workers[w].cred \in creds
  <2>1. workers[w].cred \in Creds
    BY <1>3 DEF Init, Worker
  <2>2. ASSUME workers[w].cred \in Creds \ creds PROVE FALSE
    <3>1. CredUnused(workers[w].cred)
      BY <2>2 DEF Init
    <3> QED
      BY <1>3, <3>1 DEF CredUnused
  <2> QED
    BY <2>1, <2>2
<1>4. Consistent(memory)
  BY <1>3 DEF Init, Consistent, memory
<1>5. Consistent(file)
  BY <1>1, <1>4
<1> QED
  BY <1>1, <1>2, <1>4, <1>5 DEF IInv, KindInv

-----------------------------------------------------------------------------
(* Parts of the actions.                                                   *)

\* A save keeps what the change kept, be it written or not.
LEMMA SaveKeeps ==
    ASSUME IInv, Save \/ UNCHANGED file, memory' \in Content, Consistent(memory)',
           job' \in [Handlers -> Job \union {None}]
    PROVE  IInv'
<1>1. file' \in {file, memory'}
  BY DEF Save, SaveOK, SaveFails, memory
<1>2. CASE file' = file
  BY <1>2 DEF IInv, KindInv, Consistent
<1>3. CASE file' = memory'
  BY <1>3 DEF IInv, KindInv, Consistent
<1> QED
  BY <1>1, <1>2, <1>3

\* A step that leaves the store alone.
LEMMA StoreUntouched ==
    ASSUME IInv, UNCHANGED store, job' \in [Handlers -> Job \union {None}]
    PROVE  IInv'
BY DEF store, IInv, KindInv, Consistent, memory

\* A change of one record.
LEMMA RecordKeeps ==
    ASSUME IInv, NEW d, UNCHANGED <<creds, workers>>, Save \/ UNCHANGED file,
           NEW r \in Record \union {None}, book' = [book EXCEPT ![d] = r],
           r # None /\ r.status = "unused" => r.worker = None,
           job' \in [Handlers -> Job \union {None}]
    PROVE  IInv'
<1>1. book \in [Domains -> Record \union {None}]
  BY DEF IInv, KindInv, Content, memory
<1>2. memory' \in Content
  BY <1>1 DEF IInv, KindInv, Content, memory
<1>3. Consistent(memory)'
  BY <1>1 DEF IInv, Consistent, memory
<1> QED
  BY <1>2, <1>3, SaveKeeps

\* A change of one worker.
LEMMA WorkerKeeps ==
    ASSUME IInv, NEW w, UNCHANGED <<creds, book, job>>, Save,
           NEW r \in Worker \union {None}, workers' = [workers EXCEPT ![w] = r],
           r # None => r.cred \in creds
    PROVE  IInv'
<1>1. workers \in [Workers -> Worker \union {None}]
  BY DEF IInv, KindInv, Content, memory
<1>2. memory' \in Content
  BY <1>1 DEF IInv, KindInv, Content, memory
<1>3. Consistent(memory)'
  BY <1>1 DEF IInv, Consistent, memory
<1> QED
  BY <1>2, <1>3, SaveKeeps DEF IInv, KindInv

\* A job goes on.
LEMMA GoKind ==
    ASSUME job \in [Handlers -> Job \union {None}], NEW h \in Handlers,
           job[h] # None, NEW s \in Stages, Go(h, s)
    PROVE  job' \in [Handlers -> Job \union {None}]
<1>1. job[h] \in Job
  OBVIOUS
<1>2. [job[h] EXCEPT !.stage = s] \in Job
  BY <1>1 DEF Job, Stages
<1> QED
  BY <1>2 DEF Go

\* A job goes on with a domain.
LEMMA DomainKind ==
    ASSUME job \in [Handlers -> Job \union {None}], NEW h \in Handlers,
           job[h] # None, NEW s \in Stages, NEW d \in Domains, NEW t \in SUBSET Domains
    PROVE  [job EXCEPT ![h].stage = s, ![h].domain = d, ![h].todo = t]
               \in [Handlers -> Job \union {None}]
<1>1. job[h] \in Job
  OBVIOUS
<1>2. [job[h] EXCEPT !.stage = s, !.domain = d, !.todo = t] \in Job
  BY <1>1 DEF Job, Stages
<1> QED
  BY <1>2

LEMMA FinishKind ==
    ASSUME job \in [Handlers -> Job \union {None}], NEW h \in Handlers,
           job[h] # None, Finish(h)
    PROVE  job' \in [Handlers -> Job \union {None}]
<1>1. job[h] \in Job
  OBVIOUS
<1>2. CASE job' = [job EXCEPT ![h] = None]
  BY <1>2
<1>3. ASSUME NEW d \in job[h].todo,
             job' = [job EXCEPT ![h].stage = "attached", ![h].domain = d,
                                ![h].todo = @ \ {d}]
      PROVE  job' \in [Handlers -> Job \union {None}]
  <2>1. d \in Domains /\ job[h].todo \ {d} \in SUBSET Domains /\ "attached" \in Stages
    BY <1>1, <1>3 DEF Job, Stages
  <2>2. job' = [job EXCEPT ![h].stage = "attached", ![h].domain = d,
                           ![h].todo = job[h].todo \ {d}]
    BY <1>3
  <2> QED
    BY <2>1, <2>2, DomainKind
<1> QED
  BY <1>2, <1>3 DEF Finish

-----------------------------------------------------------------------------
(* The commands.                                                           *)

LEMMA CommandsKeep == IInv /\ StoreCommand => IInv'
<1> SUFFICES ASSUME IInv, StoreCommand PROVE IInv'
  OBVIOUS
<1> USE DEF Command
<1>1. ASSUME NEW c \in Creds, AddCred(c) PROVE IInv'
  <2>1. memory' \in Content /\ Consistent(memory)'
    BY <1>1 DEF AddCred, IInv, KindInv, Content, Consistent, memory
  <2> QED
    BY <1>1, <2>1, SaveKeeps DEF AddCred, IInv, KindInv
<1>2. ASSUME NEW c \in Creds, DelCred(c) PROVE IInv'
  <2>1. memory' \in Content
    BY <1>2 DEF DelCred, IInv, KindInv, Content, memory
  <2>2. Consistent(memory)'
    BY <1>2 DEF DelCred, CredUnused, IInv, KindInv, Content, Consistent, memory
  <2> QED
    BY <1>2, <2>1, <2>2, SaveKeeps DEF DelCred, IInv, KindInv
<1>3. ASSUME NEW w \in Workers, NEW c \in Creds, NEW k \in Categories \union {None},
             AddWorker(w, c, k)
      PROVE  IInv'
  <2> DEFINE r == [cred |-> c, category |-> k]
  <2>1. r \in Worker /\ r.cred \in creds
    BY <1>3 DEF AddWorker, Worker
  <2> QED
    BY <1>3, <2>1, WorkerKeeps DEF AddWorker
<1>4. ASSUME NEW w \in Workers, NEW k \in Categories, SetWorkerCategory(w, k) PROVE IInv'
  <2> DEFINE r == [workers[w] EXCEPT !.category = k]
  <2>1. workers[w] \in Worker /\ workers[w].cred \in creds
    BY <1>4 DEF SetWorkerCategory, IInv, KindInv, Content, Consistent, memory
  <2>2. r \in Worker /\ r.cred \in creds
    BY <2>1 DEF Worker
  <2>3. workers' = [workers EXCEPT ![w] = r]
    BY <1>4 DEF SetWorkerCategory
  <2> QED
    BY <1>4, <2>2, <2>3, WorkerKeeps DEF SetWorkerCategory
<1>5. ASSUME NEW w \in Workers, DelWorker(w) PROVE IInv'
  BY <1>5, WorkerKeeps DEF DelWorker
<1>6. ASSUME NEW d \in Domains, DelDomain(d) PROVE IInv'
  BY <1>6, RecordKeeps DEF DelDomain, IInv, KindInv
<1>7. ASSUME NEW d \in Domains, NEW k \in Categories, AddDomain(d, k) PROVE IInv'
  <2>1. Unused(k) \in Record /\ Unused(k).worker = None
    BY DEF Unused, Record
  <2> QED
    BY <1>7, <2>1, RecordKeeps DEF AddDomain, IInv, KindInv
<1>8. ASSUME NEW d \in Domains, NEW k \in Categories, SetDomainCategory(d, k) PROVE IInv'
  <2> DEFINE r == [book[d] EXCEPT !.category = k]
  <2>1. book[d] \in Record /\ (book[d].status = "unused" => book[d].worker = None)
    BY <1>8 DEF SetDomainCategory, IInv, KindInv, Content, Consistent, memory
  <2>2. r \in Record /\ (r.status = "unused" => r.worker = None)
    BY <2>1 DEF Record
  <2>3. book' = [book EXCEPT ![d] = r]
    BY <1>8 DEF SetDomainCategory
  <2> QED
    BY <1>8, <2>2, <2>3, RecordKeeps DEF SetDomainCategory, IInv, KindInv
<1>9. ASSUME NEW d \in Domains, NEW s \in {"unused", "used", "banned"}, SetDomainStatus(d, s)
      PROVE  IInv'
  <2> DEFINE r == WithStatus(book[d], s)
  <2>1. book[d] \in Record
    BY <1>9 DEF SetDomainStatus, IInv, KindInv, Content, memory
  <2>2. r \in Record /\ (r.status = "unused" => r.worker = None)
    BY <2>1 DEF Record, WithStatus
  <2>3. book' = [book EXCEPT ![d] = r]
    BY <1>9 DEF SetDomainStatus
  <2> QED
    BY <1>9, <2>2, <2>3, RecordKeeps DEF SetDomainStatus, IInv, KindInv
<1> QED
  BY <1>1, <1>2, <1>3, <1>4, <1>5, <1>6, <1>7, <1>8, <1>9 DEF StoreCommand

-----------------------------------------------------------------------------
(* The jobs.                                                               *)

LEMMA JobsBegin ==
    ASSUME IInv, NEW h \in Handlers, Begin(h)
    PROVE  IInv'
<1>1. ASSUME NEW j \in Job, Start(h, j) PROVE IInv'
  BY <1>1, StoreUntouched DEF Start, IInv, KindInv
<1>2. ASSUME NEW w \in Workers, workers[w] # None
      PROVE  workers[w].cred \in Creds /\ workers[w].category \in Categories \union {None}
  BY <1>2 DEF IInv, KindInv, Content, memory, Worker
<1>3. ASSUME NEW w \in Workers, NEW d \in Domains \union {None}, NEW force \in BOOLEAN,
             Bind(h, w, d, force)
      PROVE  IInv'
  BY <1>1, <1>2, <1>3 DEF Bind, Job
<1>4. ASSUME NEW w \in Workers, Import(h, w) PROVE IInv'
  BY <1>1, <1>2, <1>4 DEF Import, Job
<1>5. ASSUME NEW d \in Domains, Unbind(h, d) PROVE IInv'
  <2>1. book[d] \in Record
    BY <1>5 DEF Unbind, IInv, KindInv, Content, memory
  <2>2. book[d].worker \in Workers
    BY <1>5, <2>1 DEF Unbind, Record
  <2> QED
    BY <1>1, <1>2, <1>5, <2>2 DEF Unbind, Job
<1> QED
  BY <1>3, <1>4, <1>5 DEF Begin

LEMMA JobsContinue ==
    ASSUME IInv, NEW h \in Handlers, Continue(h)
    PROVE  IInv'
<1>1. job \in [Handlers -> Job \union {None}]
  BY DEF IInv, KindInv
<1>2. job[h] # None /\ job[h] \in Job
  BY <1>1 DEF Continue, Choose, CheckConflict, Attach, AnswerLost, Fail, Look, AddMissing,
              MarkUsed, FindAttachment, Detach, MarkUnused, ListBound, At
<1>3. ASSUME UNCHANGED store, NEW s \in Stages, Go(h, s) PROVE IInv'
  BY <1>1, <1>2, <1>3, GoKind, StoreUntouched
<1>4. ASSUME UNCHANGED store, job' = [job EXCEPT ![h] = None] PROVE IInv'
  BY <1>1, <1>4, StoreUntouched
<1>5. CASE Choose(h)
  <2>1. PICK d \in Domains : job' = [job EXCEPT ![h].stage = "chosen", ![h].domain = d]
    BY <1>5 DEF Choose
  <2>2. job[h].todo \in SUBSET Domains /\ "chosen" \in Stages
    BY <1>2 DEF Job, Stages
  <2>3. [job[h] EXCEPT !.stage = "chosen", !.domain = d] \in Job
    BY <1>2, <2>2 DEF Job
  <2>4. job' \in [Handlers -> Job \union {None}]
    BY <1>1, <2>1, <2>3
  <2> QED
    BY <1>5, <2>4, StoreUntouched DEF Choose
<1>6. CASE CheckConflict(h) \/ FindAttachment(h)
  BY <1>3, <1>6 DEF CheckConflict, FindAttachment, Stages
<1>7. CASE Attach(h) \/ Detach(h)
  BY <1>3, <1>7 DEF Attach, Detach, store, Stages
<1>8. CASE AnswerLost(h) \/ Fail(h)
  BY <1>4, <1>8 DEF AnswerLost, Fail
<1>9. CASE Look(h)
  BY <1>3, <1>9 DEF Look, Stages
<1>10. CASE AddMissing(h)
  <2> DEFINE d == job[h].domain
             k == IF job[h].category = None THEN "default" ELSE job[h].category
  <2>1. k \in Categories
    BY <1>2, BookAssumption DEF Job
  <2>2. Unused(k) \in Record /\ Unused(k).worker = None
    BY <2>1 DEF Unused, Record
  <2>3. job' \in [Handlers -> Job \union {None}]
    BY <1>1, <1>2, <1>10, GoKind, FinishKind DEF AddMissing, Stages
  <2>4. CASE book' = [book EXCEPT ![d] = Unused(k)] /\ Save
    BY <1>10, <2>2, <2>3, <2>4, RecordKeeps DEF AddMissing
  <2>5. CASE UNCHANGED <<book, file>>
    BY <1>10, <2>3, <2>5, StoreUntouched DEF AddMissing, store
  <2> QED
    BY <1>10, <2>4, <2>5 DEF AddMissing, Save
<1>11. CASE MarkUsed(h)
  <2> DEFINE d == job[h].domain
             r == Marked(book[d], job[h].worker)
  <2>1. job' \in [Handlers -> Job \union {None}]
    BY <1>1, <1>2, <1>11, FinishKind DEF MarkUsed
  <2>2. CASE book' = [book EXCEPT ![d] = r] /\ Save /\ d \in Domains /\ book[d] # None
    <3>1. book[d] \in Record /\ job[h].worker \in Workers
      BY <1>2, <2>2 DEF IInv, KindInv, Content, memory, Job
    <3>2. r \in Record /\ r.status = "used"
      BY <3>1 DEF Marked, Record
    <3> QED
      BY <1>11, <2>1, <2>2, <3>2, RecordKeeps DEF MarkUsed
  <2>3. CASE UNCHANGED <<book, file>>
    BY <1>11, <2>1, <2>3, StoreUntouched DEF MarkUsed, store
  <2>4. CASE book' = [book EXCEPT ![d] = r] /\ Save /\ d \notin Domains
    <3>1. book' = [book EXCEPT ![d] = None]
      BY <2>4 DEF IInv, KindInv, Content, memory
    <3> QED
      BY <1>11, <2>1, <2>4, <3>1, RecordKeeps DEF MarkUsed
  <2> QED
    BY <1>11, <2>2, <2>3, <2>4 DEF MarkUsed
<1>12. CASE MarkUnused(h)
  <2> DEFINE d == job[h].domain
             r == WithStatus(book[d], "unused")
  <2>1. job' \in [Handlers -> Job \union {None}]
    BY <1>1, <1>2, <1>12, FinishKind DEF MarkUnused
  <2>2. CASE book' = [book EXCEPT ![d] = r] /\ Save /\ d \in Domains /\ book[d] # None
    <3>1. book[d] \in Record
      BY <2>2 DEF IInv, KindInv, Content, memory
    <3>2. r \in Record /\ r.worker = None
      BY <3>1 DEF WithStatus, Record
    <3> QED
      BY <1>12, <2>1, <2>2, <3>2, RecordKeeps DEF MarkUnused
  <2>3. CASE UNCHANGED <<book, file>>
    BY <1>12, <2>1, <2>3, StoreUntouched DEF MarkUnused, store
  <2>4. CASE book' = [book EXCEPT ![d] = r] /\ Save /\ d \notin Domains
    <3>1. book' = [book EXCEPT ![d] = None]
      BY <2>4 DEF IInv, KindInv, Content, memory
    <3> QED
      BY <1>12, <2>1, <2>4, <3>1, RecordKeeps DEF MarkUnused
  <2> QED
    BY <1>12, <2>2, <2>3, <2>4 DEF MarkUnused
<1>13. CASE ListBound(h)
  <2> DEFINE bound == {d \in Domains : attached[d] = job[h].worker}
  <2>1. PICK d \in bound :
            job' = [job EXCEPT ![h].stage = "attached", ![h].domain = d,
                               ![h].todo = bound \ {d}]
    BY <1>13 DEF ListBound
  <2>2. d \in Domains /\ bound \ {d} \in SUBSET Domains /\ "attached" \in Stages
    BY DEF Stages
  <2>3. job' \in [Handlers -> Job \union {None}]
    BY <1>1, <1>2, <2>1, <2>2, DomainKind
  <2> QED
    BY <1>13, <2>3, StoreUntouched DEF ListBound
<1> QED
  BY <1>5, <1>6, <1>7, <1>8, <1>9, <1>10, <1>11, <1>12, <1>13 DEF Continue

-----------------------------------------------------------------------------
LEMMA InvNext == IInv /\ [Next]_vars => IInv'
<1> SUFFICES ASSUME IInv, [Next]_vars PROVE IInv'
  OBVIOUS
<1>1. CASE Restart
  <2>1. memory' = [creds |-> file.creds, workers |-> file.workers, book |-> file.book]
        /\ file' = file
    BY <1>1 DEF Restart, memory
  <2>2. memory' \in Content /\ file' \in Content
    BY <2>1 DEF IInv, KindInv, Content
  <2>3. Consistent(memory') /\ Consistent(file')
    BY <2>1 DEF IInv, Consistent
  <2>4. job' \in [Handlers -> Job \union {None}]
    BY <1>1 DEF Restart
  <2> QED
    BY <2>2, <2>3, <2>4 DEF IInv, KindInv, Consistent
<1>2. ASSUME NEW d \in Domains, NEW w \in Workers \union {None}, Outside(d, w) PROVE IInv'
  BY <1>2, StoreUntouched DEF Outside, IInv, KindInv
<1>3. CASE UNCHANGED vars
  BY <1>3, StoreUntouched DEF vars, store, IInv, KindInv
<1> QED
  BY <1>1, <1>2, <1>3, CommandsKeep, JobsBegin, JobsContinue DEF Next

\* No mixture of commands, jobs, failed saves and restarts leaves a worker
\* without its credential, or a worker in a record that says "unused".
THEOREM StoreConsistentAlways == Spec => []StoreConsistent
<1>1. IInv => StoreConsistent
  BY DEF IInv, Consistent, memory, StoreConsistent, CredsReferenced, UnusedHasNoWorker
<1> QED
  BY <1>1, InvInit, InvNext, PTL DEF Spec

-----------------------------------------------------------------------------
(* Types.                                                                  *)

RestInv ==
    /\ attached \in [Domains -> Workers \union {None}]
    /\ trust \in [Domains -> {"agree", "unknown", "disturbed"}]
    /\ commands \in 0..MaxCommands /\ faults \in 0..MaxFaults

LEMMA NoteKind ==
    ASSUME NEW bad, NEW good, RestInv, Note(bad, good)
    PROVE  trust' \in [Domains -> {"agree", "unknown", "disturbed"}]
BY DEF Note, RestInv

LEMMA FaultKind ==
    ASSUME RestInv, Fault \/ Save \/ UNCHANGED faults
    PROVE  faults' \in 0..MaxFaults
BY BookAssumption DEF RestInv, Fault, Save, SaveOK, SaveFails

LEMMA RestKept ==
    ASSUME RestInv, NEW bad, NEW good, Note(bad, good), UNCHANGED commands,
           Fault \/ Save \/ UNCHANGED faults,
           attached' \in [Domains -> Workers \union {None}]
    PROVE  RestInv'
<1>1. faults' \in 0..MaxFaults
  BY FaultKind
<1> QED BY <1>1, NoteKind DEF RestInv

LEMMA RestNext == IInv /\ RestInv /\ [Next]_vars => RestInv'
<1> SUFFICES ASSUME IInv, RestInv, [Next]_vars PROVE RestInv'
  OBVIOUS
<1>0. attached \in [Domains -> Workers \union {None}]
  BY DEF RestInv
<1>1. ASSUME NEW bad, Command(bad) PROVE RestInv'
  <2>1. faults' \in 0..MaxFaults
    BY <1>1, FaultKind DEF Command
  <2>2. commands' \in 0..MaxCommands
    BY <1>1, BookAssumption DEF Command, RestInv
  <2>3. Note(bad, {}) /\ attached' = attached
    BY <1>1 DEF Command
  <2> QED BY <2>1, <2>2, <2>3, NoteKind DEF RestInv
<1>2. CASE StoreCommand
  BY <1>1, <1>2
  DEF StoreCommand, AddCred, DelCred, AddWorker, SetWorkerCategory, DelWorker,
      AddDomain, DelDomain, SetDomainStatus, SetDomainCategory
<1>3. ASSUME NEW h \in Handlers, Begin(h) PROVE RestInv'
  <2>1. ASSUME NEW j, Start(h, j) PROVE RestInv'
    BY <1>0, <2>1, RestKept DEF Start
  <2> QED BY <1>3, <2>1 DEF Begin, Bind, Unbind, Import
<1>4. ASSUME NEW h \in Handlers, Continue(h) PROVE RestInv'
  <2>1. job \in [Handlers -> Job \union {None}]
    BY DEF IInv, KindInv
  <2>2. job[h] \in Job
    BY <1>4, <2>1
    DEF Continue, Choose, CheckConflict, Attach, AnswerLost, Fail, Look,
        AddMissing, MarkUsed, FindAttachment, Detach, MarkUnused, ListBound, At
  <2>3. job[h].worker \in Workers
    BY <2>2 DEF Job
  <2>4. CASE Choose(h) \/ CheckConflict(h) \/ Fail(h) \/ Look(h)
             \/ FindAttachment(h) \/ ListBound(h)
    BY <1>0, <2>4, RestKept
    DEF Choose, CheckConflict, Fail, Look, FindAttachment, ListBound
  <2>5. CASE Attach(h) \/ AnswerLost(h) \/ Detach(h)
    <3>1. attached' \in [Domains -> Workers \union {None}]
      BY <1>0, <2>3, <2>5 DEF Attach, AnswerLost, Detach
    <3> QED BY <2>5, <3>1, RestKept DEF Attach, AnswerLost, Detach
  <2>6. CASE AddMissing(h) \/ MarkUsed(h) \/ MarkUnused(h)
    <3>1. Fault \/ Save \/ UNCHANGED faults
      BY <2>6 DEF AddMissing, MarkUsed, MarkUnused, Save
    <3>2. attached' = attached /\ commands' = commands
      BY <2>6 DEF AddMissing, MarkUsed, MarkUnused
    <3>3. \E good \in {{}, {job[h].domain}} : Note({}, good)
      BY <2>6 DEF AddMissing, MarkUsed, MarkUnused
    <3> QED BY <1>0, <3>1, <3>2, <3>3, RestKept
  <2> QED BY <1>4, <2>4, <2>5, <2>6 DEF Continue
<1>5. ASSUME NEW d \in Domains, NEW w \in Workers \union {None}, Outside(d, w)
      PROVE  RestInv'
  <2>1. attached' \in [Domains -> Workers \union {None}]
    BY <1>0, <1>5 DEF Outside
  <2> QED BY <1>5, <2>1, RestKept DEF Outside
<1>6. CASE Restart
  BY <1>0, <1>6, RestKept DEF Restart
<1>7. CASE UNCHANGED vars
  BY <1>7 DEF vars, RestInv
<1> QED BY <1>2, <1>3, <1>4, <1>5, <1>6, <1>7 DEF Next

LEMMA KindsAlways == Spec => [](IInv /\ RestInv)
<1>1. Init => RestInv
  BY BookAssumption DEF Init, RestInv
<1> QED BY <1>1, InvInit, InvNext, RestNext, PTL DEF Spec

\* Every variable of the book, its jobs and Cloudflare holds a value of its
\* kind.
THEOREM TypeCorrect == Spec => []TypeOK
<1>1. IInv /\ RestInv => TypeOK
  BY DEF IInv, KindInv, RestInv, Content, memory, TypeOK
<1> QED BY <1>1, KindsAlways, PTL

-----------------------------------------------------------------------------
(* The book and Cloudflare.  What is known of a domain that is not          *)
(* disturbed is what the job that is alone on it has seen and done.         *)

\* The handlers at work on d.
Here(d) == On(job, d)

Agrees(d) == attached[d] = IF book[d] = None THEN None ELSE book[d].worker

\* A job knows its domain once it has chosen it; only imports have more to do.
JobInv ==
    \A h \in Handlers : job[h] # None =>
        /\ job[h].stage # "found" => job[h].domain \in Domains
        /\ job[h].todo # {} => job[h].op = "import"

\* The job of h has changed Cloudflare and has yet to write it down.
Pending(h, d) ==
    /\ job[h].domain = d
    /\ job[h].op # "import"
    /\ job[h].stage \in {"attached", "missing", "recorded", "deleted"}

\* What the job of h has seen or done to d is so.
Sound(h, d) ==
    /\ job[h].op = "import" => attached[d] = job[h].worker
    /\ job[h].domain = d =>
           /\ job[h].op = "bind" /\ job[h].stage = "clear" /\ ~job[h].force
              => attached[d] \in {None, job[h].worker}
           /\ job[h].op = "bind" /\ job[h].stage \in {"attached", "missing", "recorded"}
              => attached[d] = job[h].worker
           /\ job[h].op = "unbind" /\ job[h].stage = "deleted" => attached[d] = None
           /\ job[h].stage = "recorded" => book[d] # None

TrustInv(d) ==
    trust[d] # "disturbed" =>
        /\ \A g, h \in Here(d) : g = h
        /\ \A h \in Here(d) : Sound(h, d)
        /\ trust[d] = "agree" => Agrees(d) \/ \E h \in Here(d) : Pending(h, d)

BookInv == JobInv /\ \A d \in Domains : TrustInv(d)

\* Two jobs on a domain are more than one.
LEMMA TwoAreMany ==
    ASSUME NEW jobs, NEW d, NEW g \in On(jobs, d), NEW h \in On(jobs, d), g # h
    PROVE  Cardinality(On(jobs, d)) > 1
<1> DEFINE S == On(jobs, d)
<1>1. IsFiniteSet(S)
  BY BookAssumption, FS_Subset DEF On
<1>2. Cardinality({g}) = 1 /\ {g} \in SUBSET S /\ {g} # S
  BY FS_Singleton
<1>3. Cardinality(S) \in Nat
  BY <1>1, FS_CardinalityType
<1>4. Cardinality({g}) <= Cardinality(S) /\ Cardinality({g}) # Cardinality(S)
  BY <1>1, <1>2, FS_Subset
<1> QED BY <1>2, <1>3, <1>4

\* What it takes for a domain not to be disturbed after a step.
LEMMA NoteMeans ==
    ASSUME NEW bad, NEW good, Note(bad, good), NEW d \in Domains,
           trust'[d] # "disturbed"
    PROVE  /\ \A g, h \in Here(d)' : g = h
           /\ \/ Here(d)' = {} /\ trust'[d] = "unknown"
              \/ /\ d \notin bad /\ trust[d] # "disturbed"
                 /\ trust'[d] = "agree" => trust[d] = "agree" \/ d \in good
<1>1. trust'[d] = IF \/ Cardinality(On(job', d)) > 1
                     \/ On(job', d) # {} /\ (d \in bad \/ trust[d] = "disturbed")
                  THEN "disturbed"
                  ELSE IF d \in bad \/ trust[d] = "disturbed" THEN "unknown"
                  ELSE IF d \in good THEN "agree"
                  ELSE trust[d]
  BY DEF Note
<1>2. \A g, h \in On(job', d) : g = h
  BY <1>1, TwoAreMany
<1>3. Here(d)' = On(job', d)
  BY DEF Here, On
<1> QED BY <1>1, <1>2, <1>3

\* What a step leaves alone of a domain.
Spared(d) ==
    /\ attached'[d] = attached[d]
    /\ Agrees(d) => Agrees(d)'
    /\ book[d] # None => book'[d] # None

\* A command that is one operation of the store, or a change from outside.
LEMMA CommandTrusts ==
    ASSUME NEW bad, Note(bad, {}), UNCHANGED job, NEW d \in Domains, TrustInv(d),
           d \notin bad => Spared(d)
    PROVE  TrustInv(d)'
<1> SUFFICES ASSUME trust'[d] # "disturbed" PROVE TrustInv(d)'
  BY DEF TrustInv
<1>1. Here(d)' = Here(d)
  BY DEF Here, On
<1>2. CASE Here(d)' = {} /\ trust'[d] = "unknown"
  BY <1>2 DEF TrustInv
<1>3. CASE /\ d \notin bad /\ trust[d] # "disturbed"
           /\ trust'[d] = "agree" => trust[d] = "agree"
  <2>1. Spared(d)
    BY <1>3
  <2>2. \A h \in Here(d)' : Sound(h, d)'
    BY <1>1, <1>3, <2>1 DEF TrustInv, Sound, Spared
  <2>3. trust'[d] = "agree" => Agrees(d)' \/ \E h \in Here(d)' : Pending(h, d)'
    BY <1>1, <1>3, <2>1 DEF TrustInv, Pending, Spared
  <2>4. \A g, h \in Here(d)' : g = h
    BY <1>1, <1>3 DEF TrustInv
  <2> QED BY <2>2, <2>3, <2>4 DEF TrustInv
<1> QED BY <1>2, <1>3, NoteMeans

\* A step of the job of h: what it has to show of a domain where it is alone,
\* and of one where it is not.
LEMMA JobTrusts ==
    ASSUME NEW h \in Handlers, \A g \in Handlers \ {h} : job'[g] = job[g],
           NEW bad, NEW good, Note(bad, good), NEW d \in Domains, TrustInv(d),
           ASSUME h \in Here(d) \/ h \in Here(d)', d \notin bad,
                  trust[d] # "disturbed", Here(d) \subseteq {h}
           PROVE  /\ h \in Here(d)' => Sound(h, d)'
                  /\ trust[d] = "agree" \/ d \in good
                     => Agrees(d)' \/ (h \in Here(d)' /\ Pending(h, d)'),
           ASSUME h \notin Here(d), h \notin Here(d)', d \notin bad
           PROVE  d \notin good /\ Spared(d)
    PROVE  TrustInv(d)'
<1> SUFFICES ASSUME trust'[d] # "disturbed" PROVE TrustInv(d)'
  BY DEF TrustInv
<1>1. \A g \in Handlers \ {h} : g \in Here(d)' <=> g \in Here(d)
  BY DEF Here, On
<1>2. Here(d) \subseteq Handlers /\ Here(d)' \subseteq Handlers
  BY DEF Here, On
<1>3. \A f, g \in Here(d)' : f = g
  BY NoteMeans
<1>4. CASE Here(d)' = {} /\ trust'[d] = "unknown"
  BY <1>4 DEF TrustInv
<1>5. CASE /\ d \notin bad /\ trust[d] # "disturbed"
           /\ trust'[d] = "agree" => trust[d] = "agree" \/ d \in good
  <2>1. \A f, g \in Here(d) : f = g
    BY <1>5 DEF TrustInv
  <2>2. CASE h \in Here(d) \/ h \in Here(d)'
    <3>1. Here(d) \subseteq {h}
      BY <1>1, <1>2, <1>3, <2>1, <2>2
    <3>2. Here(d)' \subseteq {h}
      BY <1>1, <1>2, <3>1
    <3>3. /\ h \in Here(d)' => Sound(h, d)'
          /\ trust[d] = "agree" \/ d \in good
             => Agrees(d)' \/ (h \in Here(d)' /\ Pending(h, d)')
      BY <1>5, <2>2, <3>1
    <3> QED BY <1>3, <1>5, <3>2, <3>3 DEF TrustInv
  <2>3. CASE h \notin Here(d) /\ h \notin Here(d)'
    <3>1. d \notin good /\ Spared(d)
      BY <1>5, <2>3
    <3>2. Here(d)' = Here(d) /\ \A g \in Here(d) : job'[g] = job[g]
      BY <1>1, <1>2, <2>3
    <3>3. \A g \in Here(d)' : Sound(g, d)'
      BY <1>5, <3>1, <3>2 DEF TrustInv, Sound, Spared
    <3>4. trust'[d] = "agree" => Agrees(d)' \/ \E g \in Here(d)' : Pending(g, d)'
      BY <1>5, <3>1, <3>2 DEF TrustInv, Pending, Spared
    <3> QED BY <1>3, <3>3, <3>4 DEF TrustInv
  <2> QED BY <2>2, <2>3
<1> QED BY <1>4, <1>5, NoteMeans

-----------------------------------------------------------------------------
(* The commands and the changes that no job makes.                         *)

\* A step that leaves a record with its worker.
LEMMA SparedMeans ==
    ASSUME NEW d \in Domains, attached'[d] = attached[d],
           book[d] = None => (book'[d] = None \/ book'[d].worker = None),
           book[d] # None => (book'[d] # None /\ book'[d].worker = book[d].worker)
    PROVE  Spared(d)
BY DEF Spared, Agrees

LEMMA CommandsTrust == IInv /\ BookInv /\ StoreCommand => BookInv'
<1> SUFFICES ASSUME IInv, BookInv, StoreCommand PROVE BookInv'
  OBVIOUS
<1>1. book \in [Domains -> Record \union {None}]
  BY DEF IInv, KindInv, Content, memory
<1>2. ASSUME NEW bad, Command(bad), \A d \in Domains \ bad : Spared(d)
      PROVE  BookInv'
  <2>1. JobInv'
    BY <1>2 DEF Command, BookInv, JobInv
  <2>2. \A d \in Domains : TrustInv(d)'
    BY <1>2, CommandTrusts DEF Command, BookInv
  <2> QED BY <2>1, <2>2 DEF BookInv
<1>3. ASSUME NEW bad, Command(bad), UNCHANGED book PROVE BookInv'
  <2>1. \A d \in Domains : Spared(d)
    BY <1>3, SparedMeans DEF Command, Spared, Agrees
  <2> QED BY <1>2, <1>3, <2>1
<1>4. ASSUME NEW c \in Creds, AddCred(c) \/ DelCred(c) PROVE BookInv'
  BY <1>3, <1>4 DEF AddCred, DelCred
<1>5. ASSUME NEW w \in Workers, DelWorker(w) PROVE BookInv'
  BY <1>3, <1>5 DEF DelWorker
<1>6. ASSUME NEW w \in Workers, NEW c \in Creds, NEW k, AddWorker(w, c, k)
      PROVE  BookInv'
  BY <1>3, <1>6 DEF AddWorker
<1>7. ASSUME NEW w \in Workers, NEW k, SetWorkerCategory(w, k) PROVE BookInv'
  BY <1>3, <1>7 DEF SetWorkerCategory
<1>8. ASSUME NEW d \in Domains, NEW r, NEW bad, Command(bad),
             book' = [book EXCEPT ![d] = r],
             \/ d \in bad
             \/ book[d] = None /\ r.worker = None
             \/ book[d] # None /\ r # None /\ r.worker = book[d].worker
      PROVE  BookInv'
  <2>1. ASSUME NEW e \in Domains \ bad PROVE Spared(e)
    <3>1. attached'[e] = attached[e]
      BY <1>8 DEF Command
    <3>2. CASE e = d
      BY <1>1, <1>8, <2>1, <3>1, <3>2, SparedMeans
    <3>3. CASE e # d
      <4>1. book'[e] = book[e]
        BY <1>1, <1>8, <3>3
      <4> QED BY <3>1, <4>1, SparedMeans DEF Spared, Agrees
    <3> QED BY <3>2, <3>3
  <2> QED BY <1>2, <1>8, <2>1
<1>9. ASSUME NEW d \in Domains, DelDomain(d) PROVE BookInv'
  BY <1>8, <1>9 DEF DelDomain
<1>10. ASSUME NEW d \in Domains, NEW s, SetDomainStatus(d, s) PROVE BookInv'
  <2>1. book' = [book EXCEPT ![d] = WithStatus(book[d], s)] /\ Command({d})
    BY <1>10 DEF SetDomainStatus
  <2> QED BY <1>8, <2>1
<1>11. ASSUME NEW d \in Domains, NEW k \in Categories, AddDomain(d, k) PROVE BookInv'
  <2>1. Unused(k).worker = None
    BY DEF Unused
  <2> QED BY <1>8, <1>11, <2>1 DEF AddDomain
<1>12. ASSUME NEW d \in Domains, NEW k \in Categories, SetDomainCategory(d, k)
       PROVE  BookInv'
  <2> DEFINE r == [book[d] EXCEPT !.category = k]
  <2>1. book[d] \in Record /\ book[d] # None
    BY <1>1, <1>12 DEF SetDomainCategory
  <2>2. r \in Record /\ r.worker = book[d].worker
    BY <2>1 DEF Record
  <2>3. r # None
    BY <2>2, BookAssumption
  <2>4. book' = [book EXCEPT ![d] = r] /\ Command({})
    BY <1>12 DEF SetDomainCategory
  <2> HIDE DEF r
  <2> QED BY <1>8, <2>1, <2>2, <2>3, <2>4
<1> QED
  BY <1>4, <1>5, <1>6, <1>7, <1>9, <1>10, <1>11, <1>12 DEF StoreCommand

LEMMA OutsideTrusts ==
    ASSUME RestInv, BookInv, NEW d \in Domains, NEW w, Outside(d, w)
    PROVE  BookInv'
<1>1. JobInv'
  BY DEF Outside, BookInv, JobInv
<1>2. ASSUME NEW e \in Domains \ {d} PROVE Spared(e)
  <2>1. attached'[e] = attached[e] /\ book'[e] = book[e]
    BY <1>2 DEF Outside, RestInv, store
  <2> QED BY <2>1, SparedMeans DEF Spared, Agrees
<1>3. \A e \in Domains : TrustInv(e)'
  BY <1>2, CommandTrusts DEF Outside, BookInv
<1> QED BY <1>1, <1>3 DEF BookInv

\* A restart ends all jobs, and with them what was vouched for.
LEMMA RestartTrusts == BookInv /\ Restart => BookInv'
<1> SUFFICES ASSUME BookInv, Restart PROVE BookInv'
  OBVIOUS
<1>1. JobInv'
  BY DEF Restart, JobInv
<1>2. ASSUME NEW d \in Domains PROVE TrustInv(d)'
  <2> DEFINE bad == {e \in Domains : file.book[e] # book[e] \/ On(job, e) # {}}
  <2>1. Here(d)' = {}
    BY DEF Restart, Here, On
  <2>2. ASSUME trust'[d] = "agree" PROVE Agrees(d)'
    <3>1. d \notin bad /\ trust[d] = "agree"
      BY <2>2, NoteMeans DEF Restart
    <3>2. Here(d) = {} /\ book'[d] = book[d] /\ attached'[d] = attached[d]
      BY <3>1 DEF Here, Restart
    <3> QED BY <3>1, <3>2 DEF BookInv, TrustInv, Agrees
  <2> QED BY <2>1, <2>2 DEF TrustInv
<1> QED BY <1>1, <1>2 DEF BookInv

-----------------------------------------------------------------------------
(* The jobs.                                                               *)

\* The job of h goes over to j, or ends.
Becomes(h, j) == job' = [job EXCEPT ![h] = j]

\* A job is where it should be.
Placed(j) ==
    j # None => /\ j.stage # "found" => j.domain \in Domains
                /\ j.todo # {} => j.op = "import"

LEMMA BecomesMeans ==
    ASSUME IInv, JobInv, NEW h \in Handlers, NEW j, Becomes(h, j), Placed(j)
    PROVE  /\ JobInv'
           /\ job'[h] = j
           /\ \A g \in Handlers \ {h} : job'[g] = job[g]
<1>1. job \in [Handlers -> Job \union {None}]
  BY DEF IInv, KindInv
<1>2. job'[h] = j /\ \A g \in Handlers \ {h} : job'[g] = job[g]
  BY <1>1 DEF Becomes
<1> QED BY <1>2 DEF JobInv, Placed

\* A job that goes on keeps all but its stage.
LEMMA GoMeans ==
    ASSUME IInv, JobInv, NEW h \in Handlers, job[h] # None, job[h].stage # "found",
           NEW s \in Stages, Go(h, s)
    PROVE  /\ JobInv'
           /\ \A g \in Handlers \ {h} : job'[g] = job[g]
           /\ job'[h] # None /\ job'[h].stage = s /\ job'[h].op = job[h].op
           /\ job'[h].worker = job[h].worker /\ job'[h].force = job[h].force
           /\ job'[h].domain = job[h].domain /\ job'[h].todo = job[h].todo
<1> DEFINE j == [job[h] EXCEPT !.stage = s]
<1>1. job[h] \in Job
  BY DEF IInv, KindInv
<1>2. /\ j \in Job /\ j.stage = s /\ j.op = job[h].op
      /\ j.worker = job[h].worker /\ j.force = job[h].force
      /\ j.domain = job[h].domain /\ j.todo = job[h].todo
  BY <1>1 DEF Job, Stages
<1>3. Becomes(h, j)
  BY DEF Go, Becomes
<1>4. j # None
  BY <1>2, BookAssumption
<1> HIDE DEF j
<1>5. Placed(j)
  BY <1>2 DEF Placed, JobInv
<1> QED BY <1>2, <1>3, <1>4, <1>5, BecomesMeans

\* The end of a job, or an import's next domain.
LEMMA FinishMeans ==
    ASSUME IInv, JobInv, NEW h \in Handlers, job[h] # None, Finish(h)
    PROVE  /\ JobInv'
           /\ \A g \in Handlers \ {h} : job'[g] = job[g]
           /\ \/ job'[h] = None /\ job[h].todo = {}
              \/ /\ job'[h].stage = "attached" /\ job[h].op = "import"
                 /\ job'[h].op = "import" /\ job'[h].worker = job[h].worker
                 /\ {job'[h].domain} \union job'[h].todo = job[h].todo
<1>1. job[h] \in Job
  BY DEF IInv, KindInv
<1>2. ASSUME Becomes(h, None)
      PROVE  JobInv' /\ job'[h] = None /\ \A g \in Handlers \ {h} : job'[g] = job[g]
  BY <1>2, BecomesMeans DEF Placed
<1>3. ASSUME NEW d \in job[h].todo,
             job' = [job EXCEPT ![h].stage = "attached", ![h].domain = d,
                                ![h].todo = @ \ {d}]
      PROVE  /\ JobInv'
             /\ \A g \in Handlers \ {h} : job'[g] = job[g]
             /\ job'[h].stage = "attached" /\ job[h].op = "import"
             /\ job'[h].op = "import" /\ job'[h].worker = job[h].worker
             /\ {job'[h].domain} \union job'[h].todo = job[h].todo
  <2> DEFINE j == [job[h] EXCEPT !.stage = "attached", !.domain = d,
                                 !.todo = job[h].todo \ {d}]
  <2>1. job[h].op = "import" /\ d \in Domains
    BY <1>1, <1>3 DEF JobInv, Job
  <2>2. /\ j.stage = "attached" /\ j.op = "import" /\ j.worker = job[h].worker
        /\ j.domain = d /\ j.todo = job[h].todo \ {d}
    BY <1>1, <2>1 DEF Job
  <2>3. Becomes(h, j)
    BY <1>3 DEF Becomes
  <2> HIDE DEF j
  <2>4. Placed(j)
    BY <2>1, <2>2 DEF Placed
  <2>5. JobInv' /\ job'[h] = j /\ \A g \in Handlers \ {h} : job'[g] = job[g]
    BY <2>3, <2>4, BecomesMeans
  <2>6. {j.domain} \union j.todo = job[h].todo
    BY <1>3, <2>2
  <2> QED BY <2>1, <2>2, <2>5, <2>6
<1> QED BY <1>2, <1>3 DEF Finish, Becomes

\* A step that changes neither the book nor Cloudflare.
LEMMA QuietTrusts ==
    ASSUME BookInv, JobInv', NEW h \in Handlers,
           \A g \in Handlers \ {h} : job'[g] = job[g],
           UNCHANGED <<book, attached>>, Note({}, {}),
           \A d \in Domains :
               /\ h \in Here(d)' /\ (h \in Here(d) => Sound(h, d)) => Sound(h, d)'
               /\ h \in Here(d) /\ Pending(h, d) => h \in Here(d)' /\ Pending(h, d)'
    PROVE  BookInv'
<1>1. ASSUME NEW d \in Domains PROVE TrustInv(d)'
  <2>1. TrustInv(d)
    BY DEF BookInv
  <2>2. Spared(d)
    BY DEF Spared, Agrees
  <2>3. ASSUME trust[d] # "disturbed", Here(d) \subseteq {h}
        PROVE  /\ h \in Here(d)' => Sound(h, d)'
               /\ trust[d] = "agree" \/ d \in {}
                  => Agrees(d)' \/ (h \in Here(d)' /\ Pending(h, d)')
    <3>1. h \in Here(d) => Sound(h, d)
      BY <2>1, <2>3 DEF TrustInv
    <3>2. trust[d] = "agree" => Agrees(d) \/ (h \in Here(d) /\ Pending(h, d))
      BY <2>1, <2>3 DEF TrustInv
    <3> QED BY <2>2, <3>1, <3>2 DEF Spared
  <2> QED BY <2>1, <2>2, <2>3, JobTrusts
<1> QED BY <1>1 DEF BookInv
LEMMA BeginTrusts ==
    ASSUME IInv, BookInv, NEW h \in Handlers, Begin(h)
    PROVE  BookInv'
<1>1. ASSUME NEW j, Start(h, j), j # None, j.todo = {}, j.stage \in {"found", "chosen"},
             j.op = "import" => j.domain \notin Domains,
             j.stage = "chosen" => j.domain \in Domains
      PROVE  BookInv'
  <2>1. Placed(j) /\ Becomes(h, j) /\ job[h] = None /\ Note({}, {})
    BY <1>1 DEF Start, Placed, Becomes
  <2>2. JobInv' /\ job'[h] = j /\ \A g \in Handlers \ {h} : job'[g] = job[g]
    BY <2>1, BecomesMeans DEF BookInv
  <2>3. UNCHANGED <<book, attached>>
    BY <1>1 DEF Start, store
  <2>4. ASSUME NEW d \in Domains
        PROVE  h \notin Here(d) /\ (h \in Here(d)' => Sound(h, d)')
    BY <1>1, <2>1, <2>2 DEF Here, On, Sound
  <2> QED BY <2>1, <2>2, <2>3, <2>4, QuietTrusts
<1>2. ASSUME NEW w \in Workers, NEW d \in Domains \union {None}, NEW force \in BOOLEAN,
             Bind(h, w, d, force)
      PROVE  BookInv'
  <2> DEFINE j == [op |-> "bind", stage |-> "found", worker |-> w,
                   cred |-> workers[w].cred, category |-> workers[w].category,
                   domain |-> d, force |-> force, todo |-> {}]
  <2>1. workers[w] \in Worker
    BY <1>2 DEF Bind, IInv, KindInv, Content, memory
  <2>2. j \in Job
    BY <2>1 DEF Job, Worker
  <2>3. j # None
    BY <2>2, BookAssumption
  <2>4. j.todo = {} /\ j.stage = "found" /\ j.op = "bind" /\ Start(h, j)
    BY <1>2 DEF Bind
  <2> HIDE DEF j
  <2> QED BY <1>1, <2>3, <2>4
<1>3. ASSUME NEW w \in Workers, Import(h, w) PROVE BookInv'
  <2> DEFINE j == [op |-> "import", stage |-> "found", worker |-> w,
                   cred |-> workers[w].cred, category |-> workers[w].category,
                   domain |-> None, force |-> FALSE, todo |-> {}]
  <2>1. workers[w] \in Worker
    BY <1>3 DEF Import, IInv, KindInv, Content, memory
  <2>2. j \in Job
    BY <2>1 DEF Job, Worker
  <2>3. j # None /\ j.domain \notin Domains
    BY <2>2, BookAssumption
  <2>4. j.todo = {} /\ j.stage = "found" /\ Start(h, j)
    BY <1>3 DEF Import
  <2> HIDE DEF j
  <2> QED BY <1>1, <2>3, <2>4
<1>4. ASSUME NEW d \in Domains, Unbind(h, d) PROVE BookInv'
  <2> DEFINE w == book[d].worker
             j == [op |-> "unbind", stage |-> "chosen", worker |-> w,
                   cred |-> workers[w].cred, category |-> None,
                   domain |-> d, force |-> FALSE, todo |-> {}]
  <2>1. book[d] \in Record
    BY <1>4 DEF Unbind, IInv, KindInv, Content, memory
  <2>2. w \in Workers /\ workers[w] \in Worker
    BY <1>4, <2>1 DEF Unbind, Record, IInv, KindInv, Content, memory
  <2>3. j \in Job
    BY <2>2 DEF Job, Worker
  <2>4. j # None
    BY <2>3, BookAssumption
  <2>5. /\ j.todo = {} /\ j.stage = "chosen" /\ j.op = "unbind" /\ j.domain = d
        /\ Start(h, j)
    BY <1>4 DEF Unbind
  <2> HIDE DEF j
  <2> QED BY <1>1, <2>4, <2>5
<1> QED BY <1>2, <1>3, <1>4 DEF Begin

\* The steps of a job that look, or give up.
LEMMA LooksTrust ==
    ASSUME IInv, BookInv, NEW h \in Handlers,
           \/ Choose(h) \/ CheckConflict(h) \/ Fail(h) \/ Look(h)
           \/ FindAttachment(h) \/ ListBound(h)
    PROVE  BookInv'
<1>1. JobInv
  BY DEF BookInv
<1>2. UNCHANGED <<book, attached>> /\ Note({}, {})
  BY DEF Choose, CheckConflict, Fail, Look, FindAttachment, ListBound, store
<1>3. job[h] # None /\ job[h] \in Job
  BY DEF Choose, CheckConflict, Fail, Look, FindAttachment, ListBound, At,
         IInv, KindInv
<1>4. CASE Choose(h)
  <2>1. PICK d \in Domains : job' = [job EXCEPT ![h].stage = "chosen", ![h].domain = d]
    BY <1>4 DEF Choose
  <2> DEFINE j == [job[h] EXCEPT !.stage = "chosen", !.domain = d]
  <2>2. j.stage = "chosen" /\ j.domain = d /\ j.op = "bind" /\ j.todo = {}
    BY <1>1, <1>3, <1>4 DEF Choose, At, Job, JobInv
  <2>3. Becomes(h, j)
    BY <2>1 DEF Becomes
  <2> HIDE DEF j
  <2>4. Placed(j)
    BY <2>2 DEF Placed
  <2>5. JobInv' /\ job'[h] = j /\ \A g \in Handlers \ {h} : job'[g] = job[g]
    BY <1>1, <2>3, <2>4, BecomesMeans
  <2>6. \A e \in Domains : Sound(h, e)' /\ ~Pending(h, e)
    BY <1>4, <2>2, <2>5 DEF Sound, Pending, Choose, At
  <2> QED BY <1>2, <2>5, <2>6, QuietTrusts
<1>5. CASE Fail(h)
  <2>1. Becomes(h, None) /\ Placed(None)
    BY <1>5 DEF Fail, Becomes, Placed
  <2>2. JobInv' /\ job'[h] = None /\ \A g \in Handlers \ {h} : job'[g] = job[g]
    BY <1>1, <2>1, BecomesMeans
  <2>3. \A e \in Domains : h \notin Here(e)' /\ ~Pending(h, e)
    BY <1>5, <2>2 DEF Here, On, Pending, Fail
  <2> QED BY <1>2, <2>2, <2>3, QuietTrusts
<1>6. CASE CheckConflict(h) \/ FindAttachment(h)
  <2>1. Go(h, "clear") /\ "clear" \in Stages /\ job[h].stage = "chosen"
        /\ job[h].op \in {"bind", "unbind"}
    BY <1>6 DEF CheckConflict, FindAttachment, At, Stages
  <2>2. /\ JobInv' /\ job'[h].stage = "clear" /\ job'[h].op = job[h].op
        /\ job'[h].worker = job[h].worker /\ job'[h].force = job[h].force
        /\ job'[h].domain = job[h].domain
        /\ \A g \in Handlers \ {h} : job'[g] = job[g]
    BY <1>1, <1>3, <2>1, GoMeans
  <2>3. job[h].op = "bind" => FreeFor(h)
    BY <1>6 DEF CheckConflict, FindAttachment, At
  <2>4. \A e \in Domains : Sound(h, e)' /\ ~Pending(h, e)
    BY <1>2, <2>1, <2>2, <2>3 DEF Sound, Pending, FreeFor
  <2> QED BY <1>2, <2>2, <2>4, QuietTrusts
<1>7. CASE Look(h)
  <2> DEFINE s == IF book[job[h].domain] = None THEN "missing" ELSE "recorded"
  <2>1. Go(h, s) /\ s \in Stages /\ job[h].stage = "attached"
        /\ job[h].op \in {"bind", "import"}
    BY <1>7 DEF Look, At, Stages
  <2>2. /\ JobInv' /\ job'[h].stage = s /\ job'[h].op = job[h].op
        /\ job'[h].worker = job[h].worker /\ job'[h].force = job[h].force
        /\ job'[h].domain = job[h].domain /\ job'[h].todo = job[h].todo
        /\ job'[h] # None
        /\ \A g \in Handlers \ {h} : job'[g] = job[g]
    BY <1>1, <1>3, <2>1, GoMeans
  <2>3. ASSUME NEW e \in Domains
        PROVE  /\ h \in Here(e)' /\ (h \in Here(e) => Sound(h, e)) => Sound(h, e)'
               /\ h \in Here(e) /\ Pending(h, e) => h \in Here(e)' /\ Pending(h, e)'
    <3>1. h \in Here(e)' <=> h \in Here(e)
      BY <1>3, <2>2 DEF Here, On
    <3>2. Sound(h, e) => Sound(h, e)'
      BY <1>2, <2>1, <2>2 DEF Sound
    <3>3. Pending(h, e) => Pending(h, e)'
      BY <2>2 DEF Pending
    <3> QED BY <3>1, <3>2, <3>3
  <2> QED BY <1>2, <2>2, <2>3, QuietTrusts
<1>8. CASE ListBound(h)
  <2> DEFINE bound == {d \in Domains : attached[d] = job[h].worker}
  <2>1. PICK d \in bound :
            job' = [job EXCEPT ![h].stage = "attached", ![h].domain = d,
                               ![h].todo = bound \ {d}]
    BY <1>8 DEF ListBound
  <2> DEFINE j == [job[h] EXCEPT !.stage = "attached", !.domain = d,
                                 !.todo = bound \ {d}]
  <2>2. /\ j.stage = "attached" /\ j.domain = d /\ j.op = "import"
        /\ j.todo = bound \ {d} /\ j.worker = job[h].worker
    BY <1>3, <1>8 DEF ListBound, At, Job
  <2>3. Becomes(h, j)
    BY <2>1 DEF Becomes
  <2> HIDE DEF j
  <2>4. Placed(j)
    BY <2>2 DEF Placed
  <2>5. JobInv' /\ job'[h] = j /\ \A g \in Handlers \ {h} : job'[g] = job[g]
    BY <1>1, <2>3, <2>4, BecomesMeans
  <2>6. ASSUME NEW e \in Domains
        PROVE  (h \in Here(e)' => Sound(h, e)') /\ ~Pending(h, e)
    <3>1. h \in Here(e)' => e \in bound
      BY <2>2, <2>5 DEF Here, On
    <3> QED BY <1>2, <1>8, <2>2, <2>5, <3>1 DEF Sound, Pending, ListBound, At
  <2> QED BY <1>2, <2>5, <2>6, QuietTrusts
<1> QED BY <1>4, <1>5, <1>6, <1>7, <1>8
\* The steps of a job that change Cloudflare.
LEMMA ChangesTrust ==
    ASSUME IInv, RestInv, BookInv, NEW h \in Handlers,
           Attach(h) \/ Detach(h) \/ AnswerLost(h)
    PROVE  BookInv'
<1> DEFINE d == job[h].domain
<1>1. JobInv
  BY DEF BookInv
<1>2. /\ job[h] # None /\ job[h] \in Job /\ job[h].stage = "clear"
      /\ job[h].op \in {"bind", "unbind"}
  BY DEF Attach, Detach, AnswerLost, At, IInv, KindInv
<1>3. d \in Domains /\ job[h].todo = {}
  BY <1>1, <1>2 DEF JobInv
<1>4. /\ book' = book
      /\ attached'[d] = IF job[h].op = "bind" THEN job[h].worker ELSE None
      /\ \A e \in Domains \ {d} : attached'[e] = attached[e]
  BY <1>3 DEF Attach, Detach, AnswerLost, At, RestInv, store
<1>5. \A e \in Domains \ {d} : Spared(e) /\ h \notin Here(e)
  BY <1>3, <1>4 DEF Spared, Agrees, Here, On
<1>6. CASE Attach(h) \/ Detach(h)
  <2> DEFINE s == IF job[h].op = "bind" THEN "attached" ELSE "deleted"
  <2>1. Go(h, s) /\ s \in Stages /\ Note({}, {})
    BY <1>6 DEF Attach, Detach, At, Stages
  <2>2. /\ JobInv' /\ job'[h] # None /\ job'[h].stage = s /\ job'[h].op = job[h].op
        /\ job'[h].worker = job[h].worker /\ job'[h].domain = d /\ job'[h].todo = {}
        /\ \A g \in Handlers \ {h} : job'[g] = job[g]
    BY <1>1, <1>2, <1>3, <2>1, GoMeans
  <2>3. \A e \in Domains \ {d} : h \notin Here(e)'
    BY <2>2 DEF Here, On
  <2>4. h \in Here(d)' /\ Sound(h, d)' /\ Pending(h, d)'
    BY <1>2, <1>4, <2>2 DEF Here, On, Sound, Pending
  <2>5. ASSUME NEW e \in Domains PROVE TrustInv(e)'
    <3>1. CASE e = d
      BY <2>1, <2>2, <2>4, <3>1, JobTrusts DEF BookInv
    <3>2. CASE e # d
      BY <1>5, <2>1, <2>2, <2>3, <3>2, JobTrusts DEF BookInv
    <3> QED BY <3>1, <3>2
  <2> QED BY <2>2, <2>5 DEF BookInv
<1>7. CASE AnswerLost(h)
  <2>1. Becomes(h, None) /\ Placed(None)
    BY <1>7 DEF AnswerLost, Becomes, Placed
  <2>2. Note({d}, {})
    BY <1>7 DEF AnswerLost
  <2>3. JobInv' /\ job'[h] = None
    BY <1>1, <2>1, BecomesMeans
  <2>4. \A g \in Handlers \ {h} : job'[g] = job[g]
    BY <1>1, <2>1, BecomesMeans
  <2>5. \A e \in Domains : h \notin Here(e)' /\ TrustInv(e)
    BY <2>3 DEF Here, On, BookInv
  <2>6. ASSUME NEW e \in Domains PROVE TrustInv(e)'
    <3>1. CASE e = d
      BY <2>2, <2>4, <2>5, <3>1, JobTrusts
    <3>2. CASE e # d
      <4>1. h \notin Here(e) /\ h \notin Here(e)' /\ Spared(e) /\ TrustInv(e)
        BY <1>5, <2>5, <3>2
      <4>2. e \notin {}
        OBVIOUS
      <4> QED BY <2>2, <2>4, <3>2, <4>1, <4>2, JobTrusts
    <3> QED BY <3>1, <3>2
  <2> QED BY <2>3, <2>6 DEF BookInv
<1> QED BY <1>6, <1>7

\* The steps of a job that change a record.
LEMMA RecordsTrust ==
    ASSUME IInv, BookInv, NEW h \in Handlers,
           AddMissing(h) \/ MarkUsed(h) \/ MarkUnused(h)
    PROVE  BookInv'
<1> SUFFICES ASSUME NEW d, d = job[h].domain PROVE BookInv'
  OBVIOUS
<1>1. JobInv
  BY DEF BookInv
<1>2. /\ job[h] # None /\ job[h] \in Job
      /\ job[h].stage \in {"missing", "recorded", "deleted"}
  BY DEF AddMissing, MarkUsed, MarkUnused, At, IInv, KindInv
<1>3. d \in Domains /\ (job[h].op # "import" => job[h].todo = {})
  BY <1>1, <1>2 DEF JobInv
<1>4. book \in [Domains -> Record \union {None}] /\ job[h].worker \in Workers
  BY <1>2 DEF IInv, KindInv, Content, memory, Job
<1>5. attached' = attached /\ \A e \in Domains \ {d} : book'[e] = book[e]
  BY <1>3, <1>4 DEF AddMissing, MarkUsed, MarkUnused
<1>6. \A e \in Domains \ {d} : Spared(e)
  BY <1>5 DEF Spared, Agrees
<1>7. ASSUME NEW e \in Domains, trust[e] # "disturbed", Here(e) \subseteq {h}
      PROVE  /\ h \in Here(e) => Sound(h, e)
             /\ trust[e] = "agree" => Agrees(e) \/ (h \in Here(e) /\ Pending(h, e))
  BY <1>7 DEF BookInv, TrustInv
<1>8. h \in Here(d)
  BY <1>2, <1>3 DEF Here, On
\* What is left to show of a domain where the job is alone.
<1> DEFINE Shown(e, good) ==
        /\ h \in Here(e)' => Sound(h, e)'
        /\ trust[e] = "agree" \/ e \in good
           => Agrees(e)' \/ (h \in Here(e)' /\ Pending(h, e)')
<1>9. ASSUME JobInv', \A g \in Handlers \ {h} : job'[g] = job[g],
             NEW good \in {{}, {d}}, Note({}, good),
             \A e \in Domains \ {d} : h \in Here(e)' => h \in Here(e),
             \A e \in Domains : trust[e] # "disturbed" /\ Here(e) \subseteq {h}
                                  /\ h \in Here(e) => Shown(e, good)
      PROVE  BookInv'
  <2>1. ASSUME NEW e \in Domains PROVE TrustInv(e)'
    <3>1. TrustInv(e)
      BY DEF BookInv
    <3>2. h \in Here(e)' => h \in Here(e)
      BY <1>8, <1>9
    <3>3. ASSUME h \notin Here(e) PROVE e \notin good /\ Spared(e)
      BY <1>6, <1>8, <1>9, <3>3
    <3>4. ASSUME h \in Here(e), trust[e] # "disturbed", Here(e) \subseteq {h}
          PROVE  Shown(e, good)
      BY <1>9, <3>4
    <3> QED BY <1>9, <3>1, <3>2, <3>3, <3>4, JobTrusts
  <2> QED BY <1>9, <2>1 DEF BookInv
\* An import has seen the worker on each of its domains; what it does to its
\* own is all it does.
<1>10. ASSUME NEW e \in Domains, h \in Here(e), trust[e] # "disturbed",
              Here(e) \subseteq {h}, e # d
       PROVE  /\ job[h].op = "import" /\ attached[e] = job[h].worker
              /\ trust[e] = "agree" => Agrees(e)'
  <2>1. job[h].op = "import"
    BY <1>3, <1>10 DEF Here, On
  <2> QED BY <1>6, <1>7, <1>10, <2>1 DEF Sound, Pending, Spared
\* The job goes over to its next domain, or ends.
<1>11. ASSUME Finish(h)
       PROVE  /\ JobInv' /\ \A g \in Handlers \ {h} : job'[g] = job[g]
              /\ \A e \in Domains : h \in Here(e)' =>
                     /\ h \in Here(e) /\ job[h].op = "import"
                     /\ attached[e] = job[h].worker => Sound(h, e)'
  <2>1. /\ JobInv' /\ \A g \in Handlers \ {h} : job'[g] = job[g]
        /\ \/ job'[h] = None
           \/ /\ job'[h].stage = "attached" /\ job[h].op = "import"
              /\ job'[h].op = "import" /\ job'[h].worker = job[h].worker
              /\ {job'[h].domain} \union job'[h].todo = job[h].todo
    BY <1>1, <1>2, <1>11, FinishMeans
  <2>2. ASSUME NEW e \in Domains, h \in Here(e)'
        PROVE  /\ h \in Here(e) /\ job[h].op = "import"
               /\ attached[e] = job[h].worker => Sound(h, e)'
    <3>1. job'[h] # None /\ e \in {job'[h].domain} \union job'[h].todo
      BY <2>2 DEF Here, On
    <3>2. h \in Here(e)
      BY <1>2, <2>1, <3>1 DEF Here, On
    <3> QED BY <1>5, <2>1, <3>1, <3>2 DEF Sound
  <2> QED BY <2>1, <2>2
\* The job stays on its domain.
<1>12. ASSUME Go(h, "recorded")
       PROVE  /\ JobInv' /\ \A g \in Handlers \ {h} : job'[g] = job[g]
              /\ job'[h] # None /\ job'[h].stage = "recorded"
              /\ job'[h].op = job[h].op /\ job'[h].worker = job[h].worker
              /\ job'[h].domain = d /\ job'[h].todo = job[h].todo
  <2>1. "recorded" \in Stages /\ job[h].stage # "found"
    BY <1>2 DEF Stages
  <2> QED BY <1>1, <1>2, <1>12, <2>1, GoMeans
<1>13. CASE AddMissing(h)
  <2> DEFINE k == IF job[h].category = None THEN "default" ELSE job[h].category
  <2>1. job[h].op \in {"bind", "import"} /\ job[h].stage = "missing" /\ Note({}, {})
    BY <1>13 DEF AddMissing, At
  <2>2. book'[d] # None /\ (book[d] # None => book'[d] = book[d])
    <3>1. k \in Categories
      BY <1>2, BookAssumption DEF Job
    <3>2. Unused(k) # None
      BY <3>1, BookAssumption DEF Unused, Record
    <3> HIDE DEF k
    <3>3. book' = IF book[d] = None THEN [book EXCEPT ![d] = Unused(k)] ELSE book
      BY <1>13 DEF AddMissing, k
    <3> QED BY <1>3, <1>4, <3>2, <3>3
  <2>3. ASSUME trust[d] # "disturbed", Here(d) \subseteq {h}
        PROVE  /\ attached[d] = job[h].worker
               /\ trust[d] = "agree" /\ job[h].op = "import" => Agrees(d)'
    <3>1. attached[d] = job[h].worker
      BY <1>3, <1>7, <1>8, <2>1, <2>3 DEF Sound
    <3>2. job[h].worker # None
      BY <1>4, BookAssumption
    <3>3. ASSUME trust[d] = "agree", job[h].op = "import" PROVE Agrees(d)'
      <4>1. Agrees(d)
        BY <1>3, <1>7, <2>3, <3>3 DEF Pending
      <4>2. book[d] # None
        BY <3>1, <3>2, <4>1 DEF Agrees
      <4> QED BY <1>5, <2>2, <4>1, <4>2 DEF Agrees
    <3> QED BY <3>1, <3>3
  <2>4. CASE Go(h, "recorded")
    <3>1. ASSUME NEW e \in Domains, trust[e] # "disturbed", Here(e) \subseteq {h},
                 h \in Here(e)
          PROVE  Shown(e, {})
      <4>1. CASE e = d
        <5>1. Sound(h, d)'
          BY <1>5, <1>12, <2>1, <2>2, <2>3, <2>4, <3>1, <4>1 DEF Sound
        <5>2. job[h].op = "bind" => h \in Here(d)' /\ Pending(h, d)'
          BY <1>12, <2>4 DEF Here, On, Pending
        <5> QED BY <2>1, <2>3, <3>1, <4>1, <5>1, <5>2
      <4>2. CASE e # d
        <5>1. /\ job[h].op = "import" /\ attached[e] = job[h].worker
              /\ trust[e] = "agree" => Agrees(e)'
          BY <1>10, <3>1, <4>2
        <5>2. Sound(h, e)'
          BY <1>5, <1>12, <2>4, <4>2, <5>1 DEF Sound
        <5> QED BY <5>1, <5>2
      <4> QED BY <4>1, <4>2
    <3>2. \A e \in Domains \ {d} : h \in Here(e)' => h \in Here(e)
      BY <1>2, <1>12, <2>4 DEF Here, On
    <3> QED BY <1>9, <1>12, <2>1, <2>4, <3>1, <3>2
  <2>5. CASE Finish(h) /\ job[h].op = "import"
    <3>1. ASSUME NEW e \in Domains, trust[e] # "disturbed", Here(e) \subseteq {h},
                 h \in Here(e)
          PROVE  Shown(e, {})
      <4>1. attached[e] = job[h].worker /\ (trust[e] = "agree" => Agrees(e)')
        BY <1>10, <2>3, <2>5, <3>1
      <4> QED BY <1>11, <2>5, <4>1
    <3> QED BY <1>9, <1>11, <2>1, <2>5, <3>1
  <2>6. Go(h, "recorded") \/ (Finish(h) /\ job[h].op = "import")
    BY <1>13, <2>1 DEF AddMissing
  <2> QED BY <2>4, <2>5, <2>6
<1>14. CASE MarkUsed(h) \/ MarkUnused(h)
  <2>1. Finish(h) /\ Note({}, {d})
    BY <1>14 DEF MarkUsed, MarkUnused
  <2>2. ASSUME trust[d] # "disturbed", Here(d) \subseteq {h} PROVE Agrees(d)'
    <3>1. Sound(h, d)
      BY <1>3, <1>7, <1>8, <2>2
    <3>2. CASE MarkUsed(h)
      <4>1. book[d] # None /\ attached[d] = job[h].worker
        BY <3>1, <3>2 DEF Sound, MarkUsed, At
      <4>2. book' = [book EXCEPT ![d] = Marked(book[d], job[h].worker)]
        BY <3>2, <4>1 DEF MarkUsed
      <4>3. book[d] \in Record
        BY <1>3, <1>4, <4>1
      <4>4. Marked(book[d], job[h].worker) \in Record
            /\ Marked(book[d], job[h].worker).worker = job[h].worker
        BY <1>4, <4>3 DEF Marked, Record
      <4>5. book'[d] = Marked(book[d], job[h].worker)
        BY <1>3, <1>4, <4>2
      <4>6. book'[d] # None /\ book'[d].worker = job[h].worker
        BY <4>4, <4>5, BookAssumption
      <4> QED BY <1>5, <1>3, <4>1, <4>6 DEF Agrees
    <3>3. CASE MarkUnused(h)
      <4>1. attached[d] = None
        BY <3>1, <3>3 DEF Sound, MarkUnused, At
      <4>2. CASE book[d] = None
        BY <1>5, <3>3, <4>1, <4>2 DEF MarkUnused, Agrees
      <4>3. CASE book[d] # None
        <5>1. book[d] \in Record
          BY <1>3, <1>4, <4>3
        <5>2. book'[d] = WithStatus(book[d], "unused")
          BY <1>3, <1>4, <3>3, <4>3 DEF MarkUnused
        <5>3. book'[d].worker = None
          BY <5>1, <5>2 DEF WithStatus, Record
        <5> QED BY <1>5, <4>1, <5>3 DEF Agrees
      <4> QED BY <4>2, <4>3
    <3> QED BY <1>14, <3>2, <3>3
  <2>3. ASSUME NEW e \in Domains, trust[e] # "disturbed", Here(e) \subseteq {h},
               h \in Here(e)
        PROVE  Shown(e, {d})
    <3>1. ASSUME h \in Here(e)' PROVE Sound(h, e)'
      <4>1. job[h].op = "import"
        BY <1>11, <2>1, <3>1
      <4>2. attached[e] = job[h].worker
        BY <1>7, <2>3, <4>1 DEF Sound
      <4> QED BY <1>11, <2>1, <3>1, <4>2
    <3>2. ASSUME trust[e] = "agree" \/ e = d PROVE Agrees(e)'
      BY <1>10, <2>2, <2>3, <3>2
    <3> QED BY <3>1, <3>2
  <2> QED BY <1>9, <1>11, <2>1, <2>3
<1> QED BY <1>13, <1>14
-----------------------------------------------------------------------------
LEMMA BookInit == Init => BookInv
<1> SUFFICES ASSUME Init PROVE BookInv
  OBVIOUS
<1>1. \A h \in Handlers : job[h] = None
  BY DEF Init
<1>2. JobInv
  BY <1>1 DEF JobInv
<1>3. ASSUME NEW d \in Domains PROVE TrustInv(d)
  <2>1. Here(d) = {}
    BY <1>1 DEF Here, On
  <2>2. book[d] = None /\ trust[d] = IF attached[d] = None THEN "agree" ELSE "unknown"
    BY DEF Init
  <2>3. trust[d] = "agree" => Agrees(d)
    BY <2>2 DEF Agrees
  <2> QED BY <2>1, <2>3 DEF TrustInv
<1> QED BY <1>2, <1>3 DEF BookInv

LEMMA BookNext == IInv /\ RestInv /\ BookInv /\ [Next]_vars => BookInv'
<1> SUFFICES ASSUME IInv, RestInv, BookInv, [Next]_vars PROVE BookInv'
  OBVIOUS
<1>1. CASE StoreCommand
  BY <1>1, CommandsTrust
<1>2. ASSUME NEW h \in Handlers, Begin(h) PROVE BookInv'
  BY <1>2, BeginTrusts
<1>3. ASSUME NEW h \in Handlers, Continue(h) PROVE BookInv'
  BY <1>3, LooksTrust, ChangesTrust, RecordsTrust DEF Continue
<1>4. ASSUME NEW d \in Domains, NEW w \in Workers \union {None}, Outside(d, w)
      PROVE  BookInv'
  BY <1>4, OutsideTrusts
<1>5. CASE Restart
  BY <1>5, RestartTrusts
<1>6. CASE UNCHANGED vars
  BY <1>6 DEF vars, BookInv, JobInv, TrustInv, Here, On, Sound, Pending, Agrees
<1> QED BY <1>1, <1>2, <1>3, <1>4, <1>5, <1>6 DEF Next

LEMMA BookInvAlways == Spec => []BookInv
BY BookInit, BookNext, KindsAlways, PTL DEF Spec

\* A domain that one job after another was alone on leads to the worker that
\* its record names, whatever becomes of the jobs on other domains, failed
\* saves, restarts and changes elsewhere.
THEOREM BookAgreesAlways == Spec => []BookAgrees
<1>1. BookInv => BookAgrees
  BY DEF BookInv, TrustInv, BookAgrees, Agrees, Here
<1> QED BY <1>1, BookInvAlways, PTL

\* A bind without force takes no domain from another worker, unless something
\* happened to the domain after the bind looked at Cloudflare.
THEOREM RepointNeedsForceAlways == Spec => RepointNeedsForce
<1> DEFINE Repoints(h) ==
        Attach(h) \/ (AnswerLost(h) /\ job[h].op = "bind") =>
            \/ attached[job[h].domain] \in {None, job[h].worker}
            \/ job[h].force
            \/ trust[job[h].domain] = "disturbed"
<1>1. ASSUME BookInv, NEW h \in Handlers PROVE Repoints(h)
  <2> SUFFICES ASSUME Attach(h) \/ (AnswerLost(h) /\ job[h].op = "bind"),
                      trust[job[h].domain] # "disturbed", ~job[h].force
               PROVE  attached[job[h].domain] \in {None, job[h].worker}
    OBVIOUS
  <2>1. job[h] # None /\ job[h].op = "bind" /\ job[h].stage = "clear"
    BY DEF Attach, AnswerLost, At
  <2>2. job[h].domain \in Domains
    BY <1>1, <2>1 DEF BookInv, JobInv
  <2>3. h \in Here(job[h].domain)
    BY <2>1 DEF Here, On
  <2>4. Sound(h, job[h].domain)
    BY <1>1, <2>2, <2>3 DEF BookInv, TrustInv
  <2> QED BY <2>1, <2>4 DEF Sound
<1>2. BookInv => [\A h \in Handlers : Repoints(h)]_vars
  BY <1>1
<1> QED BY <1>2, BookInvAlways, PTL DEF RepointNeedsForce
=============================================================================
