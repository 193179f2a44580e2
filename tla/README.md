# MagiBox: a TLA+ development

MagiBox is a Telegram bot written in Go: an HTTP playground with scheduled
health checks, a collector that bundles chat messages into a link, a manager of
Cloudflare domains, and a plugin that binds Telegram users to identities of an
ERP's OpenID Connect provider and maps the provider's permissions to the bot's.
This directory holds TLA+ models of it, the TLC configurations that check them
on small instances, and TLAPS proofs of what holds for every instance.

Five subsystems are modelled. The account plugin (`internal/plugins/account`)
comes first: a mistake costs most there (a lost refresh token ends a user's
account, a permission that survives its denial opens the bot), and files, crashes,
goroutines, clocks and a remote party that rotates credentials meet in it. Then
roles and permissions (`internal/auth`), the playground's scheduled checks and
their alerts (`internal/playground`), the commands that come and go with its groups
and the menu at Telegram (`pkg/plugin/dynamic.go`), and the record book of
Cloudflare domains (`internal/cloudflare`).

## 1. Inventory

Every goroutine lives in one process. Telegram handlers each run in a goroutine
of their own, HTTP handlers too, and cron starts each job in a goroutine. State
is kept in package-level stores guarded by mutexes and mirrored in JSON files.

| Component | State | Operations | Who calls it | What is hard | What makes it correct |
|---|---|---|---|---|---|
| **Account binding store** `account/store.go` | bindings, main file, write-ahead file with one slot | `newBindingStore`, `putBinding`, `remove`, `recordRefreshFailure`, `due`, `binding` | account service | crashes between file operations, each file operation failing alone, an old write-ahead file | one identity per user; an unbind is final; the newest token is recoverable; permissions only for the bound |
| **Account login flow** `account/store.go` | tickets, transactions, same main file | `issueTicket`, `lookupTicket`, `beginFromTicket`, `consumeTransaction` | account service | failing saves and their undo, expiry, restarts, late clocks | links and logins are used once; a login is in one stage; it ends within its window |
| **Per-user lock** `account/service.go` | map of reference-counted mutexes | `lockUser` and the function it returns | account service | deletion from the map racing a lookup | mutual exclusion per user; no leak; no starvation |
| **Refresh schedule** `account/store.go`, `service.go`, `internal/auth` | when an account is next refreshed, when its access and its permissions end | `due`, `refreshDue`, the instants set by `putBinding`, `recordRefreshFailure`, `ReplaceFederatedPermissions` | cron every minute | instants that move in memory, two files and package auth, not all at once; sweeps that are skipped | permissions end with the access; one failure costs none; no account stops being scheduled |
| **Account service** `account/service.go` | sweep mutex, the user locks, a grant or a token in hand | `complete`, `refreshDue`, `refreshNow`, `refreshOne`, `unbind`, `revokeUnstoredGrant` | Telegram handlers, HTTP callback, cron every minute | token rotation with lost answers; sweeps working from copies; unbind against a refresh in flight | a live token is never lost by our own doing; unbind wins; no stray live tokens; denials take effect |
| **OIDC client** `account/client.go` | none (discovery, keys) | `exchange`, `refresh`, `revoke` | account service | several requests behind one call, of which a later one fails | the caller learns what the provider did |
| **Account plugin** `account/plugin.go`, `cookie.go` | login cookie | `/account bind, status, refresh, unbind`; `/auth/oidc/*` | Telegram, browsers | - | answers agree with what happened |
| **Token cipher** `account/crypto.go` | key | `seal`, `open` | store | - | - |
| **Authorization store** `internal/auth` | roles, explicit permissions, federated permissions with their expiry, pairing code | `Bind`, `SetRole`, `GrantPermissions`, `RevokePermissions`, `ReplaceFederatedPermissions`, `HasPermission` | all plugins | memory changed before a save that fails; expiry | one owner by pairing; a failed revocation is not half in force; no permission outlives its expiry |
| **perm and bind plugins** | none | `/promote`, `/demote`, `/permission`, `/bind` | Telegram | check and act in two calls | an owner is never demoted |
| **Playground store and scheduler** `internal/playground` | groups, cron entries, alert states, variables | `Set`, `Delete`, `SetSchedule`, `SetAsserts`, `runCheck`, `classify` | playground plugin, cron | a check in flight over a change or a deletion; overlapping checks | alert and recovery alternate; a deleted group alerts no more |
| **Playground plugin and dynamic commands** `plugins/playground`, `pkg/plugin/dynamic.go`, `app.go` | table of dynamic commands, handlers of the bot, menu at Telegram | `/pg new`, `/pg del`, `AddDynamic`, `RemoveDynamic`, `refreshMenu`, `Setup` | Telegram | group, table, handler and menu change in separate steps; menus pushed out of order | a group answers to its command; no command in the menu is without a handler; the menu ends up being the commands there are |
| **Bundle store and server** `internal/bundle` | collecting and finished bundles, media files | `Start`, `Add`, `AddMedia`, `End`, `Cancel` | Telegram, browsers | media that arrives after its collection; a save that fails silently | a message belongs to the collection it was sent in; a link handed out stays valid |
| **Cloudflare domain book** `internal/cloudflare` | credentials, workers, domain records | `BindDomain`, `UnbindDomain`, `MutateDomain`, import | Telegram | the book and Cloudflare change in separate steps; two binds pick one domain | book and Cloudflare agree when all is quiet and nothing failed |
| **Startup** `pkg/magibox`, `internal/config` | - | `Run` | - | - | - |
| echo, ping, preview | none | - | - | - | - |

How the parts of the account plugin interact:

    /account bind ──> issueTicket ─ link ─> confirmation page (lookupTicket)
                                              │ POST
                                              v
                      beginFromTicket ─ redirect ─> provider
                                              │ callback
                                              v
      consumeTransaction ─> complete: lockUser, client.exchange, putBinding
    cron @every 1m ──> refreshDue: TryLock, due(), workers: lockUser, refreshOne
    /account refresh ─> refreshNow: lockUser, refreshOne
    /account unbind ──> unbind: lockUser, remove, client.revoke
                         putBinding, remove, recordRefreshFailure
                           └─> main file, write-ahead file, package auth

The others stand by themselves, but that `/pg` changes groups and commands:

    /bind ──────────────────────────> auth.Bind ──────────┐
    /promote, /demote ──> RequireOwner ─> GetRole ─> SetRole ├─> memory, then file
    /permission ────────> RequireOwner ─> Grant, Revoke ──┘
    /pg new, del, sched, assert ──> Store ──> file, cron entries
    cron ──> runCheck: Get, Execute, EvalAsserts, classify ──> notify (Telegram)
    /pg new, del ──> Store ─> AddDynamic or RemoveDynamic ─> b.Handle ─> refreshMenu ─> Telegram
    /cf bind ──> GetWorker, NextUnused, conflict?, attach ─> GetDomain, AddDomain, MutateDomain
    /cf unbind ──> lookups, find attachment, detach ──> MutateDomain
    /cf worker import ──> list attachments ──> per domain: AddDomain, MutateDomain

`PROJECT.json` lists the components again with their status, and under
`hazards` each place in the code that is hard to test, with the properties that
watch over it or the reason why none does.

## 2. Modules

| Module | Models | Role |
|---|---|---|
| `BindingStore` | `store.go`, bindings and files | one action per file operation |
| `BindingRegistry` | what the store promises | abstract specification: atomic `Bind`, `Deny`, `Unbind`; a crash changes nothing |
| `LoginFlow` | `store.go`, tickets and transactions | one action per operation |
| `UserLock` | `lockUser` in `service.go` | one action per visit to the map or the mutex |
| `AccountService` | `service.go` over the three above and an external provider | one action per operation of the store or request to the provider |
| `AuthStore` | `internal/auth/auth.go`, plugins `bind` and `perm` | operations of the store; commands as handlers that check and then act |
| `Playground` | `internal/playground`: groups, cron entries, checks, alerts | one action per command and per step of a check |
| `RefreshSchedule` | when `store.go` and `service.go` refresh an account and how long `internal/auth` keeps its permissions | one action per operation of the store, step of a sweep and unit of time |
| `DynamicCommands` | `pkg/plugin/dynamic.go`, `Setup`, `/pg new` and `/pg del` over an external Telegram | one action per visit to a lock, the bot or Telegram |
| `DomainBook` | `internal/cloudflare` over an external Cloudflare | one action per operation of the store and per step of a bind, unbind or import |
| `MC*` | - | users, identities and symmetry sets for TLC |
| `BindingStoreProofs`, `LoginFlowProofs`, `AccountServiceProofs` (with `UserLock`), `AuthStoreProofs`, `PlaygroundProofs`, `DomainBookProofs`, `RefreshScheduleProofs`, `DynamicCommandsProofs` | - | theorems |

### BindingStore

`bindings` is the map in memory, `main` what the main file holds, `wal` the
write-ahead file, `federated` the permissions package `auth` holds for the
provider. The store's mutex is held through an operation, so that at most one is
in progress: `pc` says what its holder does next and `arg` for which user and
binding. An action is the code between two effects on a file. `putBinding`, for
instance, is `PutWriteWAL` (memory and write-ahead file), `PutSave`,
`PutClearWAL` (which also hands the permissions to `auth`), with a failing
variant of each, and `PutWALFails`, `PutFallbackSave` and `PutFallbackSaveFails`
for the branch without a write-ahead file. The main file is written to a
temporary file and renamed, and so is atomic: `main' = bindings`. `Crash` drops
the memory at any `pc`; `Load`, or `LoadAndApplyWAL`, `ReplaySave` and
`ReplayClearWAL`, are the next start. `Load` is guarded by the check that makes
the real `load` refuse a file with one identity bound twice; that the guard
never fails is `StartupNeverRefused`, a part of `IdentityUnique`.

Two variables are history. `acked` is the state the last acknowledged operation
of a user promised, or `Unsettled` from the moment an operation starts changing the
memory until it succeeds. `newest` is the token that a user's last put was handed,
the only one the provider still accepts. `AtRisk` names the users whose `newest` is,
for a moment, where a crash would lose it: after a failure, that of a put or remove
which can no longer fall back on the write-ahead file and has not saved yet. A crash
at that moment gives the token up (`newest' = 0`); nothing else does but an unbind.

### LoginFlow

A save is the last effect of an operation of the login, so that one action is
one operation, with a second action for the failing save and its undo. `disk` is
the file. The caller reads the clock before it waits for the store's mutex: an
operation sees a time `t` up to `MaxLag` behind `clock`. `Live` is `cleanup`.
`begun`, `consumed`, `issuedAt` and `dropped` are history variables; `dropped` has
the logins that an operation whose save failed took out of memory all the same (a
superseded ticket, a transaction that cannot be opened), until the next save or
start makes memory and file one again. A transaction carries
`readable`: a restart with another encryption key leaves it on disk but unable
to be opened.

### UserLock

Locks are objects that may be allocated again once nobody refers to them, so
that "the same lock" and "the lock of the same user" can differ: that is the
hazard. `Callers` are the goroutines, `Accounts` the users they ask for, and `step`
is where each of them is. `Find` and `Create` are the first visit to the map, `Acquire` and
`Release` the user's mutex, `Leave` the second visit.

### AccountService

Each operation of the store is one action here, with the outcomes
`BindingStore` allows it: `Store` succeeded, `StoreFails` left a write-ahead
binding with or without the main file saved, or nothing at all on disk. `book`
is the memory; `main` and `wal` are what a restart finds (`Recovered`). The
lock of a user is taken in one action (`Lock`), which `UserLock` justifies: its
`LockGuard` is the guard of `Lock`, and `MutualExclusion` and `EveryWaiterServed`
say what follows from it; it is held exactly while `pc` is
neither `idle` nor `waiting`.

The provider is external. `owner[t]` is the identity the live token `t` stands
for; `Rotate` retires one token for another. A refresh is one action at the
moment the provider acts on it, and `job` carries the answer until the goroutine
handles it. `Granted`, `GrantedUnrotated`, `Refused`, `RefusedAfterRotation`,
`RefreshFails` and `RefreshLost` are the outcomes `client.refresh` can return,
told apart by what the provider has done by then.

`happened` is a history variable that names the mishaps which part the service
and the provider: `"lost"` (the provider rotated and the answer was lost, or the
process restarted), `"dropped"` (access was refused after the rotation),
`"stray"` (a second login of a bound user, a login that failed after the token
was issued, or a failed revocation). A property about tokens says which mishaps
it tolerates; the cfg chooses those that can occur.

### RefreshSchedule

The instants of one account: `access` and `next` of the binding in memory
(`item`) and in the two files, and `grant`, the end of its permissions in package
`auth`. Each is kept as the time that is left until it, so that `Elapse` counts all
of them down and no clock has to be bounded. `cronIn` is the time until cron fires;
a sweep is `"pending"` until a worker comes to the account and `"others"` while it
is busy with other accounts, for at most `SweepTime`. A sweep that finds another
running is `SweepSkipped`. `Put` has the outcomes of `putBinding` that
`BindingStore` shows one by one: stored, stored without a write-ahead file, left in
the write-ahead file only (then package `auth` is not told, and keeps the end of
the access before), not stored at all. `RecordDenial` clears permissions and the
end of the access. A `Crash` leaves the files, whose instants go on counting until
`Start`. The rest is history: `word` is how long the provider's last word lets
permissions last, `current` which of the memory, the two files and package `auth`
hold nothing older than that word, `given` the longest that a word which one of them
may still hold does, `quiet` how long a denied account is to be left in peace, and
`setbacks` how many refreshes failed or sweeps were skipped in a row.

### AuthStore

`roles`, `permissions` and `federated` are the maps in memory, `disk` the file,
`code` whether a pairing code is open. An operation of the store holds its mutex
and is one action; it changes the memory first and replaces the file after that,
so that a failed save (`SaveFails`) leaves a change in memory which the next save
that succeeds writes. A command is a handler with a stage: `Receive`, `Authorize`
(the middleware's look at the sender's role), `CheckTarget` (the look of
`/promote` and `/demote` at the target's), then `SetRole` or `SetPermission`; any
other action may come between two of them. `told` is a history variable: per
permission, what the last answer said of it. A `Restart` may come at any moment.

### Playground

`groups` is the map in memory and `file` its copy, `entries` the entries that the
store knows and `cron` how many there really are per name, `states` the debounce
states. A check is a goroutine that was `Fire`d, has `Load`ed a copy of its group,
has `Observe`d the endpoint and is `Classify`ed under the mutex; a notice is
delivered or lost outside of it. The commands change the group meanwhile, delete
it, or create another of the same name. A threshold of 0 is one never set, which
alerts at the first failure. The counter of failures saturates at the bound of
thresholds, above which the code does not tell counts apart. `notice` is a history
variable: `"sure"` while each change of a state has been told by a notice that was
on its way alone, `"mixed"` while several are on their way, `"unsure"` afterwards
and when a notice was lost or a state dropped, until the next one delivered alone.

### DynamicCommands

`groups` and `file` are the playground's groups, `base` the menu frozen in
`Setup`, `dynamic` the table of dynamic commands, `handled` what the bot runs for a
name, `menu` what Telegram shows. `Setup` is `Install`, `Wire` and `InitialPush`,
before which no handler runs. `/pg new` is `Create`, `AddDynamic` (or `AddRefused`
for the name of a plugin's command), `Handle`, `ReadMenu` and `PushArrives`;
`/pg del` is `Delete`, `RemoveDynamic`, `ReadMenu` and `PushArrives`; telebot cannot
take a handler back, and neither does the code. A handler is between two of them
while its `job` has a stage, and a push carries the menu that was read for it.
`trust` and `told` are history variables: which names had commands that overlapped
or failed to save, and whether the last push that arrived was the only one on its
way.

### DomainBook

`creds`, `workers` and `book` are the maps in memory, `file` the copy on disk,
`attached` what Cloudflare does. A bind, an unbind or an import is a `job` in a
handler, with the worker, credential and domain it has looked up and a stage:
`found`, `chosen`, `clear` (no conflict), `attached` or `deleted`, `missing` or
`recorded`. Between two stages other handlers and commands act. Cloudflare is
external: `Attach` and `Detach` are its changes, `AnswerLost` is a change whose
answer does not arrive, and `Outside` any change that the bot did not ask for (the
dashboard, or a request that arrives after its deadline). `trust` is a history
variable: `"agree"` for a domain on which the last job was alone from its first
look to its last note with nothing from outside, `"disturbed"` while a job is not,
`"unknown"` afterwards and after a change by hand.

## 3. Runs

| Run | Instance | Checks |
|---|---|---|
| `store_faulty` | 2 users, 2 identities, 3 tokens, 2 faults | `IdentityUnique`, `RemovedStaysRemoved`, `GrantsNeedBinding`, `RotatedTokenRecoverable`; `AckedDurable` and `ImplementsRegistry`, which hold until the first fault |
| `store_denial` | 2 tokens, 1 fault | `DenialSurvivesRestart`, violated |
| `login_flow` | 2 users, 3 logins, time to 5, lag 1, 1 fault | `SpentStaysSpent`, `LoginInOneStage`, `OneTicketPerUser`, `FileAgrees`, `LoginWindow` |
| `user_lock` | 3 goroutines, 2 users, 3 locks | `MutualExclusion`, `NoLeak`, `EveryWaiterServed` |
| `account_service` | 1 user, 2 identities, a handler and a worker, 3 tokens, 1 fault, 1 restart, `lost` and `stray` | `TypeOK`, `RefreshKeepsBinding`, `TokenStaysLive`, `UnbindWins`, `NoStrayToken` |
| `account_liveness` | 1 identity, 2 tokens, 1 fault, `dropped` | `DenialTakesEffect`, `WorkEnds` |
| `account_denial` | 1 identity, 3 tokens, `dropped` | `DenialKeepsToken`, violated |
| `refresh_schedule` | a minute of 2, `refreshAhead` 6, interval 10, accesses of 8 or 18, sweeps of up to 2, 1 fault, 1 restart | `PermissionBounded`, `OneFailureForgiven`, `DenialHeeded`, `StaysScheduled` |
| `auth_store` | 2 chats, 1 permission, 2 handlers, 2 failed saves | `OneOwner`, `ActsForOwner`, `OwnerStays`, `AnswersHold` |
| `playground` | 1 group, 2 checks, thresholds to 2, 2 commands, 2 changes of the endpoint, 1 fault | `TypeOK`, `OneEntry`, `AlertsAgree`, `AlertFollows` |
| `dynamic_commands` | 1 plugin's command, 2 names fit for a command, 1 unfit, 2 handlers, 1 fault, 1 restart | `CommandsAnswered`, `MenuAnswered`, `MenuAgrees` |
| `domain_book` | 1 credential, 2 workers, 1 domain, 2 handlers, 2 commands, 1 fault | `TypeOK`, `StoreConsistent`, `BookAgrees`, `RepointNeedsForce` |

Where a run does not check its module's `TypeOK`, a theorem does.

What the bounds are for:

- Two users and two identities are what an identity conflict needs. Two faults
  are what a stale write-ahead binding needs: one failed save leaves it, another
  failure makes something go on without it. Three tokens let one user hold a
  token, its predecessor lie in a file and a third be issued. The theorems below
  hold for any number of all of them.
- `RotatedTokenRecoverable` looks at every point of every operation and after every
  crash, and is stated for at most one failed file operation: with
  two, the only copy of a rotated token may have been
  in the write-ahead slot that another user's put took over. It gives up the tokens
  that `AtRisk` names when the process dies: see below.
- Three logins let one ticket supersede another and a third follow a restart. A
  time of 5 lets a ticket (2) and a transaction (2) expire with the lag (1) on
  top. The code's lifetimes are equal too, 10 minutes each.
- Three goroutines and two users let a lock be deleted while one waits and a
  third creates another. Three locks are as many as goroutines can refer to.
- One handler and one worker on one user are the contention the service's lock
  has to solve; `UserLock` covers more of them. Two identities let a user unbind
  one and bind another while an older copy of a sweep waits.
- `account_liveness` has no restarts, for a process that keeps restarting
  promises nothing, and one fault, for a disk that fails for ever never saves a
  denial.
- In `auth_store`, two chats are a sender and a target, or an owner and one who
  pairs; two handlers let a second command come between the check and the act of
  the first. Two failed saves let a pairing and another change be in memory only.
- In `refresh_schedule`, a unit is half a minute, and cron's minute, `refreshAhead`
  (3 minutes) and `permissionSyncInterval` (5 minutes) are the code's. An access of 8
  ends before the refresh that the interval would ask for and is renewed by
  `refreshAhead`; one of 18 outlasts it. A sweep may take a whole minute, so that
  the next one is skipped. Within `refreshAhead` two setbacks in a row leave no time:
  `OneFailureForgiven` tolerates one, and `Tolerated` is where counting stops.
  Nothing else bounds the time.
- In `dynamic_commands`, two handlers let two menus overtake each other and one
  name be created under another's deletion. Two fit names are what makes an
  overtaken menu differ from the right one in more than the name in hand; the
  plugin's command and the unfit name are the two ways in which a group gets no
  command. `AddRefused` is the only case in which they differ from each other.
- In `playground`, two checks overlap, and with a threshold of 2 both may have
  to count a failure before an alert begins. Two commands delete a group
  under a check and create it again. Groups share nothing but the mutex, the file
  and the cron, so that one is enough for alerts; `OneEntry` is proved for all.
- In `domain_book`, two workers contend for a domain through two handlers, and a
  third party comes in once. Records of different domains depend on each other
  only through `NextUnused` and the list of an import, which one domain exercises
  little: the four properties are proved for any number of domains.

Deadlock is checked in every run but `playground`, where a system with no
schedule has nothing to do once the bounds are used up.

**Fairness.** `UserLock`: a holder goes on (its requests to the provider have a
deadline of 15 seconds, and the store does not wait for anybody while it holds
its mutex), and a Go mutex hands over to a goroutine that has waited for a
millisecond (strong fairness of `Acquire`). `AccountService`: cron starts a sweep
every minute, refresh times come, workers take the items of the sweep, goroutines
go on, and waiters get their lock. `RefreshSchedule`: time goes on, cron fires when
it is time, a sweep's workers go on, and a process that died is started again;
`StaysScheduled` needs no more, and no fairness of commands. In `AccountService`,
one assumption is about the environment: a
provider that is asked again and again decides in the end (`SF` of `Decided`);
`DenialTakesEffect` could not hold without it. No fairness is assumed of
commands, mishaps or access changes. `Playground`: the cron fires every entry again
and again (strong fairness of `Fire`, for an entry may have to wait until one of
the instance's goroutines is free, while the program starts a new one each time),
and a check goes on to its end (its request has a deadline of 20 seconds, and
`notify` comes back with or without success). No fairness is assumed of commands or
of the endpoint.

**Violated properties.** Two runs show that the code does not do what its
tests, comments or answers say; `findings` in `PROJECT.json` has the quotations.

- `store_denial`. A put whose save fails leaves its write-ahead binding behind,
  on purpose. A denial then saves the main file but leaves the write-ahead
  binding, which the next start lays over it, permissions and all.
- `account_denial`. The provider rotates the token and then says, on
  introspection of the new access token, that access is refused. The grant is
  dropped with its new refresh token, and the binding is kept with the dead one:
  the later refreshes it is kept for are all rejected.

**Known, and set aside by a property's precondition.** Reading and checking the
modules showed behaviour that the properties above allow on purpose:

- A leftover write-ahead binding, followed by a put that cannot write the
  write-ahead file and falls back to the main file (`account/store.go:331`): the
  put reports success, and the next start brings the older, retired token back,
  although the branch is there to keep the new one ("prefer an atomic main-store
  write", `store.go:319`).
  It takes two failures; `RotatedTokenRecoverable` speaks of one, and
  `AckedDurable` of none.
- One failed file operation and a crash can lose a token. A put whose save fails
  leaves its token in the write-ahead file alone; the next put of another user
  overwrites that slot (`account/store.go:544`) and is safe only once its save is
  done. A put that could not write the write-ahead file, or a remove that has
  cleared it, has the token in memory alone until its save. A process that dies in
  between starts again with the token before. `AtRisk` names these moments, and
  `RotatedTokenRecoverable` demands that there are no others.
- A put that ends in the write-ahead file returns before package `auth` is told
  (`account/store.go:335-338`). The permissions there keep the end of the access
  before: they may lapse until the next refresh, which `OneFailureForgiven` counts as
  more than one setback, or outlast a grant that is shorter or has no permissions,
  until the next refresh or start. `PermissionBounded` bounds them by `given` then
  and by `word` otherwise. The same goes for a start from a file that is older
  than the provider's last word (`store_denial` shows one).
- A failed save of `issueTicket` leaves the superseded link in the file, and a
  restart makes it work again. `FileAgrees` allows this for `dropped` logins only.
- Menus may overtake each other (`pkg/plugin/dynamic.go:77`): Telegram is left with
  the older one until the next change of a command. `MenuAgrees` excuses a push
  that was not alone on its way.
- When one administrator deletes a group while another creates it again, the
  table of commands may be left without it, or with a command and no group.
  `MenuAgrees` excuses names whose commands overlapped. A creation whose save
  failed leaves the group in memory without a command; `CommandsAnswered` excuses
  that name until its next command.
- `/pg new ping` answers "可直接 /ping 执行" (may be run as `/ping`) although
  `AddDynamic` refused the name, which is only logged. `CommandsAnswered` shows
  that `/ping` stays the plugin's.
- A bind without force can re-point a hostname (`cloudflare/service.go:85-87` says
  that it refuses): two binds both look for a conflict before either attaches, for
  instance two without a domain that pick the same unused one (`service.go:100`).
  `RepointNeedsForce` and `BookAgrees` excuse a domain that is `"disturbed"`.
- Notices of overlapping checks may overtake each other, for they are sent outside
  the mutex (`playground/scheduler.go:168`): the administrators may be left with
  "fails" for a group that works, until its next failure. `AlertsAgree` excuses
  notices that are on their way together.
- A restart drops the debounce states, and clearing the assertions of an alerting
  group freezes its state: in both cases the recovery is never announced.
- A check in flight brings back the state of a group that was deleted, and a new
  group of that name begins with it. `AlertFollows` shows that it does not stay
  wrong while the group is watched and its endpoint does not change.
- A failed revocation of a permission is in force in memory although the answer
  says that the command failed. `AnswersHold` speaks of the answers that claim
  success.

## 4. Theorems

`BindingStoreProofs` proves of `BindingStore`, for every set of users, identities
and permissions and any number of tokens and faults: `TypeCorrect`,
`IdentityUniqueAlways`, `RemovedStaysRemovedAlways`, `GrantsNeedBindingAlways`,
`AckedDurableAlways`, the refinement `ImplementsRegistryAlways` and
`RotatedTokenRecoverableAlways`. The first four rest on one inductive invariant,

    IInv == TypeOK /\ ArgOK /\ PendingInv /\ FilesInv
                   /\ IdentityInv /\ RemovedInv /\ GrantsInv

- `Held` is the memory, with the binding that a remove in progress has taken out
  and puts back when its save fails. Most of the invariant is about it.
- `ArgOK` and `PendingInv`: an operation in progress knows its user; a put has its
  binding in memory already; a remove has cleared what could restore its user.
- `FilesInv`: while the process is up, neither the main file nor what a restart
  would find holds a user, or an identity of a user, that `Held` does not.
  Uniqueness of identities is not inductive without it: memory, main file and
  overlay change at different steps, and a put that looks for its identity in
  memory only would otherwise meet one that only a file knows.
- `IdentityInv`, `RemovedInv` and `GrantsInv` are the properties, stated of the
  main file, the overlay and `Held` instead of the memory alone.
- For the next two there is a second one, `Faultless == faults = 0 => CleanInv /\
  DurableInv`. `CleanInv` says where each operation has left which of its files as
  long as none has failed; `DurableInv` that what was promised is what a restart
  would find. The refinement maps the registry's bindings to what a restart would
  find: each step of the store changes it as one atomic operation of the registry
  does or leaves it alone, and a crash leaves it alone.
- For the last one, `OneFaultInv` goes on from there to the one failure it allows.
  `MemoryKeeps`: `Held` has the newest tokens. `FilesKeep`: so has what a restart
  would find, but for the users `AtRisk` names. `SavesInv`: a put or a replay has
  them in the main file before it gives up the write-ahead file, and a put whose
  write-ahead file failed has no older one that would hide its save. The one failure
  is the first, so that `CleanInv` says where it finds the files.

The assumptions are `BoundsAssumption` (the bounds are natural numbers) and
`SentinelAssumption` (the values that stand for "nothing" are no bindings).

`AccountServiceProofs` is about `UserLock` and about the service that takes this
lock. Of the lock it proves, for any number of goroutines, users and locks:
`LockTypeCorrect`, `MutualExclusionAlways`, `OneLockPerUserAlways`, `NoLeakAlways`
and `LockGuardAlways`. The inductive invariant, `LockIInv`, says that the reference
count of a lock is the number of goroutines whose `entry` it is (`RefsInv`), that
the map and the entries agree and no two users share a lock (`OneLockPerUser`,
`LocksInv`), that a lock in the map is in use (`UsedInv`), and that a mutex is held
by the goroutine that says so (`HolderInv`). The count is the heart of it: a lock
leaves the map only when it drops to zero, and then no goroutine is left that could
wait for it. Goroutines are assumed finite, and `Nil` is none of the others. The
action property `LockGuard` is the link to the service: whoever is handed the mutex
of a user gets it when nobody holds that user, which is what `Lock` of
`AccountService` asks before it goes on.

Of the service it proves, for any users, identities, tokens, goroutines, faults and
crashes, `ServiceTypeCorrect`, `RefreshKeepsBindingAlways`, `UnbindWinsAlways`,
`TokenStaysLiveAlways`, `NoStrayTokenAlways` and `OneAtATime`. None of the properties
is inductive; `ServiceInv` joins to them

- `JobInv`: what a goroutine knows at each point of its operation (a refresh has
  found its item, a grant has a token, an unbind has what it removed);
- `OneHolder`: at most one goroutine works for a user;
- `UnbindInv`: an unbound user is in none of the places a restart reads, and stays
  in `unbound` until a login is stored. That a
  restart would not find the user (`Recovered`) is too weak: the main file could
  still hold a binding which a later write-ahead file no longer hides. That a refresh
  does not store its grant over an unbound user is `RefreshKeepsBinding`: it finds
  its binding in memory, and holds the user's lock until it has stored;
- `RotatedInv`: while a refresh has a new token in hand, the token it presented is
  still the stored one, or lives no more;
- `LiveInv`, as long as nothing but a stray token has `happened`. `Apart` says that
  no two users are bound to one identity, and that bindings and goroutines hold
  different tokens, except a goroutine that works on the binding its token is in.
  `GrantsLive` says that a granted token lives until it is stored, and `Unsaved`
  that a token to be revoked, or a login's that is to be stored, is in no binding;
  otherwise a revocation could take another user's token. `BookLive` is
  `TokenStaysLive` with the exception it has in the middle of a refresh, where the
  goroutine that works on the account holds the successor;
- `StrayInv`, as long as nothing has happened: each live token is in a binding or in
  the hands of a goroutine, which is `NoStrayToken` before all is quiet.

A step of one goroutine has to leave the others' parts of these alone, and it is
`OneHolder` and `Apart` that make it do so. The only assumption is
`ServiceAssumption`. `TokenStaysLive` and `NoStrayToken` say nothing once a mishap
they name has happened; `RefreshKeepsBinding`, `UnbindWins` and `OneAtATime` have no
such condition.

`AuthStoreProofs` proves of `AuthStore`, for any number of chats, permissions,
handlers and failed saves: `TypeCorrect`, `OneOwnerAlways`, `ActsForOwnerAlways`,
`OwnerStaysAlways` (an action property) and `AnswersHoldAlways`. The invariant is

    IInv == TypeOK /\ CommandOK /\ RolesInv /\ AnswersHold

where `RolesInv` joins to `OneOwner` and `ActsForOwner` what makes them
inductive. `PairingInv`: the code is open only while nobody is the owner, without
which a second pairing would make a second one. `DiskOwnerInv`: the file knows no
owner that the memory does not, without which a save or a restart could bring one
back. `TargetInv`: the target of a checked `/promote` or `/demote` is not the
owner and does not become it, because the sender is and pairing is therefore
closed. `AuthAssumption` says that `None` is no command and the bound a number.

`LoginFlowProofs` proves the five properties of `login_flow` and `TypeCorrect`, for
any number of users and logins, any lifetimes, lag and number of failed saves. The
invariant says the same of the memory and of the file, between which a restart
chooses: no login in two stages, no ticket whose login has begun, no transaction
that was consumed, one ticket per user, and each with the instant at which it was
issued. The undo of a failed save is what it rests on. For `FileAgrees` an operation
that saves has made the two equal; one that does not takes from memory what has
expired by the clock, which it reads late and never early, and what it notes in
`dropped`.

`RefreshScheduleProofs` proves `TypeCorrect`, `PermissionBoundedAlways` and the
action property `DenialHeededAlways` for all intervals, lifetimes and bounds. Alone,
`PermissionBounded` says nothing of the files; the invariant, `BoundedInv`, says of
each place, memory, main file, write-ahead file and package `auth`, that what it
holds ends by `given`, and by `word` if the place is `current`: a restart makes
either file the permissions of package `auth`. For the denial, `RestingInv` says
that while an account is to be left in peace, its binding has no end of an access
that would make it due, in memory and in the main file, and is not due before that
time is over.

`OneFailureForgivenAlways` is the one theorem with a condition on the constants,
`Proportions`: `Ahead >= 2 * Minute + SweepTime`, every lifetime is longer than
`2 * Minute + SweepTime`, and at least two setbacks in a row are counted. The code
has `refreshAhead` at three minutes, which leaves a sweep one minute; that a
provider's accesses last longer than three is up to the provider. The instance of
`refresh_schedule` meets the first condition with equality. Neither bound can be
lowered: with `Ahead = 5`, or with a lifetime of 6, TLC finds a permission that ends
after a single setback. The invariant, `TimelyInv`, says that the access lasts longer
than the account may still have to wait for its next refresh (`Needed`). Before the
first setback, that is until cron's next firing, one more minute and a whole sweep;
after it, a minute less; and once a sweep has taken the account up, what
the sweep has left. Every step keeps the two in balance: time shortens both alike, a
setback shortens `Needed` by what it costs, and a sweep that does not take up the
account has found that its access lasts longer than `Ahead`.

`DynamicCommandsProofs` proves `TypeCorrect`, `CommandsAnsweredAlways`,
`MenuAnsweredAlways` and `MenuAgreesAlways` for any names and handlers. The
invariant joins to `TypeOK` what holds in each phase of `Setup` (`PhaseInv`), that a
group has its handler or is getting it (`GroupInv`), that every command in
Telegram's menu or in one on its way has a handler (`MenuInv`), that an undisturbed
name is in the table exactly when its job says so (`TableInv`), that a menu told
by a lone push is right but for changes whose push is still to come (`ToldInv`), and
that a push which is alone is the only one (`AloneInv`).

`PlaygroundProofs` proves `OneEntryAlways`, `TypeCorrect` and `AlertsAgreeAlways`
for any number of groups and checks. The store's entries are the groups with a
schedule (`EntriesInv`), and together with `OneEntry` that is inductive, for an
entry is removed only if the store knows of it. For `AlertsAgree`, a notice on its
way says what the state says as long as it is alone (`Alone`): that is kept by a
check that classifies, because it either leaves the state as it is or sends the
notice for the change itself, and by those that end, because they leave at most
the other one.

`DomainBookProofs` proves `TypeCorrect`, `StoreConsistentAlways`, `BookAgreesAlways`
and the action property `RepointNeedsForceAlways` for any number of credentials,
workers, domains and handlers. For `StoreConsistent` the invariant says the same of
the memory and of the file, which a restart exchanges, and that jobs carry workers
and categories that may be written; a job may write a record that has been changed,
deleted or added again since it looked. The other two follow from `BookInv`, which
says of a domain that is not `"disturbed"`: at most one job is on it; what that job
has seen or done is still so (`Sound`: the attachment it found free, the worker an
import listed, the change it made, the record it looked up); and if the domain is
vouched for, book and Cloudflare agree, or the job has changed Cloudflare and has
yet to write it down (`Pending`). A step of a job has to show this only of the
domains where it is alone (`JobTrusts`), and for the others that it leaves them alone.

The assumptions of these modules (`LoginAssumption`, `ScheduleAssumption`,
`NoBindingAssumption`, `CommandsAssumption`, `PlaygroundAssumption`,
`BookAssumption`) say that bounds and lengths of time are natural numbers, that a
minute, an interval and a lifetime are not 0, that checks and the domain book's
handlers are finitely many, that the plugins' commands are fit to be commands, that `"default"` is a category, and
that a value which stands for "none" is none of the others.

The proofs go: `Init => IInv`; `IInv /\ [Next]_vars => IInv'` with a step per
action; `IInv => Inv`; and a temporal step that puts the three together.

**Only model-checked.** Liveness, which is beyond the prover: `EveryWaiterServed`,
`DenialTakesEffect`, `WorkEnds`, `AlertFollows`, `StaysScheduled`. Every invariant and
every action property of the runs that pass is a theorem.

## 5. Not modelled

- In the store: the encryption of tokens; display data; a loss of power that
  undoes a rename because the directory was not synced.
- Times and tokens meet in no module: a binding is due at any moment in
  `AccountService`, and has no token in `RefreshSchedule`. The latter has one
  account, so that there no other user's put takes the slot of the write-ahead file.
- In the service: discovery, validation of claims, pages, cookies and wording.
  Bindings of several users meet in `BindingStore` and `UserLock`;
  `AccountService` is checked for one user, and its invariants are proved for any
  number.
- A second login of a bound user, by `complete`, replaces the stored token
  without revoking the one before. `NoStrayToken` sets that history aside.
- In `internal/auth`: the instants at which permissions expire (a federated
  permission may go at any moment), the names of permissions.
- In the playground: requests, templates and what assertions say; schedules as
  times; the reports of groups without assertions, which concern no alert;
  variables.
- In the domain book: several Cloudflare accounts, the resolution of zones, fields
  of a record that nothing depends on.
- In `internal/playground` and `internal/cloudflare`, a file torn by the end of the
  process: both are written in place, and the next start fails to parse them.
- In the dynamic commands: a push that arrives after its process died and another
  has started; the middleware, the filters and the profiles of the plugins, which
  are wired once at startup.
- Bundles, the playground's execution and pages, startup, and the plugins without
  state. The first are in the plan.

## 6. Plan

In the order of importance:

1. `BundleStore`: collections per chat, media downloaded between the check and
   the append, the order of messages, the unsaved bundle; with it, as an abstract
   specification, a chat's collection as an atomic append to the bundle that was
   open when the message was sent.
2. In `AccountService`, the token that a second login leaves behind as a property
   of its own.
3. A proof that an operation of the store in `AccountService` is what the file
   operations of `BindingStore` come to, which is so far an argument in section 2.

A module gets one run, and a second where the code disagrees with what it says;
runs and properties that a theorem has made redundant give way to them.
