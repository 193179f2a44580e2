----------------------------- MODULE AuthStore -----------------------------
(***************************************************************************)
(* Roles and permissions (internal/auth/auth.go), and the commands that    *)
(* change them: /bind, and behind RequireOwner /promote, /demote and       *)
(* /permission (internal/plugins/bind, internal/plugins/perm).             *)
(*                                                                         *)
(* Every operation of the store holds its mutex and is one action.  The    *)
(* commands run in goroutines of their own and check before they act: the  *)
(* middleware looks up the sender's role, /promote and /demote look up the *)
(* target's, and only then is the change made, each in a visit of its own  *)
(* to the store.                                                           *)
(*                                                                         *)
(* An operation changes the memory first and then replaces the file.  When *)
(* the file cannot be written the change stays in memory, and the next     *)
(* save that succeeds writes it.                                           *)
(*                                                                         *)
(* Left out: the names of permissions, chat id 0, and when the permissions *)
(* of the identity provider expire, which may be at any moment.            *)
(***************************************************************************)
EXTENDS Naturals

CONSTANTS
    Users,       \* chat ids
    Perms,       \* business permissions
    Handlers,    \* goroutines of command handlers
    MaxFaults,   \* bound: saves that fail
    None         \* no command

VARIABLES
    roles, permissions,   \* the maps in memory
    federated,            \* the identity provider's permissions, memory only
    code,                 \* whether a pairing code is open
    disk,                 \* the file
    pc, cmd,              \* what each handler does, and for which command
    told,                 \* per permission, what the last answer said of it
    faults

vars == <<roles, permissions, federated, code, disk, pc, cmd, told, faults>>

Roles == {"user", "admin", "owner"}

Command == [op : {"promote", "demote", "grant", "revoke"}, sender : Users,
            target : Users, perm : Perms]

ASSUME AuthAssumption == MaxFaults \in Nat /\ None \notin Command

HasOwner(r) == \E u \in Users : r[u] = "owner"

\* The file is missing, and a code was printed.
Init ==
    /\ roles = [u \in Users |-> "user"]
    /\ permissions = [u \in Users |-> {}]
    /\ federated = [u \in Users |-> {}]
    /\ code = TRUE
    /\ disk = [roles |-> roles, permissions |-> permissions]
    /\ pc = [h \in Handlers |-> "idle"]
    /\ cmd = [h \in Handlers |-> None]
    /\ told = [u \in Users |-> [p \in Perms |-> "revoked"]]
    /\ faults = 0

-----------------------------------------------------------------------------
(* The store.                                                              *)

\* Mutant: the identity provider's permissions are saved with the others.
SaveAll ==
    disk' = [roles |-> roles',
             permissions |-> [u \in Users |-> permissions'[u] \union federated[u]]]

Save == disk' = [roles |-> roles', permissions |-> permissions']

SaveFails ==
    /\ faults < MaxFaults
    /\ faults' = faults + 1
    /\ UNCHANGED disk

\* Bind, whose answer is the same when its save fails.
Bind(u) ==
    /\ code
    /\ roles' = [roles EXCEPT ![u] = "owner"]
    /\ code' = FALSE
    /\ UNCHANGED <<permissions, federated, pc, cmd, told>>
    /\ \/ Save /\ UNCHANGED faults
       \/ SaveFails

\* ReplaceFederatedPermissions; with no permissions, ClearFederatedPermissions
\* and the expiry of a grant.
ReplaceFederated(u, ps) ==
    /\ federated' = [federated EXCEPT ![u] = ps]
    /\ UNCHANGED <<roles, permissions, code, disk, pc, cmd, told, faults>>

-----------------------------------------------------------------------------
(* The commands.                                                           *)

Go(h, stage) == pc' = [pc EXCEPT ![h] = stage]

Receive(h, c) ==
    /\ pc[h] = "idle"
    /\ Go(h, "received")
    /\ cmd' = [cmd EXCEPT ![h] = c]
    /\ UNCHANGED <<roles, permissions, federated, code, disk, told, faults>>

Done(h) == Go(h, "idle") /\ cmd' = [cmd EXCEPT ![h] = None]

Reject(h) ==
    /\ Done(h)
    /\ UNCHANGED <<roles, permissions, federated, code, disk, told, faults>>

\* RequireOwner.
\* Mutant: lets administrators pass.
IsAdmin(h) == roles[cmd[h].sender] \in {"admin", "owner"}

IsAllowed(h) == roles[cmd[h].sender] = "owner"

Authorize(h) ==
    /\ pc[h] = "received"
    /\ IsAllowed(h)
    /\ Go(h, "authorized")
    /\ UNCHANGED <<roles, permissions, federated, code, disk, cmd, told, faults>>

Forbid(h) == pc[h] = "received" /\ ~IsAllowed(h) /\ Reject(h)

ChangesRole(h) == cmd[h].op \in {"promote", "demote"}

\* handlePromote and handleDemote leave an owner alone.
\* Mutant: the target's role is not looked up.
TargetAny(h) == TRUE

TargetIsNoOwner(h) == roles[cmd[h].target] # "owner"

CheckTarget(h) ==
    /\ pc[h] = "authorized" /\ ChangesRole(h)
    /\ TargetIsNoOwner(h)
    /\ Go(h, "checked")
    /\ UNCHANGED <<roles, permissions, federated, code, disk, cmd, told, faults>>

RefuseTarget(h) ==
    /\ pc[h] = "authorized" /\ ChangesRole(h)
    /\ ~TargetIsNoOwner(h)
    /\ Reject(h)

NewRole(op) == IF op = "promote" THEN "admin" ELSE "user"

\* SetRole.
SetRole(h) ==
    /\ pc[h] = "checked"
    /\ roles' = [roles EXCEPT ![cmd[h].target] = NewRole(cmd[h].op)]
    /\ Done(h)
    /\ UNCHANGED <<permissions, federated, code, told>>
    /\ \/ Save /\ UNCHANGED faults
       \/ SaveFails

\* GrantPermissions and RevokePermissions, in memory.
ChangePermission(h) ==
    LET c == cmd[h]
    IN  /\ pc[h] = "authorized" /\ ~ChangesRole(h)
        /\ permissions' = [permissions EXCEPT ![c.target] =
               IF c.op = "grant" THEN @ \union {c.perm} ELSE @ \ {c.perm}]
        /\ Done(h)
        /\ UNCHANGED <<roles, federated, code>>

Answer(h, text) == told' = [told EXCEPT ![cmd[h].target][cmd[h].perm] = text]

SetPermission(h) ==
    /\ ChangePermission(h)
    /\ Save
    /\ Answer(h, IF cmd[h].op = "grant" THEN "granted" ELSE "revoked")
    /\ UNCHANGED faults

\* The answer is that the command failed.
SetPermissionFails(h) ==
    /\ ChangePermission(h)
    /\ SaveFails
    /\ Answer(h, "failed")

-----------------------------------------------------------------------------
\* Mutant: every start opens pairing.
CodeAlways == code' = TRUE

\* Init prints a code when the file has no owner.
NewCode == code' = ~HasOwner(disk.roles)

\* The process ends, and starts from the file.
Restart ==
    /\ roles' = disk.roles
    /\ permissions' = disk.permissions
    /\ federated' = [u \in Users |-> {}]
    /\ NewCode
    /\ pc' = [h \in Handlers |-> "idle"]
    /\ cmd' = [h \in Handlers |-> None]
    /\ UNCHANGED <<disk, told, faults>>

Handle(h) ==
    \/ Authorize(h) \/ Forbid(h)
    \/ CheckTarget(h) \/ RefuseTarget(h)
    \/ SetRole(h) \/ SetPermission(h) \/ SetPermissionFails(h)

Next ==
    \/ \E u \in Users :
           Bind(u) \/ \E ps \in SUBSET Perms : ReplaceFederated(u, ps)
    \/ \E h \in Handlers :
           \/ \E c \in Command : Receive(h, c)
           \/ Handle(h)
    \/ Restart

Spec == Init /\ [][Next]_vars

-----------------------------------------------------------------------------
(* Properties.                                                             *)

\* Every variable holds a value of its kind.
TypeOK ==
    /\ roles \in [Users -> Roles]
    /\ permissions \in [Users -> SUBSET Perms]
    /\ federated \in [Users -> SUBSET Perms]
    /\ code \in BOOLEAN
    /\ disk \in [roles : [Users -> Roles], permissions : [Users -> SUBSET Perms]]
    /\ pc \in [Handlers -> {"idle", "received", "authorized", "checked"}]
    /\ cmd \in [Handlers -> Command \union {None}]
    /\ told \in [Users -> [Perms -> {"granted", "revoked", "failed"}]]
    /\ faults \in 0..MaxFaults

AtMostOneOwner(r) == \A u, v \in Users : r[u] = "owner" /\ r[v] = "owner" => u = v

\* "owner (unique, bound via pairing code)": in memory and in the file there is
\* at most one owner, however often pairing fails to be saved, and whoever
\* pairs after a restart.
OneOwner == AtMostOneOwner(roles) /\ AtMostOneOwner(disk.roles)

\* A command that passed RequireOwner acts for a sender who is still the owner
\* when it acts, however long that takes.
ActsForOwner ==
    \A h \in Handlers : pc[h] \in {"authorized", "checked"} =>
        roles[cmd[h].sender] = "owner"

\* While the process runs the owner stays the owner, whom /demote refuses to
\* demote and /promote to promote: no pairing, promotion or demotion between the check of a target's
\* role and the change of it makes a difference.
OwnerStays ==
    [][~Restart => \A u \in Users : roles[u] = "owner" => roles'[u] = "owner"]_vars

\* What an answer said of a permission holds until the next command on it, in
\* memory and after a restart: failed saves of other commands and the identity
\* provider's permissions change nothing about it.
AnswersHold ==
    \A u \in Users, p \in Perms :
        /\ told[u][p] = "granted" => p \in permissions[u] \cap disk.permissions[u]
        /\ told[u][p] = "revoked" => p \notin permissions[u] \union disk.permissions[u]
=============================================================================
