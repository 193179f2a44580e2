-------------------------- MODULE AuthStoreProofs --------------------------
(***************************************************************************)
(* What holds of the authorization store for any number of chats,          *)
(* permissions, handlers and failures.                                     *)
(***************************************************************************)
EXTENDS AuthStore, TLAPS

\* A handler that is busy has a command.
CommandOK ==
    \A h \in Handlers : pc[h] # "idle" => cmd[h] \in Command

\* Pairing is open only while nobody is the owner.
PairingInv == code => ~HasOwner(roles)

\* The owner of the file is the owner in memory: a pairing may be missing from
\* the file, but the file knows no owner that the memory does not.
DiskOwnerInv == \A u \in Users : disk.roles[u] = "owner" => roles[u] = "owner"

\* Between the check of a target's role and the change of it, the target does
\* not become the owner.
TargetInv ==
    \A h \in Handlers : pc[h] = "checked" =>
        ChangesRole(h) /\ roles[cmd[h].target] # "owner"

\* The part of the invariant that is about roles.
RolesInv == OneOwner /\ ActsForOwner /\ PairingInv /\ DiskOwnerInv /\ TargetInv

IInv == TypeOK /\ CommandOK /\ RolesInv /\ AnswersHold

LEMMA InvInit == Init => IInv
BY AuthAssumption
   DEF Init, IInv, RolesInv, TypeOK, CommandOK, OneOwner, AtMostOneOwner,
       ActsForOwner, PairingInv, HasOwner, DiskOwnerInv, TargetInv, AnswersHold, Roles

LEMMA TypeStep == TypeOK /\ CommandOK /\ [Next]_vars => TypeOK' /\ CommandOK'
<1> SUFFICES ASSUME TypeOK, CommandOK, [Next]_vars
             PROVE  TypeOK' /\ CommandOK'
  OBVIOUS
<1> USE AuthAssumption
<1>1. ASSUME NEW u \in Users, Bind(u) PROVE TypeOK' /\ CommandOK'
  <2>1. roles' \in [Users -> Roles]
    BY <1>1 DEF Bind, TypeOK, Roles
  <2>2. UNCHANGED <<permissions, federated, pc, cmd, told>> /\ code' = FALSE
    BY <1>1 DEF Bind
  <2>3. disk' \in [roles : [Users -> Roles], permissions : [Users -> SUBSET Perms]]
    BY <1>1, <2>1, <2>2 DEF Bind, Save, SaveFails, TypeOK
  <2>4. faults' \in 0..MaxFaults
    BY <1>1 DEF Bind, SaveFails, TypeOK
  <2> QED
    BY <2>1, <2>2, <2>3, <2>4 DEF TypeOK, CommandOK
<1>2. ASSUME NEW u \in Users, NEW ps \in SUBSET Perms, ReplaceFederated(u, ps)
      PROVE  TypeOK' /\ CommandOK'
  BY <1>2 DEF ReplaceFederated, TypeOK, CommandOK
<1>3. ASSUME NEW h \in Handlers, NEW c \in Command, Receive(h, c)
      PROVE  TypeOK' /\ CommandOK'
  BY <1>3 DEF Receive, Go, TypeOK, CommandOK
<1>4. ASSUME NEW h \in Handlers, Handle(h) PROVE TypeOK' /\ CommandOK'
  <2>1. CASE Authorize(h)
    BY <2>1 DEF Authorize, Go, TypeOK, CommandOK
  <2>2. CASE Forbid(h) \/ RefuseTarget(h)
    BY <2>2 DEF Forbid, RefuseTarget, Reject, Done, Go, TypeOK, CommandOK
  <2>3. CASE CheckTarget(h)
    BY <2>3 DEF CheckTarget, Go, TypeOK, CommandOK
  <2>4. CASE SetRole(h)
    <3>1. roles' \in [Users -> Roles]
      BY <2>4 DEF SetRole, NewRole, TypeOK, Roles
    <3> QED
      BY <2>4, <3>1 DEF SetRole, Save, SaveFails, Done, Go, TypeOK, CommandOK
  <2>5. CASE SetPermission(h) \/ SetPermissionFails(h)
    <3>1. pc[h] = "authorized" /\ cmd[h] \in Command
      BY <2>5 DEF SetPermission, SetPermissionFails, ChangePermission, CommandOK
    <3>2. cmd[h].perm \in Perms /\ cmd[h].target \in Users
      BY <3>1 DEF Command
    <3>3. permissions' \in [Users -> SUBSET Perms]
      BY <2>5, <3>2 DEF SetPermission, SetPermissionFails, ChangePermission, TypeOK
    <3>4. told' \in [Users -> [Perms -> {"granted", "revoked", "failed"}]]
      <4>1. PICK text \in {"granted", "revoked", "failed"} : Answer(h, text)
        BY <2>5 DEF SetPermission, SetPermissionFails
      <4>2. told[cmd[h].target] \in [Perms -> {"granted", "revoked", "failed"}]
        BY <3>2 DEF TypeOK
      <4>3. [told[cmd[h].target] EXCEPT ![cmd[h].perm] = text]
                \in [Perms -> {"granted", "revoked", "failed"}]
        BY <4>2
      <4> QED
        BY <4>1, <4>3, <3>2 DEF Answer, TypeOK
    <3>5. /\ UNCHANGED <<roles, federated, code>>
          /\ pc' = [pc EXCEPT ![h] = "idle"] /\ cmd' = [cmd EXCEPT ![h] = None]
      BY <2>5 DEF SetPermission, SetPermissionFails, ChangePermission, Done, Go
    <3>6. disk' \in [roles : [Users -> Roles], permissions : [Users -> SUBSET Perms]]
      BY <2>5, <3>3, <3>5 DEF SetPermission, SetPermissionFails, Save, SaveFails, TypeOK
    <3>7. faults' \in 0..MaxFaults
      BY <2>5 DEF SetPermission, SetPermissionFails, SaveFails, TypeOK
    <3> QED
      BY <3>3, <3>4, <3>5, <3>6, <3>7 DEF TypeOK, CommandOK
  <2> QED
    BY <1>4, <2>1, <2>2, <2>3, <2>4, <2>5 DEF Handle
<1>5. CASE Restart
  BY <1>5 DEF Restart, NewCode, TypeOK, CommandOK, HasOwner
<1>6. CASE UNCHANGED vars
  BY <1>6 DEF vars, TypeOK, CommandOK
<1> QED
  BY <1>1, <1>2, <1>3, <1>4, <1>5, <1>6 DEF Next

-----------------------------------------------------------------------------
(* The roles.                                                              *)

\* Steps that leave the roles, the code and the file's roles alone.
LEMMA KeepRoles ==
    ASSUME OneOwner, PairingInv, DiskOwnerInv,
           UNCHANGED <<roles, code>>, disk'.roles \in {disk.roles, roles}
    PROVE  OneOwner' /\ PairingInv' /\ DiskOwnerInv'
BY DEF OneOwner, AtMostOneOwner, PairingInv, HasOwner, DiskOwnerInv

LEMMA SavedRoles ==
    ASSUME Save \/ SaveFails
    PROVE  disk'.roles = roles' \/ disk'.roles = disk.roles
<1>1. CASE Save
  BY <1>1 DEF Save
<1>2. CASE SaveFails
  BY <1>2 DEF SaveFails
<1> QED
  BY <1>1, <1>2

LEMMA BindRoles ==
    ASSUME TypeOK, CommandOK, RolesInv, NEW u \in Users, Bind(u)
    PROVE  RolesInv'
<1> USE AuthAssumption
<1>1. \A v \in Users : roles[v] # "owner" /\ disk.roles[v] # "owner"
  BY DEF Bind, RolesInv, PairingInv, HasOwner, DiskOwnerInv
<1>2. \A v \in Users : roles'[v] = "owner" <=> v = u
  BY <1>1 DEF Bind, TypeOK
<1>3. disk'.roles = roles' \/ disk'.roles = disk.roles
  BY SavedRoles DEF Bind
<1>4. OneOwner' /\ DiskOwnerInv'
  BY <1>1, <1>2, <1>3 DEF OneOwner, AtMostOneOwner, DiskOwnerInv
<1>5. \A h \in Handlers : pc[h] \notin {"authorized", "checked"}
  <2> SUFFICES ASSUME NEW h \in Handlers, pc[h] \in {"authorized", "checked"}
               PROVE  FALSE
    OBVIOUS
  <2>1. cmd[h].sender \in Users
    BY DEF CommandOK, Command
  <2> QED
    BY <1>1, <2>1 DEF RolesInv, ActsForOwner
<1>6. code' = FALSE /\ pc' = pc
  BY DEF Bind
<1> QED
  BY <1>4, <1>5, <1>6 DEF RolesInv, PairingInv, ActsForOwner, TargetInv

\* A handler that does what others do not see.
LEMMA QuietRoles ==
    ASSUME TypeOK, CommandOK, RolesInv, NEW h \in Handlers,
           Authorize(h) \/ Forbid(h) \/ CheckTarget(h) \/ RefuseTarget(h)
    PROVE  RolesInv'
<1>1. UNCHANGED <<roles, code, disk>>
  BY DEF Authorize, Forbid, CheckTarget, RefuseTarget, Reject
<1>2. OneOwner' /\ PairingInv' /\ DiskOwnerInv'
  BY <1>1, KeepRoles DEF RolesInv
<1>3. \A k \in Handlers \ {h} : pc'[k] = pc[k] /\ cmd'[k] = cmd[k]
  BY DEF Authorize, Forbid, CheckTarget, RefuseTarget, Reject, Done, Go, TypeOK
<1>4. \/ pc'[h] = "idle"
      \/ pc'[h] = "authorized" /\ cmd'[h] = cmd[h] /\ IsAllowed(h)
      \/ /\ pc'[h] = "checked" /\ cmd'[h] = cmd[h]
         /\ pc[h] = "authorized" /\ ChangesRole(h) /\ TargetIsNoOwner(h)
  BY DEF Authorize, Forbid, CheckTarget, RefuseTarget, Reject, Done, Go, TypeOK
<1>5. ActsForOwner'
  BY <1>1, <1>3, <1>4 DEF RolesInv, ActsForOwner, IsAllowed
<1>6. TargetInv'
  BY <1>1, <1>3, <1>4 DEF RolesInv, TargetInv, ChangesRole, TargetIsNoOwner
<1> QED
  BY <1>2, <1>5, <1>6 DEF RolesInv

LEMMA SetRoleRoles ==
    ASSUME TypeOK, CommandOK, RolesInv, NEW h \in Handlers, SetRole(h)
    PROVE  RolesInv' /\ \A u \in Users : roles'[u] = "owner" <=> roles[u] = "owner"
<1> USE AuthAssumption
<1>1. pc[h] = "checked" /\ cmd[h] \in Command
  BY DEF SetRole, CommandOK
<1>2. cmd[h].target \in Users /\ roles[cmd[h].target] # "owner"
  BY <1>1 DEF Command, RolesInv, TargetInv
<1>3. \A u \in Users : roles'[u] = "owner" <=> roles[u] = "owner"
  BY <1>2 DEF SetRole, NewRole, TypeOK
<1>4. code' = code /\ (disk'.roles = roles' \/ disk'.roles = disk.roles)
  BY SavedRoles DEF SetRole
<1>5. OneOwner' /\ PairingInv' /\ DiskOwnerInv'
  BY <1>3, <1>4
     DEF RolesInv, OneOwner, AtMostOneOwner, PairingInv, HasOwner, DiskOwnerInv
<1>6. /\ pc'[h] = "idle"
      /\ \A k \in Handlers \ {h} : pc'[k] = pc[k] /\ cmd'[k] = cmd[k]
  BY DEF SetRole, Done, Go, TypeOK
<1>7. \A k \in Handlers : pc[k] # "idle" =>
          cmd[k].sender \in Users /\ cmd[k].target \in Users
  BY DEF CommandOK, Command
<1>8. ActsForOwner'
  BY <1>3, <1>6, <1>7 DEF RolesInv, ActsForOwner
<1>9. TargetInv'
  BY <1>3, <1>6, <1>7 DEF RolesInv, TargetInv, ChangesRole
<1> QED
  BY <1>3, <1>5, <1>8, <1>9 DEF RolesInv

LEMMA SetPermissionRoles ==
    ASSUME TypeOK, RolesInv, NEW h \in Handlers,
           SetPermission(h) \/ SetPermissionFails(h)
    PROVE  RolesInv' /\ UNCHANGED roles
<1>1. UNCHANGED <<roles, code>> /\ disk'.roles \in {disk.roles, roles}
  BY DEF SetPermission, SetPermissionFails, ChangePermission, Save, SaveFails
<1>2. OneOwner' /\ PairingInv' /\ DiskOwnerInv'
  BY <1>1, KeepRoles DEF RolesInv
<1>3. /\ pc'[h] = "idle"
      /\ \A k \in Handlers \ {h} : pc'[k] = pc[k] /\ cmd'[k] = cmd[k]
  BY DEF SetPermission, SetPermissionFails, ChangePermission, Done, Go, TypeOK
<1> QED
  BY <1>1, <1>2, <1>3 DEF RolesInv, ActsForOwner, TargetInv, ChangesRole

LEMMA RestartRoles == RolesInv /\ Restart => RolesInv'
<1> SUFFICES ASSUME RolesInv, Restart PROVE RolesInv'
  OBVIOUS
<1>1. roles' = disk.roles /\ disk' = disk /\ code' = ~HasOwner(disk.roles)
  BY DEF Restart, NewCode
<1>2. \A h \in Handlers : pc'[h] = "idle"
  BY DEF Restart
<1>3. OneOwner' /\ DiskOwnerInv'
  BY <1>1 DEF RolesInv, OneOwner, AtMostOneOwner, DiskOwnerInv
<1>4. PairingInv'
  BY <1>1 DEF PairingInv, HasOwner
<1>5. ActsForOwner' /\ TargetInv'
  BY <1>2 DEF ActsForOwner, TargetInv
<1> QED
  BY <1>3, <1>4, <1>5 DEF RolesInv

LEMMA RolesStep ==
    ASSUME TypeOK, CommandOK, RolesInv, [Next]_vars
    PROVE  /\ RolesInv'
           /\ ~Restart => \A u \in Users : roles[u] = "owner" => roles'[u] = "owner"
<1> DEFINE Kept == \A u \in Users : roles[u] = "owner" => roles'[u] = "owner"
<1>1. ASSUME NEW u \in Users, Bind(u) PROVE RolesInv' /\ Kept
  <2>1. Kept
    BY <1>1 DEF Bind, TypeOK
  <2> QED
    BY <1>1, <2>1, BindRoles
<1>2. ASSUME NEW u \in Users, NEW ps \in SUBSET Perms, ReplaceFederated(u, ps)
      PROVE  RolesInv' /\ Kept
  BY <1>2 DEF ReplaceFederated, RolesInv, OneOwner, AtMostOneOwner, ActsForOwner,
              PairingInv, HasOwner, DiskOwnerInv, TargetInv, ChangesRole
<1>3. ASSUME NEW h \in Handlers, NEW c \in Command, Receive(h, c)
      PROVE  RolesInv' /\ Kept
  <2>1. UNCHANGED <<roles, code, disk>>
    BY <1>3 DEF Receive
  <2>2. /\ pc'[h] = "received"
        /\ \A k \in Handlers \ {h} : pc'[k] = pc[k] /\ cmd'[k] = cmd[k]
    BY <1>3 DEF Receive, Go, TypeOK
  <2>3. OneOwner' /\ PairingInv' /\ DiskOwnerInv'
    BY <2>1, KeepRoles DEF RolesInv
  <2> QED
    BY <2>1, <2>2, <2>3 DEF RolesInv, ActsForOwner, TargetInv, ChangesRole
<1>4. ASSUME NEW h \in Handlers, Handle(h) PROVE RolesInv' /\ Kept
  <2>1. CASE Authorize(h) \/ Forbid(h) \/ CheckTarget(h) \/ RefuseTarget(h)
    <3>1. UNCHANGED roles
      BY <2>1 DEF Authorize, Forbid, CheckTarget, RefuseTarget, Reject
    <3> QED
      BY <2>1, <3>1, QuietRoles
  <2>2. CASE SetRole(h)
    BY <2>2, SetRoleRoles
  <2>3. CASE SetPermission(h) \/ SetPermissionFails(h)
    BY <2>3, SetPermissionRoles
  <2> QED
    BY <1>4, <2>1, <2>2, <2>3 DEF Handle
<1>5. CASE Restart
  BY <1>5, RestartRoles
<1>6. CASE UNCHANGED vars
  BY <1>6 DEF vars, RolesInv, OneOwner, AtMostOneOwner, ActsForOwner,
              PairingInv, HasOwner, DiskOwnerInv, TargetInv, ChangesRole
<1> QED
  BY <1>1, <1>2, <1>3, <1>4, <1>5, <1>6 DEF Next

-----------------------------------------------------------------------------
(* The permissions.                                                        *)

\* A save after which the permissions in memory are what they were.
LEMMA SavedAnswers ==
    ASSUME AnswersHold, UNCHANGED <<permissions, told>>,
           Save \/ UNCHANGED disk
    PROVE  AnswersHold'
BY DEF AnswersHold, Save

LEMMA SetPermissionAnswers ==
    ASSUME TypeOK, CommandOK, AnswersHold, NEW h \in Handlers,
           SetPermission(h) \/ SetPermissionFails(h)
    PROVE  AnswersHold'
<1> DEFINE t == cmd[h].target
           q == cmd[h].perm
           g == cmd[h].op = "grant"
<1>1. pc[h] = "authorized" /\ cmd[h] \in Command
  BY DEF SetPermission, SetPermissionFails, ChangePermission, CommandOK
<1>2. t \in Users /\ q \in Perms
  BY <1>1 DEF Command
<1>3. /\ \A u \in Users \ {t} : permissions'[u] = permissions[u]
      /\ permissions'[t] = IF g THEN permissions[t] \union {q} ELSE permissions[t] \ {q}
  BY <1>2 DEF SetPermission, SetPermissionFails, ChangePermission, TypeOK
<1>4. ASSUME NEW u \in Users, NEW p \in Perms, u # t \/ p # q
      PROVE  /\ told'[u][p] = told[u][p]
             /\ p \in permissions'[u] <=> p \in permissions[u]
  <2>1. told'[u][p] = told[u][p]
    BY <1>2, <1>4 DEF SetPermission, SetPermissionFails, Answer, TypeOK
  <2>2. p \in permissions'[u] <=> p \in permissions[u]
    BY <1>2, <1>3, <1>4
  <2> QED
    BY <2>1, <2>2
<1>5. CASE SetPermission(h)
  <2>1. disk'.permissions = permissions'
    BY <1>5 DEF SetPermission, Save
  <2>2. told'[t][q] = IF g THEN "granted" ELSE "revoked"
    BY <1>5, <1>2 DEF SetPermission, Answer, TypeOK
  <2>3. q \in permissions'[t] <=> g
    BY <1>2, <1>3
  <2> QED
    BY <2>1, <2>2, <2>3, <1>4 DEF AnswersHold
<1>6. CASE SetPermissionFails(h)
  <2>1. disk' = disk
    BY <1>6 DEF SetPermissionFails, SaveFails
  <2>2. told'[t][q] = "failed"
    BY <1>6, <1>2 DEF SetPermissionFails, Answer, TypeOK
  <2> QED
    BY <2>1, <2>2, <1>4 DEF AnswersHold
<1> QED
  BY <1>5, <1>6

LEMMA AnswersStep ==
    ASSUME TypeOK, CommandOK, AnswersHold, [Next]_vars
    PROVE  AnswersHold'
<1>1. ASSUME NEW u \in Users, Bind(u) PROVE AnswersHold'
  BY <1>1, SavedAnswers DEF Bind, SaveFails
<1>2. ASSUME NEW u \in Users, NEW ps \in SUBSET Perms, ReplaceFederated(u, ps)
      PROVE  AnswersHold'
  BY <1>2 DEF ReplaceFederated, AnswersHold
<1>3. ASSUME NEW h \in Handlers, NEW c \in Command, Receive(h, c) PROVE AnswersHold'
  BY <1>3 DEF Receive, AnswersHold
<1>4. ASSUME NEW h \in Handlers, Handle(h) PROVE AnswersHold'
  <2>1. CASE Authorize(h) \/ Forbid(h) \/ CheckTarget(h) \/ RefuseTarget(h)
    BY <2>1 DEF Authorize, Forbid, CheckTarget, RefuseTarget, Reject, AnswersHold
  <2>2. CASE SetRole(h)
    BY <2>2, SavedAnswers DEF SetRole, SaveFails
  <2>3. CASE SetPermission(h) \/ SetPermissionFails(h)
    BY <2>3, SetPermissionAnswers
  <2> QED
    BY <1>4, <2>1, <2>2, <2>3 DEF Handle
<1>5. CASE Restart
  BY <1>5 DEF Restart, AnswersHold
<1>6. CASE UNCHANGED vars
  BY <1>6 DEF vars, AnswersHold
<1> QED
  BY <1>1, <1>2, <1>3, <1>4, <1>5, <1>6 DEF Next

-----------------------------------------------------------------------------
(* The theorems.                                                           *)

LEMMA InvAlways == Spec => []IInv
<1>1. IInv /\ [Next]_vars => IInv'
  BY TypeStep, RolesStep, AnswersStep DEF IInv
<1> QED
  BY <1>1, InvInit, PTL DEF Spec

\* Every variable always holds a value of its kind.
THEOREM TypeCorrect == Spec => []TypeOK
BY InvAlways, PTL DEF IInv

\* "owner (unique, bound via pairing code)", for any number of chats, of failed
\* saves and of restarts.
THEOREM OneOwnerAlways == Spec => []OneOwner
BY InvAlways, PTL DEF IInv, RolesInv

\* What a command does behind RequireOwner it does for the owner, however many
\* commands run at once and however long each takes.
THEOREM ActsForOwnerAlways == Spec => []ActsForOwner
BY InvAlways, PTL DEF IInv, RolesInv

\* Only a restart takes the owner's role away (when the pairing was not saved).
THEOREM OwnerStaysAlways == Spec => OwnerStays
<1>1. IInv /\ [Next]_vars =>
          [~Restart => \A u \in Users : roles[u] = "owner" => roles'[u] = "owner"]_vars
  BY RolesStep DEF IInv
<1> QED
  BY <1>1, InvAlways, PTL DEF Spec, OwnerStays

\* The last answer about a permission holds, in memory and in the file.
THEOREM AnswersHoldAlways == Spec => []AnswersHold
BY InvAlways, PTL DEF IInv
=============================================================================
