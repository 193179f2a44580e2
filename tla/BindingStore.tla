---------------------------- MODULE BindingStore ----------------------------
(***************************************************************************)
(* The durable store of ERP account bindings                               *)
(* (internal/plugins/account/store.go).                                    *)
(*                                                                         *)
(* A binding ties one Telegram user to one identity (issuer and subject)   *)
(* of the ERP provider and holds the refresh token the provider rotates at *)
(* every use.  The store keeps its bindings in memory, mirrors them in a   *)
(* main file that is always replaced whole, and protects one rotated token *)
(* at a time with a write-ahead file that has room for a single binding.   *)
(* At startup the main file is loaded and the write-ahead binding, if any, *)
(* is laid over it.                                                        *)
(*                                                                         *)
(* The store's mutex makes operations exclude each other, so that at most  *)
(* one is in progress.  It does not make them atomic: the process can die  *)
(* between two file operations, and each file operation can fail alone.    *)
(* An action is therefore the code from one effect on a file to the next.  *)
(*                                                                         *)
(* Left out: the issuer (one per store), display data, the encryption of   *)
(* the token, and time (expiry and the refresh schedule).  The login       *)
(* tickets and transactions the same file carries appear only as           *)
(* operations that rewrite it.                                             *)
(***************************************************************************)
EXTENDS Naturals

CONSTANTS
    Users,       \* Telegram users
    Subjects,    \* identities at the provider
    Perms,       \* the auth:* permissions the provider grants
    MaxTokens,   \* bound: refresh tokens the provider issues
    MaxFaults,   \* bound: file operations that fail
    NoBinding,   \* a user without a binding
    NoWAL,       \* the write-ahead file is absent
    Unsettled    \* no outcome of the user's last operation was acknowledged

Binding == [subject : Subjects, token : 1..MaxTokens, perms : SUBSET Perms]

WALFile == [user : Users, item : Binding]

ASSUME BoundsAssumption == MaxTokens \in Nat /\ MaxFaults \in Nat

ASSUME SentinelAssumption ==
    /\ NoBinding \notin Binding
    /\ NoWAL \notin WALFile
    /\ Unsettled \notin Binding \union {NoBinding}

VARIABLES
    bindings,   \* the map in memory
    main,       \* the bindings of the main file
    wal,        \* the write-ahead file
    federated,  \* the permissions package auth holds for the provider
    pc,         \* what the holder of the store's mutex does next
    arg,        \* that operation's user and binding, as a WALFile
    issued,     \* tokens the provider has issued
    newest,     \* per user, the token that must not be lost; 0 if there is none
    faults,     \* file operations that have failed
    acked       \* per user, the state the last acknowledgement promised

vars == <<bindings, main, wal, federated, pc, arg, issued, newest, faults, acked>>

-----------------------------------------------------------------------------
Unbound == [u \in Users |-> NoBinding]

NoGrants == [u \in Users |-> {}]

\* ReplaceFederatedPermissions and ClearFederatedPermissions: an empty set of
\* permissions is no grant.
PermsOf(b) == IF b = NoBinding THEN {} ELSE b.perms

GrantsOf(book) == [u \in Users |-> PermsOf(book[u])]

\* applyWAL: the bindings of the main file m, under the binding of the WAL w.
Overlay(m, w) == IF w = NoWAL THEN m ELSE [m EXCEPT ![w.user] = w.item]

\* The bindings a restart would find.
Recovered == Overlay(main, wal)

\* No two users of a map of bindings share an identity.  load and applyWAL
\* refuse to start on a map that breaks it.
DistinctIdentities(book) ==
    \A u, v \in Users :
        /\ book[u] # NoBinding
        /\ book[v] # NoBinding
        /\ book[u].subject = book[v].subject
        => u = v

Fault == faults < MaxFaults /\ faults' = faults + 1

Init ==
    /\ bindings = Unbound
    /\ main = Unbound
    /\ wal = NoWAL
    /\ federated = NoGrants
    /\ pc = "down"
    /\ arg = NoWAL
    /\ issued = 0
    /\ newest = [u \in Users |-> 0]
    /\ faults = 0
    /\ acked = Unbound

-----------------------------------------------------------------------------
(* Startup: newBindingStore, load, applyWAL.                               *)

\* The process exits: what is in memory is gone, here and in package auth.
Exit ==
    /\ pc' = "down"
    /\ arg' = NoWAL
    /\ bindings' = Unbound
    /\ federated' = NoGrants

Ready ==
    /\ pc' = "idle"
    /\ arg' = NoWAL

Load ==
    /\ pc = "down"
    /\ DistinctIdentities(main)
    /\ wal = NoWAL
    /\ bindings' = main
    /\ federated' = GrantsOf(main)
    /\ Ready
    /\ UNCHANGED <<main, wal, issued, newest, faults, acked>>

\* applyWAL up to its save.
LoadAndApplyWAL ==
    /\ pc = "down"
    /\ DistinctIdentities(main)
    /\ wal # NoWAL
    /\ DistinctIdentities(Recovered)
    /\ bindings' = Recovered
    /\ pc' = "replay_save"
    /\ UNCHANGED <<main, wal, federated, arg, issued, newest, faults, acked>>

\* Mutant: the replay clears the WAL without having saved its binding.
ReplaySaveSkipped ==
    /\ pc = "replay_save"
    /\ pc' = "replay_clear"
    /\ UNCHANGED <<bindings, main, wal, federated, arg, issued, newest, faults, acked>>

ReplaySave ==
    /\ pc = "replay_save"
    /\ main' = bindings
    /\ pc' = "replay_clear"
    /\ UNCHANGED <<bindings, wal, federated, arg, issued, newest, faults, acked>>

ReplayClearWAL ==
    /\ pc = "replay_clear"
    /\ wal' = NoWAL
    /\ federated' = GrantsOf(bindings)
    /\ Ready
    /\ UNCHANGED <<bindings, main, issued, newest, faults, acked>>

\* A failed save or unlink of the replay stops the startup.
ReplayFails ==
    /\ pc \in {"replay_save", "replay_clear"}
    /\ Fault
    /\ Exit
    /\ UNCHANGED <<main, wal, issued, newest, acked>>

-----------------------------------------------------------------------------
(* putBinding: a verified grant is stored after a login or a refresh.      *)

\* The two conflicts putBinding answers with errIdentityAlreadyBound and
\* errTelegramAlreadyBound.
\* Mutant: looks for the identity in the main file instead of the memory.
IdentityTakenOnDisk(u, s) ==
    \E v \in Users \ {u} : main[v] # NoBinding /\ main[v].subject = s

IdentityTaken(u, s) ==
    \E v \in Users \ {u} : bindings[v] # NoBinding /\ bindings[v].subject = s

OtherIdentity(u, s) ==
    bindings[u] # NoBinding /\ bindings[u].subject # s

\* The token of the grant: a fresh one, or the present one when the provider
\* answered a refresh without rotating it.
GrantToken(u, t) ==
    \/ t = issued + 1 /\ issued < MaxTokens /\ issued' = t
    \/ bindings[u] # NoBinding /\ t = bindings[u].token /\ issued' = issued

PutInMemory(u, item) ==
    /\ pc = "idle"
    /\ ~IdentityTaken(u, item.subject)
    /\ ~OtherIdentity(u, item.subject)
    /\ GrantToken(u, item.token)
    /\ bindings' = [bindings EXCEPT ![u] = item]
    /\ arg' = [user |-> u, item |-> item]
    /\ newest' = [newest EXCEPT ![u] = item.token]
    /\ acked' = [acked EXCEPT ![u] = Unsettled]

PutWriteWAL(u, item) ==
    /\ PutInMemory(u, item)
    /\ wal' = [user |-> u, item |-> item]
    /\ pc' = "put_save"
    /\ UNCHANGED <<main, federated, faults>>

\* The WAL cannot be written: what it held before stays.
PutWALFails(u, item) ==
    /\ PutInMemory(u, item)
    /\ Fault
    /\ pc' = "put_fallback"
    /\ UNCHANGED <<main, wal, federated>>

ReplaceFederated(u) ==
    federated' = [federated EXCEPT ![u] = PermsOf(bindings[u])]

Acknowledge(u) == acked' = [acked EXCEPT ![u] = bindings[u]]

\* Mutant: the WAL is cleared and the put acknowledged without a save.
PutSaveSkipped ==
    /\ pc = "put_save"
    /\ pc' = "put_clear"
    /\ UNCHANGED <<bindings, main, wal, federated, arg, issued, newest, faults, acked>>

PutSave ==
    /\ pc = "put_save"
    /\ main' = bindings
    /\ pc' = "put_clear"
    /\ UNCHANGED <<bindings, wal, federated, arg, issued, newest, faults, acked>>

\* Mutant: the failed put tidies up the WAL.
PutSaveFailsClearingWAL ==
    /\ pc = "put_save"
    /\ Fault
    /\ Ready
    /\ wal' = NoWAL
    /\ UNCHANGED <<bindings, main, federated, issued, newest, acked>>

PutSaveFails ==
    /\ pc = "put_save"
    /\ Fault
    /\ Ready
    /\ UNCHANGED <<bindings, main, wal, federated, issued, newest, acked>>

PutClearWAL ==
    /\ pc = "put_clear"
    /\ wal' = NoWAL
    /\ ReplaceFederated(arg.user)
    /\ Acknowledge(arg.user)
    /\ Ready
    /\ UNCHANGED <<bindings, main, issued, newest, faults>>

PutClearWALFails ==
    /\ pc = "put_clear"
    /\ Fault
    /\ Ready
    /\ UNCHANGED <<bindings, main, wal, federated, issued, newest, acked>>

\* Without a WAL, the main file alone makes the put durable.
PutFallbackSave ==
    /\ pc = "put_fallback"
    /\ main' = bindings
    /\ ReplaceFederated(arg.user)
    /\ Acknowledge(arg.user)
    /\ Ready
    /\ UNCHANGED <<bindings, wal, issued, newest, faults>>

PutFallbackSaveFails ==
    /\ pc = "put_fallback"
    /\ Fault
    /\ ReplaceFederated(arg.user)
    /\ Ready
    /\ UNCHANGED <<bindings, main, wal, issued, newest, acked>>

-----------------------------------------------------------------------------
(* remove: the user unbinds.                                               *)

\* Mutant: remove leaves the WAL alone.
ClearWALNever(u) == wal' = wal

ClearWALMatching(u) ==
    wal' = IF wal # NoWAL /\ wal.user = u THEN NoWAL ELSE wal

Remove(u) ==
    /\ pc = "idle"
    /\ bindings[u] # NoBinding
    /\ ClearWALMatching(u)
    /\ arg' = [user |-> u, item |-> bindings[u]]
    /\ bindings' = [bindings EXCEPT ![u] = NoBinding]
    /\ pc' = "remove_save"
    /\ UNCHANGED <<main, federated, issued, newest, faults, acked>>

\* The WAL cannot be read or unlinked: remove returns before it changes
\* anything.
RemoveClearWALFails(u) ==
    /\ pc = "idle"
    /\ bindings[u] # NoBinding
    /\ wal # NoWAL
    /\ Fault
    /\ UNCHANGED <<bindings, main, wal, federated, pc, arg, issued, newest, acked>>

\* Mutant: remove forgets the permissions in package auth.
RemoveSaveKeepingGrants ==
    /\ pc = "remove_save"
    /\ main' = bindings
    /\ Acknowledge(arg.user)
    /\ Ready
    /\ newest' = [newest EXCEPT ![arg.user] = 0]
    /\ UNCHANGED <<bindings, wal, federated, issued, faults>>

RemoveSave ==
    /\ pc = "remove_save"
    /\ main' = bindings
    /\ federated' = [federated EXCEPT ![arg.user] = {}]
    /\ Acknowledge(arg.user)
    /\ Ready
    /\ newest' = [newest EXCEPT ![arg.user] = 0]
    /\ UNCHANGED <<bindings, wal, issued, faults>>

RemoveSaveFails ==
    /\ pc = "remove_save"
    /\ Fault
    /\ bindings' = [bindings EXCEPT ![arg.user] = arg.item]
    /\ Ready
    /\ UNCHANGED <<main, wal, federated, issued, newest, acked>>

-----------------------------------------------------------------------------
(* recordRefreshFailure, and the other operations that rewrite the file.   *)

\* The provider denied the account or rejected its credential: the binding
\* stays, without permissions.  A failed save restores the memory, so that
\* nothing changes.
RecordDenial(u) ==
    LET cleared == [bindings[u] EXCEPT !.perms = {}]
    IN  /\ pc = "idle"
        /\ bindings[u] # NoBinding
        /\ bindings' = [bindings EXCEPT ![u] = cleared]
        /\ main' = [bindings EXCEPT ![u] = cleared]
        /\ federated' = [federated EXCEPT ![u] = {}]
        /\ acked' = [acked EXCEPT ![u] = cleared]
        /\ UNCHANGED <<wal, pc, arg, issued, newest, faults>>

\* A transient refresh failure, and every ticket or transaction operation of
\* the login, saves the whole store without changing a binding.
SaveStore ==
    /\ pc = "idle"
    /\ main' = bindings
    /\ UNCHANGED <<bindings, wal, federated, pc, arg, issued, newest, faults, acked>>

\* The failure of such a save, or of RecordDenial's.
SaveFails ==
    /\ pc = "idle"
    /\ Fault
    /\ UNCHANGED <<bindings, main, wal, federated, pc, arg, issued, newest, acked>>

-----------------------------------------------------------------------------
(* The process dies and is started again by Load.                          *)

\* After a file operation has failed, the tokens that no file is sure to hold
\* while the save of an operation is still to come: its user's own, when it has
\* no write-ahead file or has cleared it; or else anybody's whose only copy may
\* have been in the write-ahead file before.
AtRisk(u) ==
    /\ faults > 0
    /\ \/ pc \in {"put_fallback", "remove_save"} /\ u = arg.user
       \/ pc = "put_save" /\ u # arg.user

\* A token that is at risk may be lost with the process.
Crash ==
    /\ pc # "down"
    /\ Exit
    /\ newest' = [u \in Users |-> IF AtRisk(u) THEN 0 ELSE newest[u]]
    /\ UNCHANGED <<main, wal, issued, faults, acked>>

Put(u) == \E item \in Binding : PutWriteWAL(u, item) \/ PutWALFails(u, item)

Next ==
    \/ Load \/ LoadAndApplyWAL \/ ReplaySave \/ ReplayClearWAL \/ ReplayFails
    \/ \E u \in Users : Put(u) \/ Remove(u) \/ RemoveClearWALFails(u)
                        \/ RecordDenial(u)
    \/ PutSave \/ PutSaveFails \/ PutClearWAL \/ PutClearWALFails
    \/ PutFallbackSave \/ PutFallbackSaveFails
    \/ RemoveSave \/ RemoveSaveFails
    \/ SaveStore \/ SaveFails
    \/ Crash

Spec == Init /\ [][Next]_vars

-----------------------------------------------------------------------------
(* Properties.                                                             *)

Stages == {"down", "replay_save", "replay_clear", "idle", "put_save",
           "put_clear", "put_fallback", "remove_save"}

Books == [Users -> Binding \union {NoBinding}]

\* Every variable holds a value of its kind.
TypeOK ==
    /\ bindings \in Books
    /\ main \in Books
    /\ wal \in WALFile \union {NoWAL}
    /\ federated \in [Users -> SUBSET Perms]
    /\ pc \in Stages
    /\ arg \in WALFile \union {NoWAL}
    /\ issued \in 0..MaxTokens
    /\ newest \in [Users -> 0..MaxTokens]
    /\ faults \in 0..MaxFaults
    /\ acked \in [Users -> Binding \union {NoBinding, Unsettled}]

\* The store never writes files that its own startup refuses: at whatever
\* point the process dies, neither the main file nor the main file under the
\* write-ahead binding gives one identity to two users, which load and
\* applyWAL answer with "duplicate persisted identity binding".
StartupNeverRefused ==
    DistinctIdentities(main) /\ DistinctIdentities(Recovered)

\* One identity of the provider is bound to at most one Telegram user, in
\* memory and in what a restart would find (errIdentityAlreadyBound).
IdentityUnique == DistinctIdentities(bindings) /\ StartupNeverRefused

\* A user whose unbinding was acknowledged, and who did not bind again, stays
\* unbound: neither the main file, nor a write-ahead file left by an earlier
\* failure, nor a failed and restored operation of anyone brings it back.
RemovedStaysRemoved ==
    \A u \in Users : acked[u] = NoBinding =>
        /\ Recovered[u] = NoBinding
        /\ bindings[u] = NoBinding

\* Between operations, the provider's permissions are in force only for users
\* that are bound: whatever failed, an unbound user keeps none.
GrantsNeedBinding ==
    pc = "idle" =>
        \A u \in Users : federated[u] # {} => bindings[u] # NoBinding

\* The token that the provider issued last for a user, which retired the one
\* before, is in what a restart would find: at every point of every operation
\* and across crashes, and also after one file operation has failed.  Given up
\* is only this: a failure, and then the death of the process inside the next
\* put or remove, before its save, for the users AtRisk names.
RotatedTokenRecoverable ==
    faults <= 1 =>
        \A u \in Users : newest[u] # 0 /\ ~AtRisk(u) =>
            /\ Recovered[u] # NoBinding
            /\ Recovered[u].token = newest[u]

\* Without failed file operations, what was acknowledged is what a restart
\* finds, wherever the process dies.
AckedDurable ==
    faults = 0 =>
        \A u \in Users : acked[u] # Unsettled => Recovered[u] = acked[u]

\* Permissions the provider denied, and whose clearing was acknowledged, are
\* not there again after a restart ("ERP permissions have been cleared").
DenialSurvivesRestart ==
    \A u \in Users :
        acked[u] \notin {NoBinding, Unsettled} /\ acked[u].perms = {}
        => PermsOf(Recovered[u]) = {}

\* The durable state refines a registry whose operations are atomic.
Registry == INSTANCE BindingRegistry WITH registry <- Recovered

\* Until a file operation fails, the durable bindings are a registry whose
\* operations are atomic: a crash at any point of any operation leaves them as
\* they were before or as they are after it.
ImplementsRegistry ==
    Registry!Init /\ [][faults' = 0 => Registry!Next]_Recovered
=============================================================================
