-------------------------- MODULE BindingRegistry --------------------------
(***************************************************************************)
(* What the binding store promises: a registry of bindings, each of whose  *)
(* operations happens at once, and which a crash never changes.            *)
(***************************************************************************)
EXTENDS Naturals

CONSTANTS Users, Subjects, Perms, MaxTokens, NoBinding

VARIABLE registry

Bindings == [subject : Subjects, token : 1..MaxTokens, perms : SUBSET Perms]

Init == registry = [u \in Users |-> NoBinding]

\* putBinding: u binds an identity nobody else holds, or renews its own.
Bind(u) ==
    \E b \in Bindings :
        /\ \A v \in Users \ {u} :
               registry[v] # NoBinding => registry[v].subject # b.subject
        /\ registry[u] # NoBinding =>
               /\ registry[u].subject = b.subject
               /\ registry[u].token <= b.token
        /\ registry' = [registry EXCEPT ![u] = b]

\* recordRefreshFailure on a denial: the binding stays, without permissions.
Deny(u) ==
    /\ registry[u] # NoBinding
    /\ registry' = [registry EXCEPT ![u].perms = {}]

\* remove.
Unbind(u) ==
    /\ registry[u] # NoBinding
    /\ registry' = [registry EXCEPT ![u] = NoBinding]

Next == \E u \in Users : Bind(u) \/ Deny(u) \/ Unbind(u)

Spec == Init /\ [][Next]_registry
=============================================================================
