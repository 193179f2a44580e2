---------------------------- MODULE MCAuthStore ----------------------------
(* Small instances of the authorization store.                             *)
EXTENDS AuthStore, TLC

CONSTANTS alice, bob, h1, h2

MCUsers == {alice, bob}

MCHandlers == {h1, h2}

MCSymmetry == Permutations(MCUsers) \union Permutations(MCHandlers)
=============================================================================
