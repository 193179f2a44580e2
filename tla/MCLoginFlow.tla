---------------------------- MODULE MCLoginFlow ----------------------------
(* Small instances of the login flow.                                      *)
EXTENDS LoginFlow, TLC

CONSTANTS alice, bob

MCUsers == {alice, bob}

MCSymmetry == Permutations(MCUsers)
=============================================================================
