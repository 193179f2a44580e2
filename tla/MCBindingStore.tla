--------------------------- MODULE MCBindingStore ---------------------------
(* Small instances of the binding store.                                   *)
EXTENDS BindingStore, TLC

CONSTANTS alice, bob, erp1, erp2

MCUsers == {alice, bob}

MCSubjects == {erp1, erp2}

\* Users are interchangeable, and so are identities.
MCSymmetry == Permutations(MCUsers) \union Permutations(MCSubjects)
=============================================================================
