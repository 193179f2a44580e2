-------------------------- MODULE MCAccountService --------------------------
(* Small instances of the account service.                                 *)
EXTENDS AccountService, TLC

CONSTANTS alice, erp1, erp2

MCUsers == {alice}

MCSubjects == {erp1, erp2}

MCSymmetry == Permutations(MCSubjects)
=============================================================================
