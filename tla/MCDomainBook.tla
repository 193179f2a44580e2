---------------------------- MODULE MCDomainBook ----------------------------
(* Small instances of the domain book.                                     *)
EXTENDS DomainBook, TLC

CONSTANTS w1, w2, h1, h2

MCWorkers == {w1, w2}

MCHandlers == {h1, h2}

MCSymmetry == Permutations(MCWorkers) \union Permutations(MCHandlers)
=============================================================================
