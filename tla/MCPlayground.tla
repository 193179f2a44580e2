---------------------------- MODULE MCPlayground ----------------------------
(* A small instance of the playground's checks.                            *)
EXTENDS Playground, TLC

CONSTANTS k1, k2

MCChecks == {k1, k2}
=============================================================================
