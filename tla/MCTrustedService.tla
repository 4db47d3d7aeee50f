-------------------------- MODULE MCTrustedService --------------------------
(* An instance of TrustedServiceProvider for TLC: the clients of t2 take   *)
(* turns in creating and destroying it, those of t1 do not.                *)
EXTENDS TrustedServiceProvider, TLC

CONSTANT t2

TakingTurns == {t2}

Symmetry == Permutations(Thread)
=============================================================================
