-------------------------- MODULE MCActivationStore --------------------------
(***************************************************************************)
(* ActivationStore on small instances: three calls, of which any number    *)
(* bootstrap.                                                              *)
(***************************************************************************)
EXTENDS ActivationStore, TLC

Symmetry == Permutations(Call) \cup Permutations(Inode) \cup Permutations(Term)
=============================================================================
