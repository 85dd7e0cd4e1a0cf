------------------------------- MODULE MCVault -------------------------------
(***************************************************************************)
(* Vault for TLC: the invocations are interchangeable.  The symmetry is    *)
(* sound because they are only ordered by their timestamps, which are      *)
(* distinct, and because no liveness is checked here.                      *)
(***************************************************************************)
EXTENDS Vault, TLC

Symmetry == Permutations(Procs)
=============================================================================
