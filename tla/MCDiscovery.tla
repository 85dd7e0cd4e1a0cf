---------------------------- MODULE MCDiscovery -----------------------------
(***************************************************************************)
(* Discovery for TLC: paths are interchangeable, as they are ordered by    *)
(* their distinct timestamps only and no liveness is checked.  The second  *)
(* request wraps to a shorter maximum age.                                 *)
(***************************************************************************)
EXTENDS Discovery, TLC

Symmetry == Permutations(Backups)
MCRequests == {[value |-> 2, unit |-> 1], [value |-> 3, unit |-> 3]}
=============================================================================
