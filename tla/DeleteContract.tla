--------------------------- MODULE DeleteContract ---------------------------
(***************************************************************************)
(* What delete_prefix promises its callers (cleanup and rollback), however *)
(* its requests fail and however many callers delete the same prefix: the  *)
(* objects only become fewer, the metadata sidecar is the last to go, and  *)
(* a caller told that the deletion is complete finds nothing left.         *)
(***************************************************************************)
CONSTANTS Deleters, Data, Sidecar

VARIABLES
    objects,  \* the objects under the prefix
    outcome   \* what each caller was told

contractVars == <<objects, outcome>>

ContractInit ==
    /\ objects \in SUBSET (Data \cup {Sidecar})
    /\ outcome = [d \in Deleters |-> "running"]

(* A deleter removes objects and may come to its answer.                   *)
Delete(d) ==
    /\ outcome[d] = "running"
    /\ objects' \subseteq objects
    /\ Sidecar \in objects \ objects' => objects' = {}
    /\ \/ outcome' = outcome
       \/ outcome' = [outcome EXCEPT ![d] = "incomplete"]
       \/ objects' = {} /\ outcome' = [outcome EXCEPT ![d] = "complete"]

ContractNext == \E d \in Deleters : Delete(d)

ContractSpec == ContractInit /\ [][ContractNext]_contractVars
=============================================================================
