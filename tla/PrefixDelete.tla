---------------------------- MODULE PrefixDelete ----------------------------
(***************************************************************************)
(* s3::delete_prefix and s3::delete_keys: several invocations deleting the *)
(* objects of one backup path (two cleanups, or a cleanup and a rollback)  *)
(* through a batch API whose requests fail, fail ambiguously, or fail for  *)
(* some keys only, each request one step.                                  *)
(***************************************************************************)
EXTENDS Integers, FiniteSets

CONSTANTS
    Deleters,  \* the invocations of delete_prefix on the path
    Data,      \* the keys of the data objects
    Sidecar,   \* the key of the metadata sidecar
    Attempts   \* retry.attempts

ASSUME DataAssumption == IsFiniteSet(Data) /\ Sidecar \notin Data
ASSUME AttemptsAssumption == Attempts \in Nat \ {0}  \* Config::validate

VARIABLES
    objects,   \* the objects in the bucket under the prefix
    pc,        \* where each invocation is
    listed,    \* the keys its listing returned
    pending,   \* the keys delete_keys has yet to delete
    attempt,   \* the attempt of its delete_keys loop
    deleted,   \* DeleteOutcome.deleted
    failed     \* DeleteOutcome.failed

vars == <<objects, pc, listed, pending, attempt, deleted, failed>>

Keys == Data \cup {Sidecar}
Returned == {"done", "error", "crashed"}

TypeOK ==
    /\ objects \subseteq Keys
    /\ pc \in [Deleters -> {"list", "data", "sidecar"} \cup Returned]
    /\ listed \in [Deleters -> SUBSET Keys]
    /\ pending \in [Deleters -> SUBSET Keys]
    /\ attempt \in [Deleters -> 0 .. Attempts - 1]
    /\ deleted \in [Deleters -> Nat]
    /\ failed \in [Deleters -> Nat]

(* Any leftover of an earlier, interrupted deletion may be the start.      *)
Init ==
    /\ objects \in SUBSET Keys
    /\ pc = [d \in Deleters |-> "list"]
    /\ listed = [d \in Deleters |-> {}]
    /\ pending = [d \in Deleters |-> {}]
    /\ attempt = [d \in Deleters |-> 0]
    /\ deleted = [d \in Deleters |-> 0]
    /\ failed = [d \in Deleters |-> 0]

(* split_sidecar_last *)
NoSplit(keys) ==  \* faulty variant: the sidecar goes with the data
    keys

DataKeys(keys) == keys \ {Sidecar}
SidecarKeys(keys) == keys \cap {Sidecar}

(* delete_prefix after its first delete_keys: with every data object       *)
(* deleted it goes on to the sidecar, otherwise it keeps the sidecar.      *)
DeletesSidecarAnyway(d, left) ==  \* faulty variant: outcome.failed is not consulted
    SidecarKeys(listed[d])

NextKeys(d, left) ==
    IF left = {} THEN SidecarKeys(listed[d]) ELSE {}

(* What delete_prefix adds to failed for the sidecar it keeps.             *)
KeptSidecarUncounted(d, left) ==  \* faulty variant: the kept sidecar is no failure
    0

KeptSidecar(d, left) ==
    IF left = {} THEN 0 ELSE Cardinality(SidecarKeys(listed[d]))

(* delete_keys returns, with the keys of left counted as failed.           *)
DeleteKeysEnds(d, left) ==
    /\ attempt' = [attempt EXCEPT ![d] = 0]
    /\ IF pc[d] = "data"
         THEN /\ pending' = [pending EXCEPT ![d] = NextKeys(d, left)]
              /\ pc' = [pc EXCEPT ![d] = IF NextKeys(d, left) = {} THEN "done" ELSE "sidecar"]
              /\ failed' = [failed EXCEPT ![d] = @ + Cardinality(left) + KeptSidecar(d, left)]
         ELSE /\ pending' = [pending EXCEPT ![d] = {}]
              /\ pc' = [pc EXCEPT ![d] = "done"]
              /\ failed' = [failed EXCEPT ![d] = @ + Cardinality(left)]

RetryFromListing(d, left) ==  \* faulty variant: starts over with a new listing
    /\ attempt' = [attempt EXCEPT ![d] = 0]
    /\ pending' = [pending EXCEPT ![d] = {}]
    /\ pc' = [pc EXCEPT ![d] = "list"]
    /\ UNCHANGED failed

Retry(d, left) ==
    /\ attempt' = [attempt EXCEPT ![d] = @ + 1]
    /\ pending' = [pending EXCEPT ![d] = left]
    /\ UNCHANGED <<pc, failed>>

OneAttemptMore(d) ==  \* faulty variant: attempt < attempts
    attempt[d] < Attempts

AttemptsLeft(d) == attempt[d] + 1 < Attempts

(* The listing, retried by with_retry, answers or fails definitively.      *)
List(d) ==
    /\ pc[d] = "list"
    /\ listed' = [listed EXCEPT ![d] = objects]
    /\ pending' = [pending EXCEPT ![d] = DataKeys(objects)]
    /\ pc' = [pc EXCEPT ![d] = "data"]
    /\ UNCHANGED <<objects, attempt, deleted, failed>>

ListFails(d) ==
    /\ pc[d] = "list"
    /\ pc' = [pc EXCEPT ![d] = "error"]
    /\ UNCHANGED <<objects, listed, pending, attempt, deleted, failed>>

(* delete_keys is called with no keys and returns.                         *)
NothingPending(d) ==
    /\ pc[d] = "data" /\ pending[d] = {}
    /\ DeleteKeysEnds(d, {})
    /\ UNCHANGED <<objects, listed, deleted>>

(* A batch response: the keys without an error entry are deleted, an       *)
(* errored key may or may not be.  Errored keys are retried while attempts *)
(* are left.                                                               *)
CountSubmitted(d, errored) ==  \* faulty variant: errored keys are counted as deleted
    Cardinality(pending[d])

CountDeleted(d, errored) ==
    Cardinality(pending[d]) - Cardinality(errored)

BatchResponse(d) ==
    /\ pc[d] \in {"data", "sidecar"} /\ pending[d] # {}
    /\ \E errored \in SUBSET pending[d], applied \in SUBSET pending[d] :
          /\ pending[d] \ errored \subseteq applied
          /\ objects' = objects \ applied
          /\ deleted' = [deleted EXCEPT ![d] = @ + CountDeleted(d, errored)]
          /\ IF errored # {} /\ AttemptsLeft(d)
               THEN Retry(d, errored)
               ELSE DeleteKeysEnds(d, errored)
    /\ UNCHANGED listed

(* The request fails, applied or not: retried when the error is transient  *)
(* and attempts are left, else every key submitted counts as failed.       *)
TakenAsDone(d) ==  \* faulty variant: the keys of a failed request are not counted
    {}

FailedKeys(d) == pending[d]

BatchFails(d) ==
    /\ pc[d] \in {"data", "sidecar"} /\ pending[d] # {}
    /\ \E applied \in SUBSET pending[d], transient \in BOOLEAN :
          /\ objects' = objects \ applied
          /\ IF transient /\ AttemptsLeft(d)
               THEN Retry(d, pending[d])
               ELSE DeleteKeysEnds(d, FailedKeys(d))
    /\ UNCHANGED <<listed, deleted>>

Crash(d) ==
    /\ pc[d] \notin Returned
    /\ pc' = [pc EXCEPT ![d] = "crashed"]
    /\ UNCHANGED <<objects, listed, pending, attempt, deleted, failed>>

Step(d) ==
    \/ List(d) \/ ListFails(d)
    \/ NothingPending(d) \/ BatchResponse(d) \/ BatchFails(d)

Next == \E d \in Deleters : Step(d) \/ Crash(d)

Spec == Init /\ [][Next]_vars

(* A running invocation takes its next step: every request ends, because   *)
(* the client bounds each by S3_REQUEST_TIMEOUT.                           *)
Fairness == \A d \in Deleters : WF_vars(Step(d))

FairSpec == Spec /\ Fairness

(***************************************************************************)
(* Properties                                                              *)
(***************************************************************************)
(* Every listed key is counted exactly once, as deleted or as failed.      *)
EveryKeyCounted ==
    \A d \in Deleters :
        pc[d] = "done" => deleted[d] + failed[d] = Cardinality(listed[d])

(* Keys reported as deleted are gone: the report never claims more than    *)
(* what is missing from the bucket.                                        *)
NeverOverReports ==
    \A d \in Deleters : deleted[d] <= Cardinality(listed[d] \ objects)

(* DeleteOutcome::is_complete: without failures nothing is left under the  *)
(* prefix, whoever deleted it.                                             *)
CompleteMeansEmpty ==
    \A d \in Deleters : pc[d] = "done" /\ failed[d] = 0 => objects = {}

(* The sidecar is only removed from a prefix without data objects, so an   *)
(* interrupted deletion stays visible to discovery.                        *)
SidecarGoesLast ==
    [][(Sidecar \in objects \ objects') => objects' = {}]_vars

(* Every invocation returns (or its process dies): the retries are bounded. *)
Returns == \A d \in Deleters : <>(pc[d] \in Returned)

(* The contract its callers rely on.                                       *)
Outcome(d) ==
    IF pc[d] \in {"list", "data", "sidecar"} THEN "running"
    ELSE IF pc[d] = "done" /\ failed[d] = 0 THEN "complete"
    ELSE "incomplete"

Contract == INSTANCE DeleteContract WITH outcome <- [d \in Deleters |-> Outcome(d)]
MeetsContract == Contract!ContractSpec
=============================================================================
