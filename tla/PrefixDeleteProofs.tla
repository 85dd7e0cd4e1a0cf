------------------------- MODULE PrefixDeleteProofs -------------------------
(***************************************************************************)
(* Theorems about PrefixDelete, for any number of invocations, of objects  *)
(* and of attempts: type correctness, what a complete answer means, that   *)
(* the sidecar goes last, and that delete_prefix meets its contract.       *)
(***************************************************************************)
EXTENDS PrefixDelete, FiniteSetTheorems, TLAPS

LEMMA KeysFinite == \A S \in SUBSET Keys : IsFiniteSet(S) /\ Cardinality(S) \in Nat
<1>1. IsFiniteSet(Keys)
  BY DataAssumption, FS_AddElement DEF Keys
<1>2. QED
  BY <1>1, FS_Subset, FS_CardinalityType

LEMMA TypeInit == Init => TypeOK
  BY AttemptsAssumption DEF Init, TypeOK, Returned, Keys

LEMMA EndsTyped ==
    ASSUME TypeOK, NEW d \in Deleters, NEW left \in SUBSET Keys, DeleteKeysEnds(d, left)
    PROVE  /\ pc' \in [Deleters -> {"list", "data", "sidecar"} \cup Returned]
           /\ pending' \in [Deleters -> SUBSET Keys]
           /\ attempt' \in [Deleters -> 0 .. Attempts - 1]
           /\ failed' \in [Deleters -> Nat]
<1>1. Cardinality(left) \in Nat /\ KeptSidecar(d, left) \in Nat
  BY KeysFinite DEF KeptSidecar, SidecarKeys, TypeOK
<1>2. NextKeys(d, left) \in SUBSET Keys
  BY DEF NextKeys, SidecarKeys, TypeOK, Keys
<1>3. QED
  BY <1>1, <1>2, AttemptsAssumption DEF TypeOK, DeleteKeysEnds, Returned

LEMMA RetryTyped ==
    ASSUME TypeOK, NEW d \in Deleters, NEW left \in SUBSET Keys, AttemptsLeft(d), Retry(d, left)
    PROVE  /\ pc' \in [Deleters -> {"list", "data", "sidecar"} \cup Returned]
           /\ pending' \in [Deleters -> SUBSET Keys]
           /\ attempt' \in [Deleters -> 0 .. Attempts - 1]
           /\ failed' \in [Deleters -> Nat]
  BY AttemptsAssumption DEF TypeOK, Retry, AttemptsLeft

LEMMA TypeStep == TypeOK /\ [Next]_vars => TypeOK'
<1> SUFFICES ASSUME TypeOK, [Next]_vars PROVE TypeOK'
  OBVIOUS
<1>1. CASE UNCHANGED vars
  BY <1>1 DEF TypeOK, vars
<1>2. ASSUME NEW d \in Deleters, List(d) PROVE TypeOK'
  BY <1>2 DEF TypeOK, List, DataKeys, Returned
<1>3. ASSUME NEW d \in Deleters, ListFails(d) PROVE TypeOK'
  BY <1>3 DEF TypeOK, ListFails, Returned
<1>4. ASSUME NEW d \in Deleters, NothingPending(d) PROVE TypeOK'
  <2>1. DeleteKeysEnds(d, {}) /\ UNCHANGED <<objects, listed, deleted>>
    BY <1>4 DEF NothingPending
  <2>2. QED
    BY <2>1, EndsTyped DEF TypeOK
<1>5. ASSUME NEW d \in Deleters, BatchResponse(d) PROVE TypeOK'
  <2>1. PICK errored \in SUBSET pending[d], applied \in SUBSET pending[d] :
           /\ objects' = objects \ applied
           /\ deleted' = [deleted EXCEPT ![d] = @ + CountDeleted(d, errored)]
           /\ \/ AttemptsLeft(d) /\ Retry(d, errored)
              \/ DeleteKeysEnds(d, errored)
    BY <1>5 DEF BatchResponse
  <2>2. CountDeleted(d, errored) \in Nat
    BY KeysFinite, FS_Subset DEF CountDeleted, TypeOK
  <2>3. UNCHANGED listed /\ errored \in SUBSET Keys
    BY <1>5 DEF BatchResponse, TypeOK
  <2>4. deleted' \in [Deleters -> Nat] /\ objects' \subseteq Keys
    BY <2>1, <2>2 DEF TypeOK
  <2>5. QED
    BY <2>1, <2>3, <2>4, EndsTyped, RetryTyped DEF TypeOK
<1>6. ASSUME NEW d \in Deleters, BatchFails(d) PROVE TypeOK'
  <2>1. /\ objects' \subseteq Keys /\ UNCHANGED <<listed, deleted>>
        /\ pending[d] \in SUBSET Keys
        /\ (AttemptsLeft(d) /\ Retry(d, pending[d])) \/ DeleteKeysEnds(d, pending[d])
    BY <1>6 DEF BatchFails, FailedKeys, TypeOK
  <2>2. QED
    BY <2>1, EndsTyped, RetryTyped DEF TypeOK
<1>7. ASSUME NEW d \in Deleters, Crash(d) PROVE TypeOK'
  BY <1>7 DEF TypeOK, Crash, Returned
<1>8. QED
  BY <1>1, <1>2, <1>3, <1>4, <1>5, <1>6, <1>7 DEF Next, Step

(* Every variable of PrefixDelete keeps its type; in particular the loop   *)
(* of delete_keys never exceeds its attempts.                              *)
THEOREM TypeCorrect == Spec => []TypeOK
  BY TypeInit, TypeStep, PTL DEF Spec

(***************************************************************************)
(* What an invocation has still to delete covers what is left: the objects *)
(* only become fewer, so they stay among those it listed.                  *)
(***************************************************************************)
Covers(d) ==
    /\ pc[d] \in {"list", "data", "sidecar"} => failed[d] = 0
    /\ pc[d] = "data" =>
          /\ objects \subseteq pending[d] \cup SidecarKeys(listed[d])
          /\ pending[d] \subseteq Data
    /\ pc[d] = "sidecar" =>
          objects \subseteq {Sidecar} /\ pending[d] = {Sidecar}
    /\ pc[d] = "done" /\ failed[d] = 0 => objects = {}

CoverInv == TypeOK /\ \A d \in Deleters : Covers(d)

LEMMA CoverInit == Init => CoverInv
  BY TypeInit DEF Init, CoverInv, Covers

LEMMA OthersCovered ==
    ASSUME TypeOK, NEW d \in Deleters, Covers(d), objects' \subseteq objects,
           pc'[d] = pc[d], listed'[d] = listed[d], pending'[d] = pending[d],
           failed'[d] = failed[d]
    PROVE  Covers(d)'
  BY DEF Covers, SidecarKeys

(* The end of delete_keys, with everything but left applied.               *)
LEMMA EndsCovered ==
    ASSUME TypeOK, NEW d \in Deleters, Covers(d), pc[d] \in {"data", "sidecar"},
           NEW left \in SUBSET pending[d], DeleteKeysEnds(d, left),
           objects' \subseteq objects \ (pending[d] \ left), UNCHANGED listed
    PROVE  Covers(d)'
<1>1. Cardinality(left) \in Nat /\ (left # {} => Cardinality(left) > 0)
  BY KeysFinite, FS_EmptySet DEF TypeOK
<1>2. KeptSidecar(d, left) \in Nat
  BY KeysFinite DEF KeptSidecar, SidecarKeys, TypeOK
<1>3. failed[d] = 0
  BY DEF Covers
<1>4. CASE pc[d] = "data" /\ left = {}
  <2>1. Cardinality(left) = 0 /\ KeptSidecar(d, left) = 0
    BY <1>4, FS_EmptySet DEF KeptSidecar
  <2>2. failed'[d] = 0
    BY <1>3, <1>4, <2>1 DEF DeleteKeysEnds, TypeOK
  <2>3. objects' \subseteq SidecarKeys(listed[d])
    BY <1>4 DEF Covers
  <2>4. /\ pending'[d] = SidecarKeys(listed[d])
        /\ pc'[d] = IF SidecarKeys(listed[d]) = {} THEN "done" ELSE "sidecar"
    BY <1>4 DEF DeleteKeysEnds, NextKeys, TypeOK
  <2>5. QED
    BY <2>2, <2>3, <2>4 DEF Covers, SidecarKeys
<1>5. CASE pc[d] = "data" /\ left # {}
  BY <1>1, <1>2, <1>3, <1>5 DEF DeleteKeysEnds, NextKeys, Covers, TypeOK
<1>6. CASE pc[d] = "sidecar"
  <2>1. pc'[d] = "done" /\ failed'[d] = Cardinality(left)
    BY <1>1, <1>3, <1>6 DEF DeleteKeysEnds, TypeOK
  <2>2. left = {} => objects' = {}
    BY <1>6 DEF Covers
  <2>3. QED
    BY <1>1, <2>1, <2>2 DEF Covers
<1>7. QED
  BY <1>4, <1>5, <1>6

LEMMA RetryCovered ==
    ASSUME TypeOK, NEW d \in Deleters, Covers(d), pc[d] \in {"data", "sidecar"},
           NEW left \in SUBSET pending[d], left # {}, Retry(d, left),
           objects' \subseteq objects \ (pending[d] \ left), UNCHANGED listed
    PROVE  Covers(d)'
  BY DEF Covers, Retry, TypeOK, SidecarKeys

(* The other invocations: a step of d changes nothing of theirs.           *)
LEMMA OthersUntouched ==
    ASSUME TypeOK, NEW d \in Deleters, Step(d) \/ Crash(d), NEW e \in Deleters, e # d
    PROVE  /\ pc'[e] = pc[e] /\ listed'[e] = listed[e]
           /\ pending'[e] = pending[e] /\ failed'[e] = failed[e]
<1>1. CASE List(d) \/ ListFails(d) \/ Crash(d)
  BY <1>1 DEF List, ListFails, Crash, TypeOK
<1>2. ASSUME NEW left, DeleteKeysEnds(d, left) \/ Retry(d, left)
      PROVE  pc'[e] = pc[e] /\ pending'[e] = pending[e] /\ failed'[e] = failed[e]
  BY <1>2 DEF DeleteKeysEnds, Retry, TypeOK
<1>3. CASE NothingPending(d)
  BY <1>2, <1>3 DEF NothingPending
<1>4. CASE BatchResponse(d)
  BY <1>2, <1>4 DEF BatchResponse
<1>5. CASE BatchFails(d)
  BY <1>2, <1>5 DEF BatchFails
<1>6. QED
  BY <1>1, <1>3, <1>4, <1>5 DEF Step

LEMMA ObjectsOnlyShrink ==
    ASSUME NEW d \in Deleters, Step(d) \/ Crash(d)
    PROVE  objects' \subseteq objects
  BY DEF Step, List, ListFails, NothingPending, BatchResponse, BatchFails, Crash

(* A request, whatever it applies and answers, deletes objects of pending  *)
(* and leaves those it reports to Retry or to the end of delete_keys.      *)
LEMMA RequestAnswer ==
    ASSUME NEW d \in Deleters, NothingPending(d) \/ BatchResponse(d) \/ BatchFails(d)
    PROVE  /\ pc[d] \in {"data", "sidecar"} /\ UNCHANGED listed
           /\ objects \ objects' \subseteq pending[d]
           /\ \E left \in SUBSET pending[d] :
                 /\ objects' \subseteq objects \ (pending[d] \ left)
                 /\ \/ left # {} /\ Retry(d, left)
                    \/ DeleteKeysEnds(d, left)
<1>1. CASE NothingPending(d)
  BY <1>1 DEF NothingPending
<1>2. CASE BatchResponse(d)
  <2>1. PICK errored \in SUBSET pending[d], applied \in SUBSET pending[d] :
           /\ pending[d] \ errored \subseteq applied
           /\ objects' = objects \ applied
           /\ \/ errored # {} /\ Retry(d, errored)
              \/ DeleteKeysEnds(d, errored)
    BY <1>2 DEF BatchResponse
  <2>2. objects' \subseteq objects \ (pending[d] \ errored)
    BY <2>1
  <2>3. objects \ objects' \subseteq pending[d]
    BY <2>1
  <2>4. QED
    BY <1>2, <2>1, <2>2, <2>3 DEF BatchResponse
<1>3. CASE BatchFails(d)
  <2>1. PICK applied \in SUBSET pending[d] :
           /\ objects' = objects \ applied
           /\ Retry(d, pending[d]) \/ DeleteKeysEnds(d, pending[d])
    BY <1>3 DEF BatchFails, FailedKeys
  <2>2. objects' \subseteq objects \ (pending[d] \ pending[d])
    BY <2>1
  <2>3. objects \ objects' \subseteq pending[d]
    BY <2>1
  <2>4. pending[d] # {} /\ pending[d] \in SUBSET pending[d]
    BY <1>3 DEF BatchFails
  <2>5. QED
    BY <1>3, <2>1, <2>2, <2>3, <2>4 DEF BatchFails
<1>4. QED
  BY <1>1, <1>2, <1>3

LEMMA CoverStep == CoverInv /\ [Next]_vars => CoverInv'
<1> SUFFICES ASSUME CoverInv, [Next]_vars PROVE CoverInv'
  OBVIOUS
<1>1. TypeOK /\ TypeOK' /\ \A e \in Deleters : Covers(e)
  BY TypeStep DEF CoverInv
<1>2. CASE UNCHANGED vars
  BY <1>1, <1>2, OthersCovered DEF CoverInv, vars
<1>3. ASSUME NEW d \in Deleters, Step(d) \/ Crash(d) PROVE CoverInv'
  <2>1. objects' \subseteq objects
    BY <1>3, ObjectsOnlyShrink
  <2>2. ASSUME NEW e \in Deleters, e # d PROVE Covers(e)'
    BY <1>1, <1>3, <2>1, <2>2, OthersUntouched, OthersCovered
  <2>3. ASSUME List(d) PROVE Covers(d)'
    BY <1>1, <2>3 DEF List, Covers, TypeOK, DataKeys, SidecarKeys, Keys
  <2>4. ASSUME ListFails(d) \/ Crash(d) PROVE Covers(d)'
    BY <1>1, <2>4 DEF ListFails, Crash, Covers, TypeOK
  <2>5. ASSUME NothingPending(d) \/ BatchResponse(d) \/ BatchFails(d) PROVE Covers(d)'
    BY <1>1, <2>5, RequestAnswer, EndsCovered, RetryCovered
  <2>6. Covers(d)'
    BY <1>3, <2>3, <2>4, <2>5 DEF Step
  <2>7. QED
    BY <1>1, <2>2, <2>6 DEF CoverInv
<1>4. QED
  BY <1>2, <1>3 DEF Next

(* is_complete tells the truth: a deletion without failures leaves nothing *)
(* under the prefix, with any number of concurrent deleters, of objects    *)
(* and of attempts.                                                        *)
THEOREM CompleteSafe == Spec => []CompleteMeansEmpty
<1>1. CoverInv => CompleteMeansEmpty
  BY DEF CoverInv, Covers, CompleteMeansEmpty
<1>2. QED
  BY <1>1, CoverInit, CoverStep, PTL DEF Spec

LEMMA SidecarStep ==
    ASSUME CoverInv, [Next]_vars, Sidecar \in objects, Sidecar \notin objects'
    PROVE  objects' = {}
<1>1. PICK d \in Deleters : Step(d) \/ Crash(d)
  BY DEF Next, vars
<1>2. NothingPending(d) \/ BatchResponse(d) \/ BatchFails(d)
  BY <1>1 DEF Step, List, ListFails, Crash
<1>3. pc[d] \in {"data", "sidecar"} /\ Sidecar \in pending[d]
  BY <1>2, RequestAnswer
<1>4. objects \subseteq {Sidecar}
  BY <1>3, DataAssumption DEF CoverInv, Covers
<1>5. QED
  BY <1>1, <1>4, ObjectsOnlyShrink

(* No step removes the sidecar while a data object remains: whatever       *)
(* interrupts a deletion, discovery still sees what is left of the backup. *)
THEOREM SidecarLast == Spec => SidecarGoesLast
<1>1. CoverInv /\ [Next]_vars => [(Sidecar \in objects \ objects') => objects' = {}]_vars
  BY SidecarStep
<1>2. QED
  BY <1>1, CoverInit, CoverStep, PTL DEF Spec, SidecarGoesLast

(***************************************************************************)
(* delete_prefix meets its contract.                                       *)
(***************************************************************************)
Outcomes == [d \in Deleters |-> Outcome(d)]

LEMMA ContractStarts == Init => Contract!ContractInit
  BY DEF Init, Contract!ContractInit, Outcome, Keys

(* An invocation at work has not answered; its step gives one of the three *)
(* answers, and the outcome of the others is untouched.                    *)
LEMMA OutcomeStep ==
    ASSUME CoverInv, CoverInv', NEW d \in Deleters, Step(d) \/ Crash(d)
    PROVE  /\ Outcome(d) = "running"
           /\ Outcome(d)' \in {"running", "complete", "incomplete"}
           /\ Outcome(d)' = "complete" => objects' = {}
           /\ \A e \in Deleters \ {d} : Outcome(e)' = Outcome(e)
<1>1. pc[d] \in {"list", "data", "sidecar"}
  BY DEF Step, List, ListFails, NothingPending, BatchResponse, BatchFails, Crash,
         CoverInv, TypeOK, Returned
<1>2. Outcome(d)' = "complete" => objects' = {}
  BY DEF Outcome, CoverInv, Covers
<1>3. \A e \in Deleters \ {d} : Outcome(e)' = Outcome(e)
  BY OthersUntouched DEF Outcome, CoverInv
<1>4. QED
  BY <1>1, <1>2, <1>3 DEF Outcome

LEMMA ContractStep ==
    ASSUME CoverInv, CoverInv', [Next]_vars
    PROVE  [Contract!ContractNext]_(<<objects, Outcomes>>)
<1>1. CASE UNCHANGED vars
  BY <1>1 DEF vars, Outcomes, Outcome
<1>2. ASSUME NEW d \in Deleters, Step(d) \/ Crash(d) PROVE Contract!Delete(d)
  <2>1. objects' \subseteq objects
    BY <1>2, ObjectsOnlyShrink
  <2>2. (Sidecar \in objects \ objects') => objects' = {}
    BY <1>2, SidecarStep DEF Next
  <2>3. /\ Outcome(d) = "running"
        /\ Outcome(d)' \in {"running", "complete", "incomplete"}
        /\ Outcome(d)' = "complete" => objects' = {}
        /\ \A e \in Deleters \ {d} : Outcome(e)' = Outcome(e)
    BY <1>2, OutcomeStep
  <2>4. Outcomes' = [Outcomes EXCEPT ![d] = Outcome(d)']
    BY <2>3 DEF Outcomes
  <2>5. \/ Outcomes' = Outcomes
        \/ Outcomes' = [Outcomes EXCEPT ![d] = "incomplete"]
        \/ objects' = {} /\ Outcomes' = [Outcomes EXCEPT ![d] = "complete"]
    <3>1. CASE Outcome(d)' = "running"
      BY <2>3, <2>4, <3>1 DEF Outcomes
    <3>2. CASE Outcome(d)' # "running"
      BY <2>3, <2>4, <3>2
    <3>3. QED
      BY <3>1, <3>2
  <2>6. QED
    BY <2>1, <2>2, <2>3, <2>5 DEF Contract!Delete, Outcomes
<1>3. QED
  BY <1>1, <1>2 DEF Next, Contract!ContractNext

(* Refinement: with retries, partial failures, ambiguous requests, crashes *)
(* and concurrent deleters, every step of delete_prefix is a step of       *)
(* DeleteContract or changes nothing its callers see.                      *)
THEOREM Implements == Spec => MeetsContract
<1>1. CoverInv /\ CoverInv' /\ [Next]_vars => [Contract!ContractNext]_(Contract!contractVars)
  BY ContractStep DEF Contract!contractVars, Outcomes
<1>2. QED
  BY <1>1, CoverInit, CoverStep, ContractStarts, PTL
     DEF Spec, MeetsContract, Contract!ContractSpec

(***************************************************************************)
(* The counts.  While delete_keys runs, what was deleted, what is pending  *)
(* and the sidecar still to come add up to what was listed.                *)
(***************************************************************************)
Counted(d) ==
    /\ pc[d] = "list" => deleted[d] = 0
    /\ pc[d] = "data" =>
          deleted[d] + Cardinality(pending[d]) + Cardinality(SidecarKeys(listed[d]))
              = Cardinality(listed[d])
    /\ pc[d] = "sidecar" =>
          deleted[d] + Cardinality(pending[d]) = Cardinality(listed[d])
    /\ pc[d] = "done" => deleted[d] + failed[d] = Cardinality(listed[d])

CountInv == CoverInv /\ \A d \in Deleters : Counted(d)

LEMMA Parts ==
    ASSUME NEW keys \in SUBSET Keys
    PROVE  Cardinality(DataKeys(keys)) + Cardinality(SidecarKeys(keys)) = Cardinality(keys)
<1>1. IsFiniteSet(keys) /\ Cardinality(keys) \in Nat
  BY KeysFinite
<1>2. Cardinality(keys \ {Sidecar}) = Cardinality(keys) - Cardinality(keys \cap {Sidecar})
  BY <1>1, FS_Difference
<1>3. keys \cap {Sidecar} \in SUBSET Keys
  OBVIOUS
<1>4. Cardinality(keys \cap {Sidecar}) \in Nat
  BY <1>3, KeysFinite
<1>5. QED
  BY <1>1, <1>2, <1>4 DEF DataKeys, SidecarKeys

LEMMA CountInit == Init => CountInv
  BY CoverInit DEF Init, CountInv, Counted

(* What a request adds to deleted: the keys it takes off pending, and none *)
(* of those is left in the bucket.                                         *)
LEMMA RequestCounts ==
    ASSUME TypeOK, NEW d \in Deleters, NothingPending(d) \/ BatchResponse(d) \/ BatchFails(d)
    PROVE  /\ pc[d] \in {"data", "sidecar"} /\ UNCHANGED listed
           /\ \E left \in SUBSET pending[d] :
                 /\ deleted' = [deleted EXCEPT ![d] =
                        @ + (Cardinality(pending[d]) - Cardinality(left))]
                 /\ objects' \subseteq objects \ (pending[d] \ left)
                 /\ \/ left # {} /\ Retry(d, left)
                    \/ DeleteKeysEnds(d, left)
<1>1. Cardinality(pending[d]) \in Nat /\ deleted \in [Deleters -> Nat]
  BY KeysFinite DEF TypeOK
<1>2. deleted = [deleted EXCEPT ![d] = @ + (Cardinality(pending[d]) - Cardinality(pending[d]))]
  BY <1>1
<1>3. CASE NothingPending(d)
  BY <1>2, <1>3 DEF NothingPending
<1>4. CASE BatchResponse(d)
  <2>1. PICK errored \in SUBSET pending[d], applied \in SUBSET pending[d] :
           /\ pending[d] \ errored \subseteq applied
           /\ objects' = objects \ applied
           /\ deleted' = [deleted EXCEPT ![d] = @ + CountDeleted(d, errored)]
           /\ \/ errored # {} /\ Retry(d, errored)
              \/ DeleteKeysEnds(d, errored)
    BY <1>4 DEF BatchResponse
  <2>2. objects' \subseteq objects \ (pending[d] \ errored)
    BY <2>1
  <2>3. QED
    BY <1>4, <2>1, <2>2 DEF BatchResponse, CountDeleted
<1>5. CASE BatchFails(d)
  <2>1. /\ pc[d] \in {"data", "sidecar"} /\ pending[d] # {}
        /\ UNCHANGED <<listed, deleted>>
        /\ Retry(d, pending[d]) \/ DeleteKeysEnds(d, pending[d])
    BY <1>5 DEF BatchFails, FailedKeys
  <2>2. /\ pending[d] \in SUBSET pending[d]
        /\ objects' \subseteq objects \ (pending[d] \ pending[d])
    BY <1>5 DEF BatchFails
  <2>3. QED
    BY <1>2, <2>1, <2>2
<1>6. QED
  BY <1>3, <1>4, <1>5

LEMMA RequestCounted ==
    ASSUME CountInv, NEW d \in Deleters,
           NothingPending(d) \/ BatchResponse(d) \/ BatchFails(d)
    PROVE  Counted(d)'
<1>1. TypeOK /\ Covers(d) /\ Counted(d)
  BY DEF CountInv, CoverInv
<1>2. PICK left \in SUBSET pending[d] :
         /\ deleted' = [deleted EXCEPT ![d] =
                @ + (Cardinality(pending[d]) - Cardinality(left))]
         /\ objects' \subseteq objects \ (pending[d] \ left)
         /\ \/ left # {} /\ Retry(d, left)
            \/ DeleteKeysEnds(d, left)
  BY <1>1, RequestCounts
<1>3. pc[d] \in {"data", "sidecar"} /\ listed'[d] = listed[d]
  BY <1>1, RequestCounts
<1>4. /\ Cardinality(pending[d]) \in Nat /\ Cardinality(left) \in Nat
      /\ Cardinality(listed[d]) \in Nat /\ Cardinality(SidecarKeys(listed[d])) \in Nat
  BY <1>1, KeysFinite DEF TypeOK, SidecarKeys
<1>5. /\ deleted[d] \in Nat /\ failed[d] = 0
      /\ deleted'[d] = deleted[d] + (Cardinality(pending[d]) - Cardinality(left))
  BY <1>1, <1>2, <1>3 DEF TypeOK, Covers
<1>6. Cardinality({}) = 0
  BY FS_EmptySet
<1>7. CASE Retry(d, left)
  <2>1. pc'[d] = pc[d] /\ pending'[d] = left /\ failed'[d] = failed[d]
    BY <1>1, <1>7 DEF Retry, TypeOK
  <2>2. QED
    BY <1>1, <1>3, <1>4, <1>5, <2>1 DEF Counted
<1>8. CASE DeleteKeysEnds(d, left) /\ pc[d] = "data" /\ left = {}
  <2>1. /\ pending'[d] = SidecarKeys(listed[d])
        /\ pc'[d] = IF SidecarKeys(listed[d]) = {} THEN "done" ELSE "sidecar"
        /\ failed'[d] = 0
    BY <1>1, <1>5, <1>6, <1>8 DEF DeleteKeysEnds, NextKeys, KeptSidecar, TypeOK
  <2>2. deleted'[d] + Cardinality(SidecarKeys(listed[d])) = Cardinality(listed[d])
    BY <1>1, <1>4, <1>5, <1>6, <1>8 DEF Counted
  <2>3. QED
    BY <1>3, <1>4, <1>5, <1>6, <2>1, <2>2 DEF Counted
<1>9. CASE DeleteKeysEnds(d, left) /\ pc[d] = "data" /\ left # {}
  <2>1. /\ pc'[d] = "done"
        /\ failed'[d] = Cardinality(left) + Cardinality(SidecarKeys(listed[d]))
    BY <1>1, <1>4, <1>5, <1>9 DEF DeleteKeysEnds, NextKeys, KeptSidecar, TypeOK
  <2>2. QED
    BY <1>1, <1>3, <1>4, <1>5, <1>9, <2>1 DEF Counted
<1>10. CASE DeleteKeysEnds(d, left) /\ pc[d] = "sidecar"
  <2>1. pc'[d] = "done" /\ failed'[d] = Cardinality(left)
    BY <1>1, <1>4, <1>5, <1>10 DEF DeleteKeysEnds, TypeOK
  <2>2. QED
    BY <1>1, <1>3, <1>4, <1>5, <1>10, <2>1 DEF Counted
<1>11. QED
  BY <1>2, <1>3, <1>7, <1>8, <1>9, <1>10

LEMMA OthersNotCounted ==
    ASSUME TypeOK, NEW d \in Deleters, Step(d) \/ Crash(d), NEW e \in Deleters, e # d
    PROVE  deleted'[e] = deleted[e]
<1>1. CASE List(d) \/ ListFails(d) \/ Crash(d)
  BY <1>1 DEF List, ListFails, Crash
<1>2. CASE NothingPending(d) \/ BatchResponse(d) \/ BatchFails(d)
  BY <1>2, RequestCounts DEF TypeOK
<1>3. QED
  BY <1>1, <1>2 DEF Step

LEMMA CountStep == CountInv /\ [Next]_vars => CountInv'
<1> SUFFICES ASSUME CountInv, [Next]_vars PROVE \A e \in Deleters : Counted(e)'
  BY CoverStep DEF CountInv
<1>1. TypeOK /\ \A e \in Deleters : Counted(e)
  BY DEF CountInv, CoverInv
<1>2. CASE UNCHANGED vars
  BY <1>1, <1>2 DEF Counted, vars
<1>3. ASSUME NEW d \in Deleters, Step(d) \/ Crash(d), NEW e \in Deleters
      PROVE  Counted(e)'
  <2>1. CASE e # d
    BY <1>1, <1>3, <2>1, OthersUntouched, OthersNotCounted DEF Counted
  <2>2. CASE e = d /\ List(d)
    <3>1. /\ pc'[d] = "data" /\ listed'[d] = objects /\ pending'[d] = DataKeys(objects)
          /\ deleted'[d] = 0
      BY <1>1, <2>2 DEF List, Counted, TypeOK
    <3>2. /\ objects \in SUBSET Keys /\ DataKeys(objects) \in SUBSET Keys
          /\ SidecarKeys(objects) \in SUBSET Keys
      BY <1>1 DEF TypeOK, DataKeys, SidecarKeys
    <3>3. /\ Cardinality(DataKeys(objects)) \in Nat
          /\ Cardinality(SidecarKeys(objects)) \in Nat
      BY <3>2, KeysFinite
    <3>4. QED
      BY <2>2, <3>1, <3>2, <3>3, Parts DEF Counted
  <2>3. CASE e = d /\ (ListFails(d) \/ Crash(d))
    BY <1>1, <2>3 DEF ListFails, Crash, Counted, TypeOK
  <2>4. CASE e = d /\ (NothingPending(d) \/ BatchResponse(d) \/ BatchFails(d))
    BY <2>4, RequestCounted
  <2>5. QED
    BY <1>3, <2>1, <2>2, <2>3, <2>4 DEF Step
<1>4. QED
  BY <1>2, <1>3 DEF Next

(* deleted and failed account for every listed key exactly once, whatever  *)
(* was retried and however many attempts there are.                        *)
THEOREM AllCounted == Spec => []EveryKeyCounted
<1>1. CountInv => EveryKeyCounted
  BY DEF CountInv, Counted, EveryKeyCounted
<1>2. QED
  BY <1>1, CountInit, CountStep, PTL DEF Spec

(***************************************************************************)
(* The report against the bucket.  What is counted as deleted was taken    *)
(* off pending by an answer that applied it, so what is left of a listing  *)
(* is pending, or the sidecar still to come; and nothing comes back.       *)
(***************************************************************************)
ReportInv == CountInv /\ NeverOverReports

LEMMA ReportInit == Init => ReportInv
<1> SUFFICES ASSUME Init PROVE NeverOverReports
  BY CountInit DEF ReportInv
<1>1. \A d \in Deleters : deleted[d] = 0 /\ listed[d] \ objects = {}
  BY DEF Init
<1>2. QED
  BY <1>1, FS_EmptySet DEF NeverOverReports

(* A set loses at most as many elements as there are in what is left.      *)
LEMMA MissingAtLeast ==
    ASSUME NEW keys \in SUBSET Keys, NEW left \in SUBSET Keys, NEW present,
           keys \cap present \subseteq left, NEW n \in Nat,
           n + Cardinality(left) <= Cardinality(keys)
    PROVE  n <= Cardinality(keys \ present)
<1>1. /\ IsFiniteSet(keys) /\ IsFiniteSet(left) /\ Cardinality(keys) \in Nat
      /\ Cardinality(left) \in Nat
  BY KeysFinite
<1>2. keys \cap present \in SUBSET Keys /\ keys \ present \in SUBSET Keys
  OBVIOUS
<1>3. Cardinality(keys \cap present) \in Nat /\ Cardinality(keys \ present) \in Nat
  BY <1>2, KeysFinite
<1>4. Cardinality(keys \cap present) <= Cardinality(left)
  BY <1>1, FS_Subset
<1>5. Cardinality(keys \ present) = Cardinality(keys) - Cardinality(keys \cap present)
  BY <1>1, FS_Difference
<1>6. QED
  BY <1>1, <1>3, <1>4, <1>5

LEMMA OthersReport ==
    ASSUME TypeOK, NeverOverReports, NEW d \in Deleters, objects' \subseteq objects,
           deleted'[d] = deleted[d], listed'[d] = listed[d]
    PROVE  deleted'[d] <= Cardinality(listed'[d] \ objects')
<1>1. listed[d] \ objects \subseteq listed[d] \ objects' /\ listed[d] \ objects' \in SUBSET Keys
  BY DEF TypeOK
<1>2. /\ Cardinality(listed[d] \ objects') \in Nat
      /\ Cardinality(listed[d] \ objects) \in Nat
      /\ Cardinality(listed[d] \ objects) <= Cardinality(listed[d] \ objects')
  BY <1>1, KeysFinite, FS_Subset
<1>3. deleted[d] \in Nat /\ deleted[d] <= Cardinality(listed[d] \ objects)
  BY DEF TypeOK, NeverOverReports
<1>4. QED
  BY <1>2, <1>3

LEMMA RequestReports ==
    ASSUME ReportInv, NEW d \in Deleters,
           NothingPending(d) \/ BatchResponse(d) \/ BatchFails(d)
    PROVE  deleted'[d] <= Cardinality(listed'[d] \ objects')
<1>1. TypeOK /\ Covers(d) /\ Counted(d)
  BY DEF ReportInv, CountInv, CoverInv
<1>2. PICK left \in SUBSET pending[d] :
         /\ deleted' = [deleted EXCEPT ![d] =
                @ + (Cardinality(pending[d]) - Cardinality(left))]
         /\ objects' \subseteq objects \ (pending[d] \ left)
  BY <1>1, RequestCounts
<1>3. pc[d] \in {"data", "sidecar"} /\ listed'[d] = listed[d]
  BY <1>1, RequestCounts
<1> DEFINE later == IF pc[d] = "data" THEN SidecarKeys(listed[d]) ELSE {}
<1>4. /\ left \in SUBSET Keys /\ later \in SUBSET Keys /\ left \cup later \in SUBSET Keys
      /\ listed[d] \in SUBSET Keys /\ pending[d] \in SUBSET Keys
  BY <1>1 DEF TypeOK, SidecarKeys
<1>5. listed[d] \cap objects' \subseteq left \cup later
  BY <1>1, <1>2, <1>3 DEF Covers, SidecarKeys
<1>6. deleted[d] + Cardinality(pending[d]) + Cardinality(later) = Cardinality(listed[d])
  <2>1. CASE pc[d] = "data"
    BY <1>1, <2>1 DEF Counted
  <2>2. CASE pc[d] = "sidecar"
    <3>1. Cardinality(later) = 0
      BY <2>2, FS_EmptySet
    <3>2. deleted[d] + Cardinality(pending[d]) = Cardinality(listed[d])
      BY <1>1, <2>2 DEF Counted
    <3>3. Cardinality(pending[d]) \in Nat /\ deleted[d] \in Nat
      BY <1>1, <1>4, KeysFinite DEF TypeOK
    <3>4. QED
      BY <3>1, <3>2, <3>3
  <2>3. QED
    BY <1>3, <2>1, <2>2
<1> HIDE DEF later
<1>7. /\ Cardinality(left) \in Nat /\ Cardinality(later) \in Nat
      /\ Cardinality(pending[d]) \in Nat /\ Cardinality(left \cup later) \in Nat
      /\ Cardinality(listed[d]) \in Nat
      /\ IsFiniteSet(left) /\ IsFiniteSet(later) /\ IsFiniteSet(pending[d])
  BY <1>4, KeysFinite
<1>8. Cardinality(left \cup later) <= Cardinality(left) + Cardinality(later)
  <2>1. left \cap later \in SUBSET Keys
    BY <1>4
  <2>2. Cardinality(left \cap later) \in Nat
    BY <2>1, KeysFinite
  <2>3. Cardinality(left \cup later)
           = Cardinality(left) + Cardinality(later) - Cardinality(left \cap later)
    BY <1>7, FS_Union
  <2>4. QED
    BY <1>7, <2>2, <2>3
<1>9. Cardinality(left) <= Cardinality(pending[d])
  BY <1>7, FS_Subset
<1>10. /\ deleted[d] \in Nat
       /\ deleted'[d] = deleted[d] + (Cardinality(pending[d]) - Cardinality(left))
  BY <1>1, <1>2 DEF TypeOK
<1>11. /\ deleted'[d] \in Nat
       /\ deleted'[d] + Cardinality(left \cup later) <= Cardinality(listed[d])
  BY <1>6, <1>7, <1>8, <1>9, <1>10
<1>12. QED
  BY <1>3, <1>4, <1>5, <1>11, MissingAtLeast

LEMMA ReportStep == ReportInv /\ [Next]_vars => ReportInv'
<1> SUFFICES ASSUME ReportInv, [Next]_vars PROVE NeverOverReports'
  BY CountStep DEF ReportInv
<1>1. TypeOK /\ NeverOverReports /\ \A e \in Deleters : Counted(e)
  BY DEF ReportInv, CountInv, CoverInv
<1>2. CASE UNCHANGED vars
  BY <1>1, <1>2 DEF NeverOverReports, vars
<1>3. ASSUME NEW d \in Deleters, Step(d) \/ Crash(d), NEW e \in Deleters
      PROVE  deleted'[e] <= Cardinality(listed'[e] \ objects')
  <2>1. objects' \subseteq objects
    BY <1>3, ObjectsOnlyShrink
  <2>2. CASE e # d
    BY <1>1, <1>3, <2>1, <2>2, OthersUntouched, OthersNotCounted, OthersReport
  <2>3. CASE e = d /\ List(d)
    <3>1. deleted'[d] = 0 /\ listed'[d] \ objects' = {}
      BY <1>1, <2>3 DEF List, Counted, TypeOK
    <3>2. QED
      BY <2>3, <3>1, FS_EmptySet
  <2>4. CASE e = d /\ (ListFails(d) \/ Crash(d))
    BY <1>1, <2>1, <2>4, OthersReport DEF ListFails, Crash
  <2>5. CASE e = d /\ (NothingPending(d) \/ BatchResponse(d) \/ BatchFails(d))
    BY <2>5, RequestReports
  <2>6. QED
    BY <1>3, <2>2, <2>3, <2>4, <2>5 DEF Step
<1>4. QED
  BY <1>2, <1>3 DEF Next, NeverOverReports

(* No report claims more deletions than objects of its listing are         *)
(* missing, with ambiguous requests, retries and other deleters on the     *)
(* same path.                                                              *)
THEOREM ReportsTruthful == Spec => []NeverOverReports
<1>1. ReportInv => NeverOverReports
  BY DEF ReportInv
<1>2. QED
  BY <1>1, ReportInit, ReportStep, PTL DEF Spec
=============================================================================
