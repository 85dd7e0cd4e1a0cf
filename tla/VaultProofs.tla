----------------------------- MODULE VaultProofs -----------------------------
(***************************************************************************)
(* Theorems about Vault, for any number of invocations, any retention      *)
(* configuration and any faults: type correctness, that a base is always   *)
(* older than the backups taken on it, and, when no PUT is applied after   *)
(* its run gave up on it, that retention keeps the newest full backups.    *)
(***************************************************************************)
EXTENDS Vault, FiniteSetTheorems, TLAPS

(* Type correctness of Vault: every variable keeps its type, and an        *)
(* invocation that deletes has something left to delete.                   *)
LEMMA TypeInit == Init => TypeOK
  BY DEF Init, TypeOK, NoMeta, Unit, Running, Reading, Deleting, Over

LEMMA AdvanceTyped ==
    ASSUME TypeOK, NEW p \in Procs, NEW u \in todo[p], NEW v \in Procs,
           NEW complete \in BOOLEAN, Advance(p, u, v, complete)
    PROVE  /\ pc' \in [Procs -> {"idle"} \cup Running \cup Over]
           /\ todo' \in [Procs -> SUBSET Unit]
           /\ bad' \in [Procs -> BOOLEAN]
           /\ dirty' \in [Procs -> BOOLEAN]
           /\ held' \in [Procs -> BOOLEAN]
           /\ \A q \in Procs : pc'[q] \in Deleting => todo'[q] # {}
<1> DEFINE failures == bad[p] \/ ~complete
           rest     == u.before \ {v}
           unitOver == v = u.last \/ KeepsFull(rest, failures)
           todoLeft == (todo[p] \ {u}) \cup
                          IF unitOver THEN {} ELSE {[before |-> rest, last |-> u.last]}
           report   == Report(p, unitOver, failures)
           exit     == IF todoLeft # {} THEN "del_list" ELSE Exit(p, report)
<1>1. /\ todo' = [todo EXCEPT ![p] = todoLeft]
      /\ bad' = [bad EXCEPT ![p] = failures /\ ~unitOver]
      /\ dirty' = [dirty EXCEPT ![p] = report]
      /\ held' = [held EXCEPT ![p] = FALSE]
      /\ pc' = [pc EXCEPT ![p] = exit]
  BY DEF Advance, GoTo
<1>2. failures \in BOOLEAN /\ unitOver \in BOOLEAN /\ report \in BOOLEAN
  BY DEF TypeOK, KeepsFull, Report
<1>3. todoLeft \in SUBSET Unit
  BY DEF TypeOK, Unit
<1>4. /\ exit \in {"del_list", "failed", "done"}
      /\ exit \in Deleting => todoLeft # {}
  BY DEF Exit, Deleting
<1> HIDE DEF failures, unitOver, todoLeft, report, exit
<1>5. QED
  BY <1>1, <1>2, <1>3, <1>4 DEF TypeOK, Running, Reading, Deleting, Over

LEMMA RollbackTyped ==
    ASSUME TypeOK, NEW p \in Procs, Rollback(p)
    PROVE  /\ pc' \in [Procs -> {"idle"} \cup Running \cup Over]
           /\ todo' \in [Procs -> SUBSET Unit]
           /\ \A q \in Procs : pc'[q] \in Deleting => todo'[q] # {}
<1>1. {[before |-> {}, last |-> p]} \in SUBSET Unit
  BY DEF Unit
<1>2. QED
  BY <1>1 DEF TypeOK, Rollback, GoTo, Running, Deleting

LEMMA TypeStep == TypeOK /\ [Next]_vars => TypeOK'
<1> SUFFICES ASSUME TypeOK, [Next]_vars PROVE TypeOK'
  OBVIOUS
<1> USE DEF local, bucket, GoTo, Fault, Reading, Deleting, Running, Over, Unit
<1>1. CASE UNCHANGED vars
  BY <1>1 DEF TypeOK, vars
<1>2. ASSUME NEW p \in Procs, StartBackup(p) PROVE TypeOK'
  BY <1>2 DEF TypeOK, StartBackup
<1>3. ASSUME NEW p \in Procs, StartCleanup(p) PROVE TypeOK'
  BY <1>3 DEF TypeOK, StartCleanup
<1>4. ASSUME NEW p \in Procs, Guard(p) PROVE TypeOK'
  BY <1>4 DEF TypeOK, Guard
<1>5. ASSUME NEW p \in Procs, ListFulls(p) PROVE TypeOK'
  BY <1>5 DEF TypeOK, ListFulls, Listed, NoFault
<1>6. ASSUME NEW p \in Procs, ListIncrementals(p) PROVE TypeOK'
  BY <1>6 DEF TypeOK, ListIncrementals, Listed, NoFault
<1>7. ASSUME NEW p \in Procs, Decide(p) PROVE TypeOK'
  BY <1>7 DEF TypeOK, Decide, DecideKind, Now
<1>8. ASSUME NEW p \in Procs, Submit(p) PROVE TypeOK'
  BY <1>8 DEF TypeOK, Submit, ServerAccepts, ServerAnswers
<1>9. ASSUME NEW p \in Procs, SubmitFails(p) PROVE TypeOK'
  <2>1. /\ row' \in [Procs -> {"none", "creating", "created", "failed"}]
        /\ data' \in [Procs -> {"none", "partial", "complete"}]
    BY <1>9 DEF TypeOK, SubmitFails, ServerAccepts, ServerAnswers
  <2>2. /\ pc' = [pc EXCEPT ![p] = "failed"]
        /\ faults' = faults + 1
        /\ UNCHANGED <<job, view, todo, bad, dirty, held, picked, meta, sidecar, late, clock>>
    BY <1>9 DEF SubmitFails
  <2>3. QED
    BY <2>1, <2>2 DEF TypeOK
<1>10. ASSUME NEW p \in Procs, PollCompleted(p) PROVE TypeOK'
  BY <1>10 DEF TypeOK, PollCompleted
<1>11. ASSUME NEW p \in Procs, PollFailed(p) PROVE TypeOK'
  BY <1>11 DEF TypeOK, PollFailed
<1>12. ASSUME NEW p \in Procs, PollGivesUp(p) PROVE TypeOK'
  BY <1>12 DEF TypeOK, PollGivesUp
<1>13. ASSUME NEW p \in Procs, PollLost(p) PROVE TypeOK'
  BY <1>13, RollbackTyped DEF TypeOK, PollLost
<1>14. ASSUME NEW p \in Procs, WriteMetadata(p) PROVE TypeOK'
  BY <1>14, BoundsAssumption DEF TypeOK, WriteMetadata
<1>15. ASSUME NEW p \in Procs, WriteMetadataFails(p) PROVE TypeOK'
  BY <1>15, RollbackTyped DEF TypeOK, WriteMetadataFails
<1>16. ASSUME NEW p \in Procs, LatePut(p) PROVE TypeOK'
  BY <1>16 DEF TypeOK, LatePut
<1>17. ASSUME NEW p \in Procs, Select(p) PROVE TypeOK'
  <2> DEFINE fulls == SelectForDeletion(meta, view[p], Keep, KeepDays, clock)
  <2>1. fulls \subseteq Procs
    BY DEF TypeOK, SelectForDeletion, Fulls
  <2>2. \A f \in fulls : ChainIncrementals(meta, view[p], f) \subseteq Procs
    BY DEF TypeOK, ChainIncrementals, Incrementals
  <2>3. /\ Units(view[p], fulls) \in SUBSET Unit
        /\ fulls # {} => Units(view[p], fulls) # {}
    <3>1. \A f \in fulls : [before |-> ChainIncrementals(meta, view[p], f), last |-> f] \in Unit
      BY <2>1, <2>2
    <3>2. QED
      BY <3>1 DEF Units
  <2>4. UNION {Chain(meta, view[p], f) : f \in fulls} \in SUBSET Procs
    BY <2>1, <2>2 DEF Chain
  <2>5. QED
    BY <1>17, <2>3, <2>4 DEF TypeOK, Select, AfterSelect
<1>18. ASSUME NEW p \in Procs, DeleteList(p) PROVE TypeOK'
  BY <1>18 DEF TypeOK, DeleteList
<1>19. ASSUME NEW p \in Procs, DeleteSome(p) PROVE TypeOK'
  BY <1>19 DEF TypeOK, DeleteSome
<1>20. ASSUME NEW p \in Procs, DeleteData(p) PROVE TypeOK'
  <2>1. PICK u \in todo[p], v \in Procs :
           /\ data' = [data EXCEPT ![v] = "none"]
           /\ \/ GoTo(p, "del_meta") /\ UNCHANGED <<todo, bad, dirty, held>>
              \/ Advance(p, u, v, TRUE)
    BY <1>20 DEF DeleteData
  <2>2. UNCHANGED <<job, view, picked, meta, row, sidecar, late, clock, faults>>
    BY <1>20 DEF DeleteData
  <2>3. CASE Advance(p, u, v, TRUE)
    BY <2>1, <2>2, <2>3, AdvanceTyped DEF TypeOK
  <2>4. CASE GoTo(p, "del_meta") /\ UNCHANGED <<todo, bad, dirty, held>>
    BY <2>1, <2>2, <2>4 DEF TypeOK
  <2>5. QED
    BY <2>1, <2>3, <2>4
<1>21. ASSUME NEW p \in Procs, DeleteMeta(p) PROVE TypeOK'
  BY <1>21, AdvanceTyped DEF TypeOK, DeleteMeta
<1>22. ASSUME NEW p \in Procs, DeleteFails(p) PROVE TypeOK'
  <2>1. PICK u \in todo[p], v \in Procs :
           data' \in DataAfter(p, v) /\ sidecar' \in SidecarAfter(p, v) /\ Advance(p, u, v, FALSE)
    BY <1>22 DEF DeleteFails
  <2>2. UNCHANGED <<job, view, picked, meta, row, late, clock>> /\ faults' \in Nat
    BY <1>22 DEF DeleteFails, TypeOK
  <2>3. data' \in [Procs -> {"none", "partial", "complete"}] /\ sidecar' \subseteq Procs
    BY <2>1 DEF TypeOK, DataAfter, SidecarAfter
  <2>4. QED
    BY <2>1, <2>2, <2>3, AdvanceTyped DEF TypeOK
<1>23. ASSUME NEW p \in Procs, ReadFails(p) PROVE TypeOK'
  BY <1>23 DEF TypeOK, ReadFails, Exit
<1>24. ASSUME NEW p \in Procs, Crash(p) PROVE TypeOK'
  BY <1>24 DEF TypeOK, Crash
<1>25. ASSUME NEW p \in Procs, ServerCompletes(p) PROVE TypeOK'
  BY <1>25 DEF TypeOK, ServerCompletes
<1>26. ASSUME NEW p \in Procs, ServerFails(p) PROVE TypeOK'
  BY <1>26 DEF TypeOK, ServerFails
<1>27. CASE ServerRestarts
  BY <1>27 DEF TypeOK, ServerRestarts
<1>28. CASE Tick
  BY <1>28 DEF TypeOK, Tick
<1>29. QED
  BY <1>1, <1>2, <1>3, <1>4, <1>5, <1>6, <1>7, <1>8, <1>9, <1>10, <1>11, <1>12,
     <1>13, <1>14, <1>15, <1>16, <1>17, <1>18, <1>19, <1>20, <1>21, <1>22, <1>23, <1>24,
     <1>25, <1>26, <1>27, <1>28 DEF Next

(* Every variable of Vault keeps its type; in particular an invocation     *)
(* that deletes always has a unit left to delete.                          *)
THEOREM TypeCorrect == Spec => []TypeOK
<1>1. QED
  BY TypeInit, TypeStep, PTL DEF Spec

(***************************************************************************)
(* A base is older than the backups taken on it: discovery only shows      *)
(* backups that were prepared, and a backup is prepared once, at the       *)
(* clock's present instant.                                                *)
(***************************************************************************)
Prepared == {b \in Procs : meta[b].kind # "none"}

(* Where an invocation is says what it executes and whether it has         *)
(* prepared its backup.                                                    *)
Stages ==
    \A p \in Procs :
        /\ pc[p] \in {"idle", "guard", "decide"} => job[p] = "backup"
        /\ pc[p] \in {"submit", "poll", "write"} => job[p] = "backup"
        /\ pc[p] = "select" => job[p] = "cleanup"
        /\ pc[p] \in {"idle", "guard", "fulls", "incrementals", "decide"} /\ job[p] = "backup"
              => p \notin Prepared
        /\ pc[p] \in {"submit", "poll", "write"} => p \in Prepared

ShownArePrepared ==
    /\ sidecar \subseteq Prepared /\ late \subseteq Prepared
    /\ \A p \in Procs : view[p] \subseteq Prepared

BasesAreOlder ==
    \A b \in Procs :
        /\ meta[b].ts < clock
        /\ meta[b].base # NoPath =>
              meta[b].base \in Prepared /\ meta[meta[b].base].ts < meta[b].ts

OrderInv == TypeOK /\ Stages /\ ShownArePrepared /\ BasesAreOlder

LEMMA OrderInit == Init => OrderInv
  BY TypeInit DEF Init, OrderInv, Stages, ShownArePrepared, BasesAreOlder, Prepared, NoMeta

(* A reported backup stays reported, and metadata is never rewritten.      *)
Grows ==
    /\ Succeeded \subseteq Succeeded'
    /\ \A b \in Prepared : meta'[b] = meta[b]

LEMMA OrderStep == OrderInv /\ [Next]_vars => OrderInv' /\ Grows
<1> SUFFICES ASSUME OrderInv, [Next]_vars PROVE OrderInv' /\ Grows
  OBVIOUS
<1>0. TypeOK /\ TypeOK'
  BY TypeStep DEF OrderInv
<1> DEFINE I == Stages /\ ShownArePrepared /\ BasesAreOlder
<1> USE DEF local, bucket, GoTo, Fault, Stages, ShownArePrepared, BasesAreOlder, Prepared,
            Grows, Succeeded
<1>1. CASE UNCHANGED vars
  BY <1>0, <1>1 DEF OrderInv, vars
<1>2. ASSUME NEW p \in Procs, StartBackup(p) PROVE I' /\ Grows
  BY <1>0, <1>2 DEF OrderInv, TypeOK, Reading, Deleting, Running, StartBackup
<1>3. ASSUME NEW p \in Procs, StartCleanup(p) PROVE I' /\ Grows
  BY <1>0, <1>3 DEF OrderInv, TypeOK, Reading, Deleting, Running, StartCleanup
<1>4. ASSUME NEW p \in Procs, Guard(p) PROVE I' /\ Grows
  BY <1>0, <1>4 DEF OrderInv, TypeOK, Reading, Deleting, Running, Guard
<1>5. ASSUME NEW p \in Procs, ListFulls(p) PROVE I' /\ Grows
  BY <1>0, <1>5 DEF OrderInv, TypeOK, Reading, Deleting, Running, ListFulls, Listed, Fulls
<1>6. ASSUME NEW p \in Procs, ListIncrementals(p) PROVE I' /\ Grows
  BY <1>0, <1>6 DEF OrderInv, TypeOK, Reading, Deleting, Running, ListIncrementals, Listed, Incrementals
<1>7. ASSUME NEW p \in Procs, Decide(p) PROVE I' /\ Grows
  <2>1. PICK kind \in {"full", "incremental"}, base \in {NoPath} \cup view[p] :
           meta' = [meta EXCEPT ![p] = [kind |-> kind, ts |-> clock, base |-> base]]
    BY <1>7 DEF Decide, DecideKind, Now
  <2>2. p \notin Prepared /\ (base # NoPath => base \in Prepared /\ base # p)
    BY <1>7, <2>1 DEF Decide, OrderInv
  <2>3. Stages' /\ ShownArePrepared' /\ Grows
    BY <1>0, <1>7, <2>1, <2>2 DEF OrderInv, TypeOK, Decide
  <2>4. BasesAreOlder'
    BY <1>0, <1>7, <2>1, <2>2, ProcsAssumption DEF OrderInv, TypeOK, Decide
  <2>5. QED
    BY <2>3, <2>4
<1>8. ASSUME NEW p \in Procs, Submit(p) PROVE I' /\ Grows
  BY <1>0, <1>8 DEF OrderInv, TypeOK, Reading, Deleting, Running, Submit
<1>9. ASSUME NEW p \in Procs, SubmitFails(p) PROVE I' /\ Grows
  BY <1>0, <1>9 DEF OrderInv, TypeOK, Reading, Deleting, Running, SubmitFails
<1>10. ASSUME NEW p \in Procs, PollCompleted(p) PROVE I' /\ Grows
  BY <1>0, <1>10 DEF OrderInv, TypeOK, Reading, Deleting, Running, PollCompleted
<1>11. ASSUME NEW p \in Procs, PollFailed(p) PROVE I' /\ Grows
  BY <1>0, <1>11 DEF OrderInv, TypeOK, Reading, Deleting, Running, PollFailed
<1>12. ASSUME NEW p \in Procs, PollGivesUp(p) PROVE I' /\ Grows
  BY <1>0, <1>12 DEF OrderInv, TypeOK, Reading, Deleting, Running, PollGivesUp
<1>13. ASSUME NEW p \in Procs, PollLost(p) PROVE I' /\ Grows
  BY <1>0, <1>13 DEF OrderInv, TypeOK, Reading, Deleting, Running, PollLost, Rollback
<1>14. ASSUME NEW p \in Procs, WriteMetadata(p) PROVE I' /\ Grows
  BY <1>0, <1>14 DEF OrderInv, TypeOK, Reading, Deleting, Running, WriteMetadata
<1>15. ASSUME NEW p \in Procs, WriteMetadataFails(p) PROVE I' /\ Grows
  BY <1>0, <1>15 DEF OrderInv, TypeOK, Reading, Deleting, Running, WriteMetadataFails, Rollback
<1>16. ASSUME NEW p \in Procs, LatePut(p) PROVE I' /\ Grows
  BY <1>0, <1>16 DEF OrderInv, TypeOK, Reading, Deleting, Running, LatePut
<1>17. ASSUME NEW p \in Procs, Select(p) PROVE I' /\ Grows
  BY <1>0, <1>17 DEF OrderInv, TypeOK, Reading, Deleting, Running, Select, AfterSelect
<1>18. ASSUME NEW p \in Procs, DeleteList(p) PROVE I' /\ Grows
  BY <1>0, <1>18 DEF OrderInv, TypeOK, Reading, Deleting, Running, DeleteList
<1>19. ASSUME NEW p \in Procs, DeleteSome(p) PROVE I' /\ Grows
  BY <1>0, <1>19 DEF OrderInv, TypeOK, Reading, Deleting, Running, DeleteSome
<1>20. ASSUME NEW p \in Procs, DeleteData(p) PROVE I' /\ Grows
  BY <1>0, <1>20 DEF OrderInv, TypeOK, Reading, Deleting, Running, DeleteData, Advance, Exit
<1>21. ASSUME NEW p \in Procs, DeleteMeta(p) PROVE I' /\ Grows
  BY <1>0, <1>21 DEF OrderInv, TypeOK, Reading, Deleting, Running, DeleteMeta, Advance, Exit
<1>22. ASSUME NEW p \in Procs, DeleteFails(p) PROVE I' /\ Grows
  BY <1>0, <1>22 DEF OrderInv, TypeOK, Reading, Deleting, Running, DeleteFails, Advance, Exit, SidecarAfter
<1>23. ASSUME NEW p \in Procs, ReadFails(p) PROVE I' /\ Grows
  BY <1>0, <1>23 DEF OrderInv, TypeOK, Reading, Deleting, Running, ReadFails, Exit
<1>24. ASSUME NEW p \in Procs, Crash(p) PROVE I' /\ Grows
  BY <1>0, <1>24 DEF OrderInv, TypeOK, Reading, Deleting, Running, Crash
<1>25. ASSUME NEW p \in Procs, ServerCompletes(p) PROVE I' /\ Grows
  BY <1>0, <1>25 DEF OrderInv, TypeOK, Reading, Deleting, Running, ServerCompletes
<1>26. ASSUME NEW p \in Procs, ServerFails(p) PROVE I' /\ Grows
  BY <1>0, <1>26 DEF OrderInv, TypeOK, Reading, Deleting, Running, ServerFails
<1>27. CASE ServerRestarts
  BY <1>0, <1>27 DEF OrderInv, TypeOK, ServerRestarts
<1>28. CASE Tick
  BY <1>0, <1>28 DEF OrderInv, TypeOK, Tick
<1>29. QED
  BY <1>0, <1>1, <1>2, <1>3, <1>4, <1>5, <1>6, <1>7, <1>8, <1>9, <1>10, <1>11,
     <1>12, <1>13, <1>14, <1>15, <1>16, <1>17, <1>18, <1>19, <1>20, <1>21, <1>22, <1>23,
     <1>24, <1>25, <1>26, <1>27, <1>28 DEF Next, OrderInv

(* A base is older than every backup taken on it, whatever runs overlap:   *)
(* what group_chains needs for its single look-up.                         *)
THEOREM BasesOlder == Spec => []BaseOlder
<1>1. OrderInv => BaseOlder
  BY DEF OrderInv, BasesAreOlder, BaseOlder
<1>2. QED
  BY OrderInit, OrderStep, <1>1, PTL DEF Spec

(***************************************************************************)
(* Retention: a full backup that was reported stays in the bucket until    *)
(* Keep newer ones have been reported.  A plan to delete is made from a    *)
(* view, and the view may be old when the plan is carried out; but what    *)
(* expired in the view has expired for good, because the reported backups  *)
(* only become more.  A PUT applied after its run gave up would show a     *)
(* backup that was never reported and that its run rolls back.             *)
(***************************************************************************)
Expired(f) ==
    f \in Succeeded /\ Cardinality(Newer(meta, Fulls(meta, Succeeded), f)) >= Keep

ShownSucceeded ==
    /\ late = {} /\ sidecar \subseteq Succeeded
    /\ \A p \in Procs : view[p] \subseteq Succeeded

(* When the server has finished, the objects are there until the sidecar   *)
(* is written, and the server is done with them.                           *)
WrittenAreComplete ==
    \A p \in Procs :
        /\ pc[p] = "poll" /\ row[p] = "created" => data[p] = "complete"
        /\ pc[p] = "write" => data[p] = "complete"
        /\ p \in Succeeded \/ pc[p] = "write" => row[p] # "creating"

(* A rollback deletes the run's own backup, a cleanup incrementals and     *)
(* expired full backups.                                                   *)
PlansAreSafe ==
    \A p \in Procs : pc[p] \in Deleting =>
        \A u \in todo[p] :
            IF job[p] = "backup" THEN u.before = {} /\ u.last = p
            ELSE /\ Expired(u.last)
                 /\ \A b \in u.before : b \in Succeeded /\ meta[b].kind = "incremental"

KeptOrExpired ==
    \A f \in Fulls(meta, Succeeded) :
        Expired(f) \/ (f \in sidecar /\ data[f] = "complete")

RetainInv ==
    /\ OrderInv
    /\ ShownSucceeded /\ WrittenAreComplete /\ PlansAreSafe /\ KeptOrExpired

LEMMA SucceededPrepared == TypeOK => Succeeded \subseteq Prepared /\ IsFiniteSet(Succeeded)
  BY ProcsAssumption, FS_Subset DEF Succeeded, Prepared

LEMMA NewerFinite ==
    ASSUME TypeOK, NEW V, V \subseteq Succeeded, NEW f
    PROVE  IsFiniteSet(Newer(meta, Fulls(meta, V), f))
<1>1. Newer(meta, Fulls(meta, V), f) \subseteq Succeeded
  BY DEF Newer, Fulls
<1>2. QED
  BY <1>1, SucceededPrepared, FS_Subset

(* What has expired in a view has expired.                                 *)
LEMMA SelectedExpired ==
    ASSUME TypeOK, NEW V, V \subseteq Succeeded,
           NEW f \in SelectForDeletion(meta, V, Keep, KeepDays, clock)
    PROVE  Expired(f)
<1>1. Newer(meta, Fulls(meta, V), f) \subseteq Newer(meta, Fulls(meta, Succeeded), f)
  BY DEF Newer, Fulls
<1>2. /\ Cardinality(Newer(meta, Fulls(meta, V), f)) \in Nat
      /\ Cardinality(Newer(meta, Fulls(meta, Succeeded), f)) \in Nat
      /\ Cardinality(Newer(meta, Fulls(meta, V), f))
            <= Cardinality(Newer(meta, Fulls(meta, Succeeded), f))
  BY <1>1, NewerFinite, FS_Subset, FS_CardinalityType
<1>3. f \in Succeeded /\ Cardinality(Newer(meta, Fulls(meta, V), f)) >= Keep
  BY DEF SelectForDeletion, Fulls
<1>4. QED
  BY <1>2, <1>3, KeepAssumption DEF Expired

(* What has expired stays expired.                                         *)
LEMMA ExpiredStays ==
    ASSUME TypeOK, TypeOK', Grows, NEW f, Expired(f)
    PROVE  Expired(f)'
<1> DEFINE newer == Newer(meta, Fulls(meta, Succeeded), f)
<1>1. f \in Succeeded' /\ f \in Prepared
  BY SucceededPrepared DEF Grows, Expired
<1>2. newer \subseteq newer'
  BY <1>1, SucceededPrepared DEF Newer, Fulls, Grows
<1>3. IsFiniteSet(newer)
  BY NewerFinite
<1>4. IsFiniteSet(newer')
  <2>1. newer' \subseteq Procs
    BY DEF Newer, Fulls, Succeeded
  <2>2. QED
    BY <2>1, ProcsAssumption, FS_Subset
<1>5. /\ Cardinality(newer) \in Nat /\ Cardinality(newer') \in Nat
      /\ Cardinality(newer) <= Cardinality(newer')
  BY <1>2, <1>3, <1>4, FS_Subset, FS_CardinalityType
<1>6. Cardinality(newer) >= Keep
  BY DEF Expired
<1>7. Cardinality(newer') >= Keep
  BY <1>5, <1>6, KeepAssumption
<1>8. QED
  BY <1>1, <1>7 DEF Expired

LEMMA VictimSafe ==
    ASSUME PlansAreSafe, NEW p \in Procs, pc[p] \in Deleting,
           NEW u \in todo[p], NEW v \in Procs, Victim(p, u, v)
    PROVE  IF job[p] = "backup" THEN v = p
           ELSE v \in Succeeded /\ (meta[v].kind = "incremental" \/ Expired(v))
  BY DEF PlansAreSafe, Victim, Expired

LEMMA AdvanceSafe ==
    ASSUME OrderInv, PlansAreSafe, \A f : Expired(f) => Expired(f)', Grows,
           UNCHANGED <<job, meta>>,
           NEW p \in Procs, pc[p] \in Deleting, NEW u \in todo[p], NEW v \in Procs,
           NEW complete \in BOOLEAN, Advance(p, u, v, complete)
    PROVE  PlansAreSafe' /\ Succeeded' = Succeeded
<1>1. Succeeded' = Succeeded
  BY DEF OrderInv, TypeOK, Succeeded, Advance, Exit, GoTo, Deleting
<1>2. ASSUME NEW w \in todo'[p]
      PROVE  \/ w \in todo[p]
             \/ w.last = u.last /\ w.before \subseteq u.before
  BY <1>2 DEF OrderInv, TypeOK, Advance
<1>3. \A q \in Procs : q # p => todo'[q] = todo[q] /\ pc'[q] = pc[q]
  BY DEF OrderInv, TypeOK, Advance, GoTo
<1>4. ASSUME NEW q \in Procs, pc'[q] \in Deleting, NEW w \in todo'[q]
      PROVE  IF job'[q] = "backup" THEN w.before = {} /\ w.last = q
             ELSE /\ Expired(w.last)'
                  /\ \A b \in w.before : b \in Succeeded' /\ meta'[b].kind = "incremental"
  <2>1. CASE q = p
    BY <1>1, <1>2, <1>4, <2>1 DEF PlansAreSafe
  <2>2. CASE q # p
    BY <1>1, <1>3, <1>4, <2>2 DEF PlansAreSafe
  <2>3. QED
    BY <2>1, <2>2
<1>5. QED
  BY <1>1, <1>4 DEF PlansAreSafe

(* A deletion step of p on its victim v disturbs nothing that is kept.     *)
LEMMA DeletionSafe ==
    ASSUME RetainInv, \A f : Expired(f) => Expired(f)',
           NEW p \in Procs, pc[p] \in Deleting, NEW u \in todo[p], NEW v \in Procs,
           Victim(p, u, v), UNCHANGED <<job, view, meta, row, late>>,
           \A b \in Procs : b # v => data'[b] = data[b],
           sidecar' \subseteq sidecar, sidecar \ {v} \subseteq sidecar',
           \A q \in Procs : q # p => pc'[q] = pc[q],
           pc'[p] \notin {"poll", "write"},
           PlansAreSafe', Succeeded' = Succeeded
    PROVE  ShownSucceeded' /\ WrittenAreComplete' /\ PlansAreSafe' /\ KeptOrExpired'
<1>1. IF job[p] = "backup" THEN v = p
      ELSE v \in Succeeded /\ (meta[v].kind = "incremental" \/ Expired(v))
  BY VictimSafe DEF RetainInv
<1>2. job[p] = "backup" => p \notin Succeeded
  BY DEF Succeeded, Deleting
<1>3. ShownSucceeded'
  BY DEF RetainInv, ShownSucceeded
<1>4. WrittenAreComplete'
  <2> SUFFICES ASSUME NEW q \in Procs
               PROVE  /\ pc'[q] = "poll" /\ row'[q] = "created" => data'[q] = "complete"
                      /\ pc'[q] = "write" => data'[q] = "complete"
                      /\ q \in Succeeded' \/ pc'[q] = "write" => row'[q] # "creating"
    BY DEF WrittenAreComplete
  <2>1. CASE q = p
    BY <2>1 DEF RetainInv, WrittenAreComplete
  <2>2. CASE q # p
    <3>1. pc[q] \in {"poll", "write"} => q # v
      BY <1>1, <2>2 DEF RetainInv, OrderInv, Stages, Succeeded
    <3>2. QED
      BY <2>2, <3>1 DEF RetainInv, WrittenAreComplete
  <2>3. QED
    BY <2>1, <2>2
<1>5. KeptOrExpired'
  <2> SUFFICES ASSUME NEW f \in Fulls(meta, Succeeded), ~Expired(f)
               PROVE  f \in sidecar' /\ data'[f] = "complete"
    BY DEF KeptOrExpired, Fulls
  <2>1. f \in sidecar /\ data[f] = "complete"
    BY DEF RetainInv, KeptOrExpired
  <2>2. f # v /\ f \in Procs
    BY <1>1, <1>2 DEF Fulls, Succeeded
  <2>3. QED
    BY <2>1, <2>2
<1>6. QED
  BY <1>3, <1>4, <1>5

LEMMA RetainInit == Init => RetainInv
<1> SUFFICES ASSUME Init PROVE RetainInv
  OBVIOUS
<1>1. Succeeded = {}
  BY DEF Init, Succeeded, NoMeta
<1>2. QED
  BY <1>1, OrderInit DEF Init, RetainInv, ShownSucceeded, WrittenAreComplete, PlansAreSafe,
                         KeptOrExpired, Fulls, Deleting

LEMMA RetainStep ==
    ASSUME "late" \notin Faults, RetainInv, [Next]_vars
    PROVE  RetainInv'
<1>1. OrderInv' /\ Grows
  BY OrderStep DEF RetainInv
<1>2. TypeOK /\ TypeOK' /\ Stages
  BY <1>1 DEF RetainInv, OrderInv
<1>3. \A f : Expired(f) => Expired(f)'
  BY <1>1, <1>2, ExpiredStays
<1> DEFINE J == ShownSucceeded /\ WrittenAreComplete /\ PlansAreSafe /\ KeptOrExpired
<1> USE DEF local, bucket, GoTo, Fault
<1>4. CASE UNCHANGED vars
  BY <1>1, <1>2, <1>3, <1>4 DEF RetainInv, vars, TypeOK,
     ShownSucceeded, WrittenAreComplete, PlansAreSafe, KeptOrExpired, Succeeded, Fulls
<1>5. ASSUME NEW p \in Procs, StartBackup(p) PROVE J'
  BY <1>1, <1>2, <1>3, <1>5 DEF RetainInv, TypeOK, Stages, Prepared,
     ShownSucceeded, WrittenAreComplete, PlansAreSafe, KeptOrExpired, Succeeded, Fulls, Grows,
     Reading, Deleting, Running, StartBackup
<1>6. ASSUME NEW p \in Procs, StartCleanup(p) PROVE J'
  BY <1>1, <1>2, <1>3, <1>6 DEF RetainInv, TypeOK, Stages, Prepared,
     ShownSucceeded, WrittenAreComplete, PlansAreSafe, KeptOrExpired, Succeeded, Fulls, Grows,
     Reading, Deleting, Running, StartCleanup
<1>7. ASSUME NEW p \in Procs, Guard(p) PROVE J'
  BY <1>1, <1>2, <1>3, <1>7 DEF RetainInv, TypeOK, Stages, Prepared,
     ShownSucceeded, WrittenAreComplete, PlansAreSafe, KeptOrExpired, Succeeded, Fulls, Grows,
     Reading, Deleting, Running, Guard
<1>8. ASSUME NEW p \in Procs, ListFulls(p) PROVE J'
  BY <1>1, <1>2, <1>3, <1>8 DEF RetainInv, TypeOK, Stages, Prepared,
     ShownSucceeded, WrittenAreComplete, PlansAreSafe, KeptOrExpired, Succeeded, Fulls, Grows,
     Reading, Deleting, Running, ListFulls, Listed, Fulls
<1>9. ASSUME NEW p \in Procs, ListIncrementals(p) PROVE J'
  BY <1>1, <1>2, <1>3, <1>9 DEF RetainInv, TypeOK, Stages, Prepared,
     ShownSucceeded, WrittenAreComplete, PlansAreSafe, KeptOrExpired, Succeeded, Fulls, Grows,
     Reading, Deleting, Running, ListIncrementals, Listed, Incrementals
<1>10. ASSUME NEW p \in Procs, Decide(p) PROVE J'
  BY <1>1, <1>2, <1>3, <1>10 DEF RetainInv, TypeOK, Stages, Prepared,
     ShownSucceeded, WrittenAreComplete, PlansAreSafe, KeptOrExpired, Succeeded, Fulls, Grows,
     Reading, Deleting, Running, Decide, Now
<1>11. ASSUME NEW p \in Procs, Submit(p) PROVE J'
  BY <1>1, <1>2, <1>3, <1>11 DEF RetainInv, TypeOK, Stages, Prepared,
     ShownSucceeded, WrittenAreComplete, PlansAreSafe, KeptOrExpired, Succeeded, Fulls, Grows,
     Reading, Deleting, Running, Submit, ServerAccepts, ServerAnswers
<1>12. ASSUME NEW p \in Procs, SubmitFails(p) PROVE J'
  BY <1>1, <1>2, <1>3, <1>12 DEF RetainInv, TypeOK, Stages, Prepared,
     ShownSucceeded, WrittenAreComplete, PlansAreSafe, KeptOrExpired, Succeeded, Fulls, Grows,
     Reading, Deleting, Running, SubmitFails, ServerAccepts, ServerAnswers
<1>13. ASSUME NEW p \in Procs, PollCompleted(p) PROVE J'
  BY <1>1, <1>2, <1>3, <1>13 DEF RetainInv, TypeOK, Stages, Prepared,
     ShownSucceeded, WrittenAreComplete, PlansAreSafe, KeptOrExpired, Succeeded, Fulls, Grows,
     Reading, Deleting, Running, PollCompleted, Finished
<1>14. ASSUME NEW p \in Procs, PollFailed(p) PROVE J'
  BY <1>1, <1>2, <1>3, <1>14 DEF RetainInv, TypeOK, Stages, Prepared,
     ShownSucceeded, WrittenAreComplete, PlansAreSafe, KeptOrExpired, Succeeded, Fulls, Grows,
     Reading, Deleting, Running, PollFailed
<1>15. ASSUME NEW p \in Procs, PollGivesUp(p) PROVE J'
  BY <1>1, <1>2, <1>3, <1>15 DEF RetainInv, TypeOK, Stages, Prepared,
     ShownSucceeded, WrittenAreComplete, PlansAreSafe, KeptOrExpired, Succeeded, Fulls, Grows,
     Reading, Deleting, Running, PollGivesUp
<1>16. ASSUME NEW p \in Procs, PollLost(p) PROVE J'
  BY <1>1, <1>2, <1>3, <1>16 DEF RetainInv, TypeOK, Stages, Prepared,
     ShownSucceeded, WrittenAreComplete, PlansAreSafe, KeptOrExpired, Succeeded, Fulls, Grows,
     Reading, Deleting, Running, PollLost, Rollback
<1>17. ASSUME NEW p \in Procs, WriteMetadata(p) PROVE J'
  BY <1>1, <1>2, <1>3, <1>17 DEF RetainInv, TypeOK, Stages, Prepared,
     ShownSucceeded, WrittenAreComplete, PlansAreSafe, KeptOrExpired, Succeeded, Fulls, Grows,
     Reading, Deleting, Running, WriteMetadata
<1>18. ASSUME NEW p \in Procs, WriteMetadataFails(p) PROVE J'
  BY <1>1, <1>2, <1>3, <1>18 DEF RetainInv, TypeOK, Stages, Prepared,
     ShownSucceeded, WrittenAreComplete, PlansAreSafe, KeptOrExpired, Succeeded, Fulls, Grows,
     Reading, Deleting, Running, WriteMetadataFails, Rollback
<1>19. ASSUME NEW p \in Procs, LatePut(p) PROVE J'
  BY <1>1, <1>2, <1>3, <1>19 DEF RetainInv, TypeOK, Stages, Prepared,
     ShownSucceeded, WrittenAreComplete, PlansAreSafe, KeptOrExpired, Succeeded, Fulls, Grows,
     Reading, Deleting, Running, LatePut
<1>20. ASSUME NEW p \in Procs, Select(p) PROVE J'
  <2> DEFINE fulls == SelectForDeletion(meta, view[p], Keep, KeepDays, clock)
  <2>1. view[p] \subseteq Succeeded
    BY DEF RetainInv, ShownSucceeded
  <2>2. \A f \in fulls : Expired(f)
    BY <1>2, <2>1, SelectedExpired
  <2>3. \A f \in fulls : \A b \in ChainIncrementals(meta, view[p], f) :
           b \in Succeeded /\ meta[b].kind = "incremental"
    BY <2>1 DEF ChainIncrementals, Incrementals
  <2>4. \A u \in Units(view[p], fulls) :
           /\ Expired(u.last)
           /\ \A b \in u.before : b \in Succeeded /\ meta[b].kind = "incremental"
    BY <2>2, <2>3 DEF Units
  <2>5. /\ job[p] = "cleanup" /\ pc[p] = "select" /\ UNCHANGED <<job, meta, row, data, sidecar, late>>
        /\ todo' = [todo EXCEPT ![p] = Units(view[p], fulls)]
        /\ view' = [view EXCEPT ![p] = {}]
        /\ pc' = [pc EXCEPT ![p] = AfterSelect(fulls)]
    BY <1>2, <1>20 DEF Select, Stages
  <2>6. AfterSelect(fulls) \in {"done", "del_list"}
    BY DEF AfterSelect
  <2> HIDE DEF fulls
  <2>7. Succeeded' = Succeeded
    BY <1>2, <2>5, <2>6 DEF Succeeded, TypeOK
  <2>8. PlansAreSafe'
    <3> SUFFICES ASSUME NEW q \in Procs, pc'[q] \in Deleting, NEW w \in todo'[q]
                 PROVE  IF job'[q] = "backup" THEN w.before = {} /\ w.last = q
                        ELSE /\ Expired(w.last)'
                             /\ \A b \in w.before : b \in Succeeded' /\ meta'[b].kind = "incremental"
      BY DEF PlansAreSafe
    <3>1. CASE q = p
      BY <1>2, <1>3, <2>4, <2>5, <2>7, <3>1 DEF TypeOK
    <3>2. CASE q # p
      <4>1. pc[q] \in Deleting /\ w \in todo[q]
        BY <1>2, <2>5, <3>2 DEF TypeOK
      <4>2. QED
        BY <1>3, <2>5, <2>7, <4>1 DEF RetainInv, PlansAreSafe
    <3>3. QED
      BY <3>1, <3>2
  <2>9. ShownSucceeded' /\ WrittenAreComplete' /\ KeptOrExpired'
    BY <1>2, <1>3, <2>5, <2>6, <2>7 DEF RetainInv, TypeOK, ShownSucceeded, WrittenAreComplete,
       KeptOrExpired, Fulls
  <2>10. QED
    BY <2>8, <2>9
<1>21. ASSUME NEW p \in Procs, DeleteList(p) PROVE J'
  BY <1>1, <1>2, <1>3, <1>21 DEF RetainInv, TypeOK, Stages, Prepared,
     ShownSucceeded, WrittenAreComplete, PlansAreSafe, KeptOrExpired, Succeeded, Fulls, Grows,
     Reading, Deleting, Running, DeleteList
<1>22. ASSUME NEW p \in Procs, DeleteSome(p) PROVE J'
  <2>1. PICK u \in todo[p], v \in Procs :
           Victim(p, u, v) /\ data' = [data EXCEPT ![v] = "partial"]
    BY <1>22 DEF DeleteSome
  <2>2. pc[p] = "del_data" /\ UNCHANGED <<pc, job, view, todo, meta, row, sidecar, late>>
    BY <1>22 DEF DeleteSome
  <2>3. Succeeded' = Succeeded /\ PlansAreSafe'
    BY <1>3, <2>2 DEF RetainInv, PlansAreSafe, Succeeded
  <2>4. QED
    BY <1>2, <1>3, <2>1, <2>2, <2>3, DeletionSafe DEF TypeOK, Deleting
<1>23. ASSUME NEW p \in Procs, DeleteData(p) PROVE J'
  <2>1. PICK u \in todo[p], v \in Procs :
           /\ Victim(p, u, v) /\ data' = [data EXCEPT ![v] = "none"]
           /\ \/ GoTo(p, "del_meta") /\ UNCHANGED <<todo, bad, dirty, held>>
              \/ Advance(p, u, v, TRUE)
    BY <1>23 DEF DeleteData
  <2>2. pc[p] = "del_data" /\ UNCHANGED <<job, view, meta, row, sidecar, late>>
    BY <1>23 DEF DeleteData
  <2>3. PlansAreSafe' /\ Succeeded' = Succeeded
    <3>1. CASE Advance(p, u, v, TRUE)
      BY <1>1, <1>3, <2>2, <3>1, AdvanceSafe DEF RetainInv, Deleting
    <3>2. CASE GoTo(p, "del_meta") /\ UNCHANGED <<todo, bad, dirty, held>>
      BY <1>2, <1>3, <2>2, <3>2 DEF RetainInv, PlansAreSafe, Succeeded, TypeOK, Deleting
    <3>3. QED
      BY <2>1, <3>1, <3>2
  <2>4. (\A q \in Procs : q # p => pc'[q] = pc[q]) /\ pc'[p] \notin {"poll", "write"}
    BY <1>2, <2>1 DEF Advance, Exit, TypeOK
  <2>5. QED
    BY <1>2, <1>3, <2>1, <2>2, <2>3, <2>4, DeletionSafe DEF TypeOK, Deleting
<1>24. ASSUME NEW p \in Procs, DeleteMeta(p) PROVE J'
  <2>1. PICK u \in todo[p], v \in Procs :
           Victim(p, u, v) /\ sidecar' = sidecar \ {v} /\ Advance(p, u, v, TRUE)
    BY <1>24 DEF DeleteMeta
  <2>2. pc[p] = "del_meta" /\ UNCHANGED <<job, view, meta, row, data, late>>
    BY <1>24 DEF DeleteMeta
  <2>3. PlansAreSafe' /\ Succeeded' = Succeeded
    BY <1>1, <1>3, <2>1, <2>2, AdvanceSafe DEF RetainInv, Deleting
  <2>4. (\A q \in Procs : q # p => pc'[q] = pc[q]) /\ pc'[p] \notin {"poll", "write"}
    BY <1>2, <2>1 DEF Advance, Exit, TypeOK
  <2>5. QED
    BY <1>2, <1>3, <2>1, <2>2, <2>3, <2>4, DeletionSafe DEF TypeOK, Deleting
<1>25. ASSUME NEW p \in Procs, DeleteFails(p) PROVE J'
  <2>1. PICK u \in todo[p], v \in Procs :
           /\ Victim(p, u, v) /\ data' \in DataAfter(p, v) /\ sidecar' \in SidecarAfter(p, v)
           /\ Advance(p, u, v, FALSE)
    BY <1>25 DEF DeleteFails
  <2>2. pc[p] \in Deleting /\ UNCHANGED <<job, view, meta, row, late>>
    BY <1>25 DEF DeleteFails
  <2>3. PlansAreSafe' /\ Succeeded' = Succeeded
    BY <1>1, <1>3, <2>1, <2>2, AdvanceSafe DEF RetainInv
  <2>4. (\A q \in Procs : q # p => pc'[q] = pc[q]) /\ pc'[p] \notin {"poll", "write"}
    BY <1>2, <2>1 DEF Advance, Exit, TypeOK
  <2>5. /\ \A b \in Procs : b # v => data'[b] = data[b]
        /\ sidecar' \subseteq sidecar /\ sidecar \ {v} \subseteq sidecar'
    BY <1>2, <2>1 DEF DataAfter, SidecarAfter, TypeOK
  <2>6. QED
    BY <1>2, <1>3, <2>1, <2>2, <2>3, <2>4, <2>5, DeletionSafe
<1>26. ASSUME NEW p \in Procs, ReadFails(p) PROVE J'
  BY <1>1, <1>2, <1>3, <1>26 DEF RetainInv, TypeOK, Stages, Prepared,
     ShownSucceeded, WrittenAreComplete, PlansAreSafe, KeptOrExpired, Succeeded, Fulls, Grows,
     Reading, Deleting, Running, ReadFails, Exit
<1>27. ASSUME NEW p \in Procs, Crash(p) PROVE J'
  BY <1>1, <1>2, <1>3, <1>27 DEF RetainInv, TypeOK, Stages, Prepared,
     ShownSucceeded, WrittenAreComplete, PlansAreSafe, KeptOrExpired, Succeeded, Fulls, Grows,
     Reading, Deleting, Running, Crash
<1>28. ASSUME NEW p \in Procs, ServerCompletes(p) PROVE J'
  BY <1>1, <1>2, <1>3, <1>28 DEF RetainInv, TypeOK, Stages, Prepared,
     ShownSucceeded, WrittenAreComplete, PlansAreSafe, KeptOrExpired, Succeeded, Fulls, Grows,
     Reading, Deleting, Running, ServerCompletes
<1>29. ASSUME NEW p \in Procs, ServerFails(p) PROVE J'
  BY <1>1, <1>2, <1>3, <1>29 DEF RetainInv, TypeOK, Stages, Prepared,
     ShownSucceeded, WrittenAreComplete, PlansAreSafe, KeptOrExpired, Succeeded, Fulls, Grows,
     Reading, Deleting, Running, ServerFails
<1>30. CASE ServerRestarts
  BY <1>1, <1>2, <1>3, <1>30 DEF RetainInv, TypeOK, Stages, Prepared,
     ShownSucceeded, WrittenAreComplete, PlansAreSafe, KeptOrExpired, Succeeded, Fulls, Grows, ServerRestarts
<1>31. CASE Tick
  BY <1>1, <1>2, <1>3, <1>31 DEF RetainInv, TypeOK, Stages, Prepared,
     ShownSucceeded, WrittenAreComplete, PlansAreSafe, KeptOrExpired, Succeeded, Fulls, Grows, Tick
<1>32. QED
  BY <1>1, <1>2, <1>3, <1>4, <1>5, <1>6, <1>7, <1>8, <1>9, <1>10, <1>11, <1>12,
     <1>13, <1>14, <1>15, <1>16, <1>17, <1>18, <1>19, <1>20, <1>21, <1>22, <1>23, <1>24,
     <1>25, <1>26, <1>27, <1>28, <1>29, <1>30, <1>31 DEF Next, RetainInv

(* Whatever overlaps, crashes or fails to delete, a full backup a run has  *)
(* reported stays in the bucket while fewer than keep_full_backups newer   *)
(* ones have been reported, if no PUT is applied after its run gave up.    *)
THEOREM RetentionSafe ==
    ASSUME "late" \notin Faults
    PROVE  Spec => []FullsRetained
<1>1. RetainInv => FullsRetained
  <2> SUFFICES ASSUME RetainInv,
                      NEW f \in Fulls(meta, Succeeded),
                      Cardinality(Newer(meta, Fulls(meta, Succeeded), f)) < Keep
               PROVE  f \in sidecar /\ data[f] = "complete"
    BY DEF FullsRetained
  <2>1. Cardinality(Newer(meta, Fulls(meta, Succeeded), f)) \in Nat
    BY NewerFinite, FS_CardinalityType DEF RetainInv, OrderInv
  <2>2. ~Expired(f)
    BY <2>1, KeepAssumption DEF Expired
  <2>3. QED
    BY <2>2 DEF RetainInv, KeptOrExpired
<1>2. RetainInv /\ [Next]_vars => RetainInv'
  BY RetainStep
<1>3. QED
  BY RetainInit, <1>1, <1>2, PTL DEF Spec
=============================================================================
