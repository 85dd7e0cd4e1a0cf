------------------------ MODULE VaultSequentialProofs ------------------------
(***************************************************************************)
(* Theorems about Vault when invocations do not overlap, deletions do not  *)
(* fail, discovery skips nothing and no PUT is applied late: that every    *)
(* visible backup belongs to a chain, that the health check reports the    *)
(* newest one, that a success can be restored, that keep_days is kept, and *)
(* that the next cleanup finishes what an interrupted one left.            *)
(***************************************************************************)
EXTENDS VaultCleanupProofs

(* Cron starts one invocation after the other has ended; processes are     *)
(* killed and requests fail, any number of times, but not as said above.   *)
Sequential == MaxActive = 1 /\ Faults \cap {"late", "delete", "skip"} = {}

(* At most one invocation runs.                                            *)
Alone == \A p, q \in Active : p = q

(* What it has listed is what is there.                                    *)
ViewsCurrent ==
    \A p \in Procs :
        /\ pc[p] = "incrementals" => view[p] = Fulls(meta, sidecar)
        /\ pc[p] \in {"decide", "select"} => view[p] = sidecar

Writing == {p \in Procs : pc[p] \in {"submit", "poll", "write"}}

LEMMA NobodyActive ==
    ASSUME MaxActive = 1, Cardinality(Active) < MaxActive
    PROVE  \A p \in Procs : pc[p] \notin Running
<1>1. Active \subseteq Procs
  BY DEF Active
<1>2. IsFiniteSet(Active) /\ Cardinality(Active) \in Nat
  BY <1>1, ProcsAssumption, FS_Subset, FS_CardinalityType
<1>3. Active = {}
  BY <1>2, FS_EmptySet
<1>4. QED
  BY <1>3 DEF Active

(***************************************************************************)
(* What a step does: it is of the only invocation that runs, or starts it; *)
(* it keeps what that has listed current; a backup is prepared by Decide   *)
(* only, and a selection made by Select only; and a cleanup ends without   *)
(* failures at its last deletion, or with nothing to delete.               *)
(***************************************************************************)
DecidesFirst ==
    \A q \in Procs : pc'[q] \in {"submit", "poll", "write"} =>
        pc[q] \in {"submit", "poll", "write"} \/ Decide(q)
SelectsFirst == \A q \in Procs : picked'[q] = picked[q] \/ Select(q)
EndsLast ==
    \A q \in Procs :
        job[q] = "cleanup" /\ pc[q] # "done" /\ pc'[q] = "done" /\ ~dirty'[q] =>
            job'[q] = "cleanup" /\ (pc[q] \in Deleting \/ Select(q))

LEMMA AloneStep ==
    ASSUME Sequential, OrderInv, Alone, [Next]_vars
    PROVE  Alone' /\ DecidesFirst /\ SelectsFirst /\ EndsLast /\ clock' >= clock
<1> DEFINE E == /\ \A q, r \in Procs : pc'[q] \in Running /\ pc'[r] \in Running => q = r
                /\ DecidesFirst /\ SelectsFirst /\ EndsLast /\ clock' >= clock
<1> SUFFICES E
  BY DEF Alone, Active
<1>a. \A q, r \in Procs : pc[q] \in Running /\ pc[r] \in Running => q = r
  BY DEF Alone, Active
<1>b. Cardinality(Active) < MaxActive => \A p \in Procs : pc[p] \notin Running
  BY NobodyActive DEF Sequential
<1>c. TypeOK /\ Stages
  BY DEF OrderInv
<1> USE <1>a, <1>b, <1>c DEF local, bucket, GoTo, Fault, TypeOK, Stages, DecidesFirst, SelectsFirst,
     EndsLast, Running, Reading, Deleting, Over
<1>1. CASE UNCHANGED vars
  BY <1>a, <1>c, <1>1 DEF vars, TypeOK, DecidesFirst, SelectsFirst, EndsLast
<1>2. ASSUME NEW p \in Procs, StartBackup(p) PROVE E
  BY <1>2 DEF StartBackup
<1>3. ASSUME NEW p \in Procs, StartCleanup(p) PROVE E
  BY <1>3 DEF StartCleanup
<1>4. ASSUME NEW p \in Procs, Guard(p) PROVE E
  BY <1>4 DEF Guard
<1>5. ASSUME NEW p \in Procs, ListFulls(p) PROVE E
  BY <1>5 DEF ListFulls, Listed
<1>6. ASSUME NEW p \in Procs, ListIncrementals(p) PROVE E
  BY <1>6 DEF ListIncrementals, Listed
<1>7. ASSUME NEW p \in Procs, Decide(p) PROVE E
  <2>1. /\ pc[p] = "decide" /\ pc' = [pc EXCEPT ![p] = "submit"] /\ clock' = clock + 1
        /\ UNCHANGED <<picked, dirty, job>>
    BY <1>7 DEF Decide
  <2>2. SelectsFirst /\ EndsLast /\ clock' >= clock
    BY <1>c, <2>1 DEF TypeOK, SelectsFirst, EndsLast
  <2>3. DecidesFirst
    BY <1>c, <2>1, <1>7 DEF TypeOK, DecidesFirst
  <2>4. QED
    BY <1>a, <1>c, <2>1, <2>2, <2>3 DEF TypeOK, Running, Reading
<1>8. ASSUME NEW p \in Procs, Submit(p) PROVE E
  BY <1>8 DEF Submit, ServerAccepts, ServerAnswers
<1>9. ASSUME NEW p \in Procs, SubmitFails(p) PROVE E
  BY <1>9 DEF SubmitFails, ServerAccepts, ServerAnswers
<1>10. ASSUME NEW p \in Procs, PollCompleted(p) PROVE E
  BY <1>10 DEF PollCompleted, Finished
<1>11. ASSUME NEW p \in Procs, PollFailed(p) PROVE E
  BY <1>11 DEF PollFailed
<1>12. ASSUME NEW p \in Procs, PollGivesUp(p) PROVE E
  BY <1>12 DEF PollGivesUp
<1>13. ASSUME NEW p \in Procs, PollLost(p) PROVE E
  BY <1>13 DEF PollLost, Rollback
<1>14. ASSUME NEW p \in Procs, WriteMetadata(p) PROVE E
  BY <1>14 DEF WriteMetadata
<1>15. ASSUME NEW p \in Procs, WriteMetadataFails(p) PROVE E
  BY <1>15 DEF WriteMetadataFails, Rollback
<1>16. ASSUME NEW p \in Procs, LatePut(p) PROVE E
  BY <1>16 DEF LatePut
<1>17. ASSUME NEW p \in Procs, Select(p) PROVE E
  <2>1. /\ pc[p] = "select" /\ \E t \in {"done", "del_list"} : pc' = [pc EXCEPT ![p] = t]
        /\ \E s : picked' = [picked EXCEPT ![p] = s]
        /\ UNCHANGED <<dirty, clock, job>>
    BY <1>17 DEF Select, AfterSelect
  <2>2. SelectsFirst /\ EndsLast
    BY <1>c, <2>1, <1>17 DEF TypeOK, SelectsFirst, EndsLast
  <2>3. DecidesFirst /\ clock' >= clock
    BY <1>c, <2>1 DEF TypeOK, DecidesFirst
  <2>4. QED
    BY <1>a, <1>c, <2>1, <2>2, <2>3 DEF TypeOK, Running, Reading, Deleting
<1>18. ASSUME NEW p \in Procs, DeleteList(p) PROVE E
  BY <1>18 DEF DeleteList
<1>19. ASSUME NEW p \in Procs, DeleteSome(p) PROVE E
  BY <1>19 DEF DeleteSome
<1>20. ASSUME NEW p \in Procs, DeleteData(p) PROVE E
  <2>1. /\ pc[p] = "del_data" /\ UNCHANGED <<picked, clock, job>>
        /\ \E t \in {"del_meta", "del_list", "done", "failed"} : pc' = [pc EXCEPT ![p] = t]
    BY <1>20 DEF DeleteData, Advance, Exit
  <2>2. SelectsFirst /\ DecidesFirst /\ EndsLast /\ clock' >= clock
    BY <1>c, <2>1 DEF TypeOK, DecidesFirst, SelectsFirst, EndsLast, Deleting
  <2>3. QED
    BY <1>a, <1>c, <2>1, <2>2 DEF TypeOK, Running, Deleting
<1>21. ASSUME NEW p \in Procs, DeleteMeta(p) PROVE E
  BY <1>21 DEF DeleteMeta, Advance, Exit
<1>22. ASSUME NEW p \in Procs, DeleteFails(p) PROVE E
  BY <1>22 DEF DeleteFails, Advance, Exit, DataAfter, SidecarAfter
<1>23. ASSUME NEW p \in Procs, ReadFails(p) PROVE E
  <2>1. /\ pc[p] \in Reading /\ \E t \in {"done", "failed"} : pc' = [pc EXCEPT ![p] = t]
        /\ UNCHANGED <<picked, clock, job>>
    BY <1>23 DEF ReadFails, Exit
  <2>2. job[p] = "cleanup" => dirty'[p]
    <3>1. dirty' = [dirty EXCEPT ![p] = (job[p] = "cleanup")]
      BY <1>23 DEF ReadFails
    <3>2. dirty'[p] = (job[p] = "cleanup")
      BY <1>c, <3>1 DEF TypeOK
    <3>3. QED
      BY <3>2
  <2>3. EndsLast
    BY <1>c, <2>1, <2>2 DEF TypeOK, EndsLast
  <2>4. SelectsFirst /\ DecidesFirst /\ clock' >= clock
    BY <1>c, <2>1 DEF TypeOK, DecidesFirst, SelectsFirst
  <2>5. QED
    BY <1>a, <1>c, <2>1, <2>3, <2>4 DEF TypeOK, Running, Reading
<1>24. ASSUME NEW p \in Procs, Crash(p) PROVE E
  BY <1>24 DEF Crash
<1>25. ASSUME NEW p \in Procs, ServerCompletes(p) PROVE E
  BY <1>25 DEF ServerCompletes
<1>26. ASSUME NEW p \in Procs, ServerFails(p) PROVE E
  BY <1>26 DEF ServerFails
<1>27. CASE ServerRestarts
  BY <1>27 DEF ServerRestarts
<1>28. CASE Tick
  BY <1>28 DEF Tick
<1>29. QED
  BY <1>1, <1>2, <1>3, <1>4, <1>5, <1>6, <1>7, <1>8, <1>9, <1>10, <1>11, <1>12, <1>13, <1>14,
       <1>15, <1>16, <1>17, <1>18, <1>19, <1>20, <1>21, <1>22, <1>23, <1>24, <1>25, <1>26, <1>27,
       <1>28 DEF Next

LEMMA ViewsStep ==
    ASSUME Sequential, OrderInv, late = {}, Alone, ViewsCurrent, [Next]_vars
    PROVE  ViewsCurrent'
<1>a. \A q, r \in Procs : pc[q] \in Running /\ pc[r] \in Running => q = r
  BY DEF Alone, Active
<1>b. TypeOK /\ Stages /\ \A b \in sidecar : meta[b].kind \in {"full", "incremental"}
  BY DEF OrderInv, TypeOK, ShownArePrepared, Prepared
<1>c. "skip" \notin Faults
  BY DEF Sequential
<1> USE <1>a, <1>b, <1>c DEF local, bucket, GoTo, Fault, ViewsCurrent, TypeOK, Running, Reading,
     Deleting, Over
<1>1. CASE UNCHANGED vars
  BY <1>1 DEF vars
<1>2. ASSUME NEW p \in Procs, StartBackup(p) PROVE ViewsCurrent'
  BY <1>2 DEF StartBackup
<1>3. ASSUME NEW p \in Procs, StartCleanup(p) PROVE ViewsCurrent'
  BY <1>3 DEF StartCleanup
<1>4. ASSUME NEW p \in Procs, Guard(p) PROVE ViewsCurrent'
  BY <1>4 DEF Guard
<1>5. ASSUME NEW p \in Procs, ListFulls(p) PROVE ViewsCurrent'
  <2>1. Listed(p, Fulls(meta, sidecar), view'[p])
    BY <1>b, <1>5 DEF ListFulls, TypeOK
  <2>2. view'[p] = Fulls(meta, sidecar)
    BY <1>c, <2>1 DEF Listed
  <2>3. pc[p] = "fulls" /\ pc' = [pc EXCEPT ![p] = "incrementals"] /\ UNCHANGED <<meta, sidecar>>
    BY <1>5 DEF ListFulls
  <2>4. \A q \in Procs \ {p} : pc[q] \notin Running
    BY <1>a, <2>3 DEF Running, Reading
  <2>5. QED
    BY <1>b, <2>2, <2>3, <2>4 DEF TypeOK, Running, Reading
<1>6. ASSUME NEW p \in Procs, ListIncrementals(p) PROVE ViewsCurrent'
  <2>1. PICK read \in SUBSET sidecar :
           /\ Listed(p, Incrementals(meta, sidecar), read)
           /\ view' = [view EXCEPT ![p] = @ \cup read]
    BY <1>6 DEF ListIncrementals
  <2>2. pc[p] = "incrementals" /\ UNCHANGED <<meta, sidecar>>
        /\ \E t \in {"decide", "select"} : pc' = [pc EXCEPT ![p] = t]
    BY <1>6 DEF ListIncrementals
  <2>3. view'[p] = Fulls(meta, sidecar) \cup Incrementals(meta, sidecar)
    BY <1>b, <1>c, <2>1, <2>2 DEF Listed, TypeOK
  <2>4. view'[p] = sidecar
    BY <1>b, <2>3 DEF Fulls, Incrementals
  <2>5. \A q \in Procs \ {p} : pc[q] \notin Running
    BY <1>a, <2>2 DEF Running, Reading
  <2>6. QED
    BY <1>b, <2>2, <2>4, <2>5 DEF TypeOK, Running, Reading
<1>7. ASSUME NEW p \in Procs, Decide(p) PROVE ViewsCurrent'
  BY <1>7 DEF Decide, Now, DecideKind
<1>8. ASSUME NEW p \in Procs, Submit(p) PROVE ViewsCurrent'
  BY <1>8 DEF Submit, ServerAccepts, ServerAnswers
<1>9. ASSUME NEW p \in Procs, SubmitFails(p) PROVE ViewsCurrent'
  BY <1>9 DEF SubmitFails, ServerAccepts, ServerAnswers
<1>10. ASSUME NEW p \in Procs, PollCompleted(p) PROVE ViewsCurrent'
  BY <1>10 DEF PollCompleted, Finished
<1>11. ASSUME NEW p \in Procs, PollFailed(p) PROVE ViewsCurrent'
  BY <1>11 DEF PollFailed
<1>12. ASSUME NEW p \in Procs, PollGivesUp(p) PROVE ViewsCurrent'
  BY <1>12 DEF PollGivesUp
<1>13. ASSUME NEW p \in Procs, PollLost(p) PROVE ViewsCurrent'
  BY <1>13 DEF PollLost, Rollback
<1>14. ASSUME NEW p \in Procs, WriteMetadata(p) PROVE ViewsCurrent'
  BY <1>14 DEF WriteMetadata
<1>15. ASSUME NEW p \in Procs, WriteMetadataFails(p) PROVE ViewsCurrent'
  BY <1>15 DEF WriteMetadataFails, Rollback
<1>16. ASSUME NEW p \in Procs, LatePut(p) PROVE ViewsCurrent'
  BY <1>16 DEF LatePut
<1>17. ASSUME NEW p \in Procs, Select(p) PROVE ViewsCurrent'
  BY <1>17 DEF Select, AfterSelect
<1>18. ASSUME NEW p \in Procs, DeleteList(p) PROVE ViewsCurrent'
  BY <1>18 DEF DeleteList
<1>19. ASSUME NEW p \in Procs, DeleteSome(p) PROVE ViewsCurrent'
  BY <1>19 DEF DeleteSome
<1>20. ASSUME NEW p \in Procs, DeleteData(p) PROVE ViewsCurrent'
  BY <1>20 DEF DeleteData, Advance, Exit
<1>21. ASSUME NEW p \in Procs, DeleteMeta(p) PROVE ViewsCurrent'
  BY <1>21 DEF DeleteMeta, Advance, Exit
<1>22. ASSUME NEW p \in Procs, DeleteFails(p) PROVE ViewsCurrent'
  BY <1>22 DEF DeleteFails, Advance, Exit, DataAfter, SidecarAfter
<1>23. ASSUME NEW p \in Procs, ReadFails(p) PROVE ViewsCurrent'
  BY <1>23 DEF ReadFails, Exit
<1>24. ASSUME NEW p \in Procs, Crash(p) PROVE ViewsCurrent'
  BY <1>24 DEF Crash
<1>25. ASSUME NEW p \in Procs, ServerCompletes(p) PROVE ViewsCurrent'
  BY <1>25 DEF ServerCompletes
<1>26. ASSUME NEW p \in Procs, ServerFails(p) PROVE ViewsCurrent'
  BY <1>26 DEF ServerFails
<1>27. CASE ServerRestarts
  BY <1>27 DEF ServerRestarts
<1>28. CASE Tick
  BY <1>28 DEF Tick
<1>29. QED
  BY <1>1, <1>2, <1>3, <1>4, <1>5, <1>6, <1>7, <1>8, <1>9, <1>10, <1>11, <1>12, <1>13, <1>14,
       <1>15, <1>16, <1>17, <1>18, <1>19, <1>20, <1>21, <1>22, <1>23, <1>24, <1>25, <1>26, <1>27,
       <1>28 DEF Next

(***************************************************************************)
(* Whole chains.                                                           *)
(***************************************************************************)
(* Discovery shows the base of every backup it shows, and of the one that  *)
(* is being taken.                                                         *)
BasesVisible ==
    \A b \in sidecar \cup Writing :
        meta[b].kind = "incremental" => meta[b].base \in sidecar

(* A chain that is being deleted is in the plan with all that is visible   *)
(* of it.                                                                  *)
PlanWhole ==
    \A p \in Procs : job[p] = "cleanup" =>
        \A u \in todo[p], b \in sidecar :
            meta[b].kind = "incremental" /\ ReportedRoot(b) = u.last => b \in u.before

PickedExpired == \A p \in Procs : \A b \in picked[p] : Expired(ReportedRoot(b))

(* A run extends the newest chain, and is newer than all that was          *)
(* reported; hence an incremental belongs to the newest chain of its time. *)
RunNewest ==
    \A p \in Writing :
        /\ \A b \in Succeeded : meta[b].ts < meta[p].ts
        /\ meta[p].kind = "incremental" =>
              \A g \in Fulls(meta, Succeeded) : meta[g].ts <= meta[ReportedRoot(meta[p].base)].ts

RootsNewest ==
    \A b \in Incrementals(meta, Succeeded), f \in Fulls(meta, Succeeded) :
        meta[f].ts < meta[b].ts => meta[f].ts <= meta[ReportedRoot(b)].ts

SeqInv ==
    /\ ChainInv /\ Alone /\ ViewsCurrent
    /\ BasesVisible /\ PlanWhole /\ PickedExpired /\ RunNewest /\ RootsNewest

LEMMA SeqInit == Init => SeqInv
<1> SUFFICES ASSUME Init PROVE SeqInv
  OBVIOUS
<1>1. Succeeded = {} /\ Active = {} /\ Writing = {}
  BY DEF Init, Succeeded, Active, Writing, NoMeta, Running, Reading, Deleting
<1>2. QED
  BY <1>1, ChainInit DEF Init, SeqInv, Alone, ViewsCurrent, BasesVisible, PlanWhole, PickedExpired,
     RunNewest, RootsNewest, Incrementals

(* Every visible backup is in a chain of the visible backups, the one it   *)
(* was reported in.                                                        *)
LEMMA VisibleChains ==
    ASSUME ChainInv, BasesVisible
    PROVE  /\ sidecar \subseteq DOMAIN GroupChains(meta, sidecar)
           /\ \A b \in sidecar : /\ GroupChains(meta, sidecar)[b] = ReportedRoot(b)
                                 /\ ReportedRoot(b) \in Fulls(meta, sidecar)
<1>1. OrderInv /\ sidecar \subseteq Succeeded /\ BasesReported
  BY DEF ChainInv, RetainInv, ShownSucceeded
<1>2. Timed(meta, sidecar) /\ OlderBases(meta, sidecar)
  BY <1>1, ReportedTimed
<1>3. \A b \in sidecar : \/ meta[b].kind = "full"
                         \/ meta[b].kind = "incremental" /\ meta[b].base \in sidecar
  BY <1>1, ReportedKind DEF BasesVisible
<1>4. sidecar \subseteq DOMAIN GroupChains(meta, sidecar)
  BY <1>2, <1>3, ClosedInChains
<1>5. \A b \in sidecar : GroupChains(meta, sidecar)[b] = ReportedRoot(b)
  BY <1>1, <1>4, ViewRoots
<1>6. ResolvesIn(meta, sidecar, Incrementals(meta, sidecar), GroupChains(meta, sidecar))
  BY <1>2, ChainsResolved
<1>7. \A b \in sidecar : GroupChains(meta, sidecar)[b] \in Fulls(meta, sidecar)
  BY <1>4, <1>6 DEF ResolvesIn
<1>8. QED
  BY <1>4, <1>5, <1>7

(* The newest full backup discovery shows is the newest reported one: that *)
(* one is retained.                                                        *)
LEMMA NewestListed ==
    ASSUME ChainInv, NEW f, IsNewestFull(meta, sidecar, f), NEW g \in Fulls(meta, Succeeded)
    PROVE  meta[g].ts <= meta[f].ts
<1>1. /\ OrderInv /\ TypeOK /\ sidecar \subseteq Succeeded /\ KeptOrExpired
      /\ Succeeded \subseteq Procs
  BY DEF ChainInv, RetainInv, ShownSucceeded, OrderInv, Succeeded
<1> DEFINE S == Fulls(meta, Succeeded)
<1>2. Timed(meta, S) /\ S \subseteq Succeeded
  BY <1>1, ReportedTimed DEF Fulls
<1>3. PICK n \in S : Newer(meta, S, n) = {}
  BY <1>2, HasNewest
<1>4. Cardinality(Newer(meta, S, n)) = 0
  BY <1>3, FS_EmptySet
<1>5. n \in sidecar
  BY <1>1, <1>4, KeepAssumption DEF KeptOrExpired, Expired
<1>6. n \in Fulls(meta, sidecar) /\ \A x \in S : meta[x].ts \in Nat
  BY <1>2, <1>5 DEF Fulls, Timed
<1>7. f \in S /\ ~(meta[n].ts > meta[f].ts)
  BY <1>1, <1>6 DEF IsNewestFull, Newer, Fulls
<1>8. ~(meta[g].ts > meta[n].ts)
  BY <1>3 DEF Newer
<1>9. QED
  BY <1>6, <1>7, <1>8

LEMMA NewestNotExpired ==
    ASSUME ChainInv, NEW r \in Fulls(meta, Succeeded),
           \A g \in Fulls(meta, Succeeded) : meta[g].ts <= meta[r].ts
    PROVE  ~Expired(r)
<1>1. \A g \in Fulls(meta, Succeeded) : meta[g].ts \in Nat
  BY DEF ChainInv, RetainInv, OrderInv, TypeOK, Fulls, Succeeded
<1>2. Newer(meta, Fulls(meta, Succeeded), r) = {}
  BY <1>1 DEF Newer
<1>3. Cardinality(Newer(meta, Fulls(meta, Succeeded), r)) = 0
  BY <1>2, FS_EmptySet
<1>4. QED
  BY <1>3, KeepAssumption DEF Expired

(* A deletion of a visible backup is a cleanup's, in a unit of its chain,  *)
(* and no visible backup is based on it.                                   *)
LEMMA VictimLast ==
    ASSUME SeqInv, NEW p \in Procs, pc[p] \in Deleting, NEW u \in todo[p],
           NEW v \in sidecar, Victim(p, u, v)
    PROVE  /\ v \in picked[p] /\ job[p] = "cleanup" /\ ReportedRoot(v) = u.last
           /\ \A b \in sidecar : meta[b].kind = "incremental" => meta[b].base # v
<1>1. /\ ChainInv /\ OrderInv /\ TypeOK /\ BasesReported /\ v \in Succeeded /\ sidecar \subseteq Succeeded
      /\ PlansAreSafe /\ BasesAreOlder /\ NoPath \notin Procs /\ v \in Procs
  BY ProcsAssumption DEF SeqInv, ChainInv, RetainInv, ShownSucceeded, OrderInv, Succeeded
<1>2. v \in picked[p]
  BY <1>1, VictimExpired
<1>3. job[p] = "cleanup"
  <2>1. job[p] = "backup" => v = p
    BY <1>1, VictimSafe
  <2>2. QED
    BY <1>1, <2>1 DEF Succeeded, Deleting, TypeOK
<1>4. ChainUnit(u)
  BY <1>1, <1>3 DEF ChainInv, PlanRoots
<1>5. ReportedRoot(v) = u.last
  <2>1. CASE v = u.last
    BY <1>1, <1>4, <2>1, RootsResolve DEF ChainUnit, Fulls
  <2>2. CASE v # u.last
    BY <1>4, <2>2 DEF Victim, ChainUnit
  <2>3. QED
    BY <2>1, <2>2
<1>6. ASSUME NEW b \in sidecar, meta[b].kind = "incremental", meta[b].base = v PROVE FALSE
  <2>1. ReportedRoot(b) = u.last
    BY <1>1, <1>5, <1>6, RootsResolve
  <2>2. b \in u.before
    BY <1>3, <1>6, <2>1 DEF SeqInv, PlanWhole
  <2>3. v \in u.before /\ Newer(meta, u.before, v) = {}
    BY <2>2 DEF Victim
  <2>4. meta[v].ts < meta[b].ts /\ meta[v].ts \in Nat /\ meta[b].ts \in Nat
    BY <1>1, <1>6 DEF BasesAreOlder, TypeOK, Succeeded
  <2>5. QED
    BY <2>2, <2>3, <2>4 DEF Newer
<1>7. QED
  BY <1>2, <1>3, <1>5, <1>6

(***************************************************************************)
(* What a step changes: metadata and chains stay; a backup is reported     *)
(* when its sidecar is written, nothing is deleted then, and it joins the  *)
(* chain of its base.                                                      *)
(***************************************************************************)
ChainsStay ==
    \A b \in Succeeded : /\ b \in Succeeded' /\ meta'[b] = meta[b]
                         /\ ReportedRoot(b)' = ReportedRoot(b)
Reports(b) ==
    /\ pc[b] = "write" /\ b \notin Succeeded /\ b \in sidecar' /\ meta'[b] = meta[b]
    /\ sidecar \subseteq sidecar'
NewlyReported ==
    \A b \in Procs :
        \/ b \in sidecar' /\ b \notin sidecar
        \/ b \in Succeeded' /\ b \notin Succeeded
        => Reports(b)
NewlyChained ==
    \A b \in Procs : b \in Succeeded' /\ b \notin Succeeded =>
        \/ meta[b].kind = "full" /\ ReportedRoot(b)' = b
        \/ /\ meta[b].kind = "incremental" /\ meta[b].base \in Succeeded
           /\ ReportedRoot(b)' = ReportedRoot(meta[b].base)

LEMMA SeqEffects ==
    ASSUME Sequential, SeqInv, [Next]_vars
    PROVE  /\ ChainInv' /\ Alone' /\ ViewsCurrent'
           /\ DecidesFirst /\ SelectsFirst /\ EndsLast /\ clock' >= clock
           /\ ChainsStay /\ NewlyReported /\ NewlyChained
<1>1. /\ ChainInv /\ ChainInv' /\ OrderInv /\ OrderInv' /\ Grows /\ SettleInv
      /\ Alone /\ ViewsCurrent /\ TypeOK
  <2>1. ChainInv /\ ChainInv'
    BY ChainStep DEF SeqInv, Sequential
  <2>2. QED
    BY <2>1, OrderStep DEF SeqInv, ChainInv, RetainInv, CleanupInv, OrderInv
<1>2. /\ late = {} /\ sidecar \subseteq Succeeded /\ sidecar' \subseteq Succeeded'
      /\ Succeeded \subseteq Prepared /\ BasesReported /\ BasesReported' /\ Stages
      /\ \A b \in Succeeded : pc[b] \notin {"submit", "poll", "write"}
  BY <1>1, SucceededPrepared DEF ChainInv, RetainInv, ShownSucceeded, OrderInv, Stages, Succeeded
<1>3. Alone' /\ ViewsCurrent' /\ DecidesFirst /\ SelectsFirst /\ EndsLast /\ clock' >= clock
  BY <1>1, <1>2, AloneStep, ViewsStep
<1>4. SidecarsWritten /\ SidecarsDeleted /\ ReportedAreWritten
  BY <1>1, BucketEffects
<1>5. ChainsStay
  BY <1>1, <1>2, RootsStay DEF Grows, ChainsStay
<1>6. NewlyReported
  <2> SUFFICES ASSUME NEW b \in Procs,
                      (b \in sidecar' /\ b \notin sidecar) \/ (b \in Succeeded' /\ b \notin Succeeded)
               PROVE  Reports(b)
    BY DEF NewlyReported
  <2>1. pc[b] = "write" /\ b \in sidecar'
    BY <1>2, <1>4 DEF SidecarsWritten, ReportedAreWritten
  <2>2. b \notin Succeeded /\ meta'[b] = meta[b]
    BY <1>1, <1>2, <2>1 DEF Grows, Stages
  <2>3. ASSUME NEW c \in sidecar, c \notin sidecar' PROVE FALSE
    <3>1. PICK p \in Procs : pc[p] = "del_meta"
      BY <1>4, <2>3 DEF SidecarsDeleted
    <3>2. p = b
      BY <1>1, <2>1, <3>1 DEF Alone, Active, Running, Deleting
    <3>3. QED
      BY <2>1, <3>1, <3>2
  <2>4. QED
    BY <2>1, <2>2, <2>3 DEF Reports
<1>7. NewlyChained
  <2> SUFFICES ASSUME NEW b \in Procs, b \in Succeeded', b \notin Succeeded
               PROVE  \/ meta[b].kind = "full" /\ ReportedRoot(b)' = b
                      \/ /\ meta[b].kind = "incremental" /\ meta[b].base \in Succeeded
                         /\ ReportedRoot(b)' = ReportedRoot(meta[b].base)
    BY DEF NewlyChained
  <2>1. pc[b] = "write" /\ meta'[b] = meta[b]
    BY <1>6 DEF NewlyReported, Reports
  <2>2. Timed(meta', Succeeded') /\ OlderBases(meta', Succeeded')
    <3>1. Succeeded' \subseteq Procs /\ IsFiniteSet(Succeeded')
      BY ProcsAssumption, FS_Subset DEF Succeeded
    <3>2. QED
      BY <1>1, <3>1, ProcsAssumption DEF OrderInv, TypeOK, BasesAreOlder, Timed, OlderBases,
           Incrementals
  <2>3. \A c \in Succeeded' : meta'[c].kind = "full" \/ (meta'[c].kind = "incremental" /\ meta'[c].base \in Succeeded')
    BY <1>1, <1>2 DEF OrderInv, TypeOK, BasesReported, Succeeded, Prepared
  <2>4. Succeeded' \subseteq DOMAIN GroupChains(meta', Succeeded')
    BY <2>2, <2>3, ClosedInChains
  <2>5. ResolvesIn(meta', Succeeded', Incrementals(meta', Succeeded'), GroupChains(meta', Succeeded'))
    BY <2>2, ChainsResolved
  <2>6. CASE meta[b].kind = "full"
    BY <2>1, <2>5, <2>6 DEF ResolvesIn, Fulls, ReportedRoot
  <2>7. CASE meta[b].kind = "incremental"
    <3>1. PICK base : base = meta[b].base /\ base \in Succeeded
      BY <1>1, <1>2, <2>1, <2>7 DEF BasesReported, Stages
    <3>2. GroupChains(meta', Succeeded')[b] = GroupChains(meta', Succeeded')[base]
      BY <2>1, <2>4, <2>5, <2>7, <3>1 DEF ResolvesIn, Incrementals
    <3>3. ReportedRoot(b)' = ReportedRoot(base)
      BY <1>5, <3>1, <3>2 DEF ChainsStay, ReportedRoot
    <3>4. QED
      BY <2>7, <3>1, <3>3
  <2>8. QED
    BY <2>1, <2>3, <2>6, <2>7
<1>8. QED
  BY <1>1, <1>3, <1>5, <1>6, <1>7

(* The chains discovery shows are those the backups were reported in.      *)
LEMMA VisibleChain ==
    ASSUME ChainInv, BasesVisible, NEW f \in Fulls(meta, sidecar)
    PROVE  /\ ChainIncrementals(meta, sidecar, f)
                 = {b \in Incrementals(meta, sidecar) : ReportedRoot(b) = f}
           /\ Chain(meta, sidecar, f) = {b \in sidecar : ReportedRoot(b) = f}
<1>1. /\ OrderInv /\ BasesReported /\ sidecar \subseteq Succeeded /\ f \in sidecar
      /\ meta[f].kind = "full"
  BY DEF ChainInv, RetainInv, ShownSucceeded, Fulls
<1>2. /\ sidecar \subseteq DOMAIN GroupChains(meta, sidecar)
      /\ \A b \in sidecar : GroupChains(meta, sidecar)[b] = ReportedRoot(b)
  BY VisibleChains
<1>3. ChainIncrementals(meta, sidecar, f)
         = {b \in Incrementals(meta, sidecar) : ReportedRoot(b) = f}
  BY <1>2 DEF ChainIncrementals, Incrementals
<1>4. \A b \in sidecar : /\ meta[b].kind = "full" \/ b \in Incrementals(meta, sidecar)
                         /\ meta[b].kind = "full" => ReportedRoot(b) = b
  BY <1>1, ReportedKind, RootsResolve DEF Incrementals
<1>5. QED
  BY <1>1, <1>3, <1>4 DEF Chain, Incrementals

(* What Select plans and picks are whole visible chains.                   *)
Selectable == SelectForDeletion(meta, sidecar, Keep, KeepDays, clock)

LEMMA SelectsChains ==
    ASSUME SeqInv, NEW p \in Procs, Select(p)
    PROVE  /\ Selectable \subseteq Fulls(meta, sidecar)
           /\ picked'[p] = {b \in sidecar : ReportedRoot(b) \in Selectable}
           /\ \A w \in todo'[p] : w.before = {b \in Incrementals(meta, sidecar) :
                                                  ReportedRoot(b) = w.last}
           /\ UNCHANGED <<meta, sidecar, data, clock>>
<1>1. ChainInv /\ TypeOK /\ BasesVisible /\ view[p] = sidecar
  BY DEF SeqInv, ChainInv, RetainInv, OrderInv, ViewsCurrent, Select
<1>2. Selectable \subseteq Fulls(meta, sidecar)
  BY DEF Selectable, SelectForDeletion
<1>3. /\ todo' = [todo EXCEPT ![p] = Units(sidecar, Selectable)]
      /\ picked' = [picked EXCEPT ![p] = UNION {Chain(meta, sidecar, f) : f \in Selectable}]
      /\ UNCHANGED <<meta, sidecar, data, clock>>
  BY <1>1 DEF Select, Selectable, bucket
<1>4. \A f \in Selectable :
         /\ ChainIncrementals(meta, sidecar, f)
               = {b \in Incrementals(meta, sidecar) : ReportedRoot(b) = f}
         /\ Chain(meta, sidecar, f) = {b \in sidecar : ReportedRoot(b) = f}
  BY <1>1, <1>2, VisibleChain
<1> HIDE DEF Selectable
<1>5. picked'[p] = UNION {Chain(meta, sidecar, f) : f \in Selectable}
  BY <1>1, <1>3 DEF TypeOK
<1>6. picked'[p] = {b \in sidecar : ReportedRoot(b) \in Selectable}
  <2>1. ASSUME NEW b \in picked'[p] PROVE b \in sidecar /\ ReportedRoot(b) \in Selectable
    BY <1>4, <1>5
  <2>2. ASSUME NEW b \in sidecar, ReportedRoot(b) \in Selectable PROVE b \in picked'[p]
    BY <1>4, <1>5, <2>2
  <2>3. QED
    BY <2>1, <2>2
<1>7. ASSUME NEW w \in todo'[p]
      PROVE  w.before = {b \in Incrementals(meta, sidecar) : ReportedRoot(b) = w.last}
  <2>1. w \in Units(sidecar, Selectable)
    BY <1>1, <1>3 DEF TypeOK
  <2>2. PICK f \in Selectable : w = [before |-> ChainIncrementals(meta, sidecar, f), last |-> f]
    BY <2>1 DEF Units
  <2>3. w.before = ChainIncrementals(meta, sidecar, f) /\ w.last = f
    BY <2>2
  <2>4. QED
    BY <1>4, <2>3
<1>8. QED
  BY <1>2, <1>3, <1>6, <1>7

LEMMA BasesVisibleStep ==
    ASSUME Sequential, SeqInv, [Next]_vars
    PROVE  BasesVisible'
<1>1. /\ DecidesFirst /\ NewlyReported /\ ChainsStay /\ TypeOK /\ SettleInv /\ Grows /\ Stages
      /\ sidecar \subseteq Succeeded /\ CleanupInv /\ Alone /\ ViewsCurrent /\ BasesVisible
      /\ Succeeded \subseteq Prepared /\ Writing \subseteq Prepared
  BY SeqEffects, OrderStep, SucceededPrepared DEF SeqInv, ChainInv, RetainInv, CleanupInv,
     SettleInv, OrderInv, ShownSucceeded, Stages, Writing
<1>2. SidecarsDeleted /\ \A q \in Procs : NewBase(q)
  BY <1>1, BucketEffects, PlanEffects
<1> SUFFICES ASSUME NEW b \in sidecar' \cup Writing', meta'[b].kind = "incremental"
             PROVE  meta'[b].base \in sidecar'
  BY DEF BasesVisible
<1>3. b \in Procs
  BY <1>1, SeqEffects DEF Writing, ChainInv, RetainInv, OrderInv, TypeOK
<1>4. CASE b \in sidecar \cup Writing
  <2>1. meta'[b] = meta[b] /\ meta[b].base \in sidecar
    BY <1>1, <1>4 DEF Grows, BasesVisible
  <2>2. ASSUME meta[b].base \notin sidecar' PROVE FALSE
    <3>1. PICK p \in Procs : pc[p] = "del_meta" /\ \E u \in todo[p] : Victim(p, u, meta[b].base)
      BY <1>2, <2>1, <2>2 DEF SidecarsDeleted
    <3>2. b \in sidecar
      BY <1>1, <1>4, <3>1 DEF Alone, Active, Writing, Running, Deleting
    <3>3. QED
      BY <2>1, <3>1, <3>2, VictimLast DEF Deleting
  <2>3. QED
    BY <2>1, <2>2
<1>5. CASE b \notin sidecar \cup Writing
  <2>1. Decide(b)
    BY <1>1, <1>3, <1>5 DEF DecidesFirst, NewlyReported, Reports, Writing
  <2>2. pc[b] = "decide" /\ sidecar' = sidecar /\ pc' = [pc EXCEPT ![b] = "submit"]
    BY <2>1 DEF Decide, bucket, GoTo
  <2>3. b \notin Prepared /\ b \in Prepared'
    BY <1>1, <1>3, <2>2, SeqEffects DEF Stages, Prepared, TypeOK, ChainInv, RetainInv, OrderInv
  <2>4. meta'[b].base \in view[b]
    BY <1>2, <1>3, <2>3 DEF NewBase
  <2>5. QED
    BY <1>1, <1>3, <2>2, <2>4 DEF ViewsCurrent
<1>6. QED
  BY <1>4, <1>5

LEMMA PlanWholeStep ==
    ASSUME Sequential, SeqInv, [Next]_vars
    PROVE  PlanWhole'
<1>1. /\ NewlyReported /\ ChainsStay /\ TypeOK /\ SettleInv /\ PlansAreOwn
      /\ sidecar \subseteq Succeeded /\ CleanupInv /\ Alone /\ PlanWhole /\ TypeOK'
  BY SeqEffects DEF SeqInv, ChainInv, RetainInv, CleanupInv, SettleInv, OrderInv, ShownSucceeded
<1>2. \A q \in Procs : job'[q] = "cleanup" => PlanMoves(q)
  BY <1>1, PlanEffects
<1> SUFFICES ASSUME NEW p \in Procs, job'[p] = "cleanup", NEW w \in todo'[p],
                    NEW b \in sidecar', meta'[b].kind = "incremental", ReportedRoot(b)' = w.last
             PROVE  b \in w.before
  BY DEF PlanWhole
<1>3. ASSUME pc[p] \in Deleting \cup {"select"}
      PROVE  b \in sidecar /\ meta[b].kind = "incremental" /\ ReportedRoot(b) = w.last
  <2>1. b \in Procs
    BY <1>1 DEF TypeOK
  <2>2. b \in sidecar
    BY <1>1, <1>3, <2>1 DEF NewlyReported, Reports, Alone, Active, Running, Deleting
  <2>3. QED
    BY <1>1, <2>2 DEF ChainsStay
<1>4. CASE KeepsPlan(p)
  <2>1. w \in todo[p] /\ job[p] = "cleanup" /\ pc[p] \in Deleting
    BY <1>1, <1>4 DEF KeepsPlan, PlansAreOwn
  <2>2. QED
    BY <1>1, <1>3, <2>1 DEF PlanWhole
<1>5. CASE Select(p)
  <2>1. pc[p] = "select"
    BY <1>5 DEF Select
  <2>2. QED
    BY <1>3, <1>5, <2>1, SelectsChains DEF Incrementals
<1>6. ASSUME NEW u \in todo[p], NEW v \in Procs, NEW complete \in BOOLEAN,
             Deletes(p, u, v, complete)
      PROVE  b \in w.before
  <2> DEFINE rest == [before |-> u.before \ {v}, last |-> u.last]
  <2>1. pc[p] \in Deleting /\ job[p] = "cleanup" /\ v \notin sidecar'
    BY <1>6 DEF Deletes, Sequential
  <2>2. \A x \in todo'[p] : x \in todo[p] \ {u} \/ x = rest
    BY <1>1, <1>6, AdvanceLeaves DEF Deletes
  <2>3. rest.before = u.before \ {v} /\ rest.last = u.last
    OBVIOUS
  <2> HIDE DEF rest
  <2>4. \A x \in todo[p] : x.last = w.last => b \in x.before
    BY <1>1, <1>3, <2>1 DEF PlanWhole
  <2>5. CASE w = rest
    BY <2>1, <2>3, <2>4, <2>5
  <2>6. CASE w \in todo[p]
    BY <2>4, <2>6
  <2>7. QED
    BY <2>2, <2>5, <2>6
<1>7. QED
  BY <1>2, <1>4, <1>5, <1>6 DEF PlanMoves

LEMMA PickedExpiredStep ==
    ASSUME Sequential, SeqInv, [Next]_vars
    PROVE  PickedExpired'
<1>1. /\ SelectsFirst /\ ChainsStay /\ TypeOK /\ TypeOK' /\ Grows /\ PickedExpired
      /\ sidecar \subseteq Succeeded
      /\ \A p \in Procs : picked[p] \subseteq Succeeded
  BY SeqEffects, OrderStep DEF SeqInv, ChainInv, RetainInv, OrderInv, ShownSucceeded, PickedReported
<1> SUFFICES ASSUME NEW p \in Procs, NEW b \in picked'[p] PROVE Expired(ReportedRoot(b))'
  BY DEF PickedExpired
<1>2. b \in Succeeded /\ Expired(ReportedRoot(b))
  <2>1. CASE picked'[p] = picked[p]
    BY <1>1, <2>1 DEF PickedExpired
  <2>2. CASE Select(p)
    <3>1. b \in sidecar /\ ReportedRoot(b) \in Selectable
      BY <2>2, SelectsChains
    <3>2. Expired(ReportedRoot(b))
      BY <1>1, <3>1, SelectedExpired DEF Selectable
    <3>3. QED
      BY <1>1, <3>1, <3>2
  <2>3. QED
    BY <1>1, <2>1, <2>2 DEF SelectsFirst
<1>3. PICK r : r = ReportedRoot(b) /\ r = ReportedRoot(b)'
  BY <1>1, <1>2 DEF ChainsStay
<1>4. Expired(r)'
  BY <1>1, <1>2, <1>3, ExpiredStays
<1>5. QED
  BY <1>3, <1>4 DEF Expired

(* What Decide chooses as the base is in the newest chain reported.        *)
LEMMA BaseInNewest ==
    ASSUME SeqInv, NEW p \in Procs, Decide(p), meta'[p].kind = "incremental"
    PROVE  /\ meta'[p].base \in sidecar
           /\ \A g \in Fulls(meta, Succeeded) : meta[g].ts <= meta[ReportedRoot(meta'[p].base)].ts
<1>1. ChainInv /\ BasesVisible /\ TypeOK /\ view[p] = sidecar
  BY DEF SeqInv, ChainInv, RetainInv, OrderInv, ViewsCurrent, Decide
<1>2. PICK kind, base :
         /\ kind = "incremental" => ChooseBase(sidecar, base)
         /\ meta' = [meta EXCEPT ![p] = [kind |-> kind, ts |-> Now, base |-> base]]
  BY <1>1 DEF Decide
<1>3. meta'[p].kind = kind /\ meta'[p].base = base
  BY <1>1, <1>2 DEF TypeOK
<1>4. PICK f \in sidecar : IsNewestFull(meta, sidecar, f) /\ IsLatest(meta, sidecar, f, base)
  BY <1>2, <1>3 DEF ChooseBase
<1>5. f \in Fulls(meta, sidecar)
  BY <1>4 DEF IsNewestFull
<1>6. base \in Chain(meta, sidecar, f)
  BY <1>4 DEF IsLatest, Chain
<1>7. base \in sidecar /\ ReportedRoot(base) = f
  BY <1>1, <1>5, <1>6, VisibleChain
<1>8. QED
  BY <1>1, <1>3, <1>4, <1>7, NewestListed

LEMMA RunNewestStep ==
    ASSUME Sequential, SeqInv, [Next]_vars
    PROVE  RunNewest'
<1>1. /\ DecidesFirst /\ NewlyReported /\ ChainsStay /\ TypeOK /\ TypeOK' /\ Alone /\ Stages'
      /\ BasesAreOlder /\ RunNewest /\ Grows /\ sidecar \subseteq Succeeded /\ BasesReported
      /\ Writing \subseteq Prepared /\ Succeeded \subseteq Procs
  BY SeqEffects, OrderStep DEF SeqInv, ChainInv, RetainInv, OrderInv, ShownSucceeded, Stages,
     Writing, Succeeded
<1>2. ASSUME NEW p \in Procs, p \in Writing' PROVE Succeeded' = Succeeded
  <2>1. pc[p] \in {"submit", "poll", "write", "decide"}
    BY <1>1, <1>2 DEF Writing, DecidesFirst, Decide
  <2>2. p \notin Succeeded'
    BY <1>1, <1>2 DEF Writing, Stages, Succeeded
  <2>3. ASSUME NEW b \in Succeeded', b \notin Succeeded PROVE FALSE
    <3>1. b \in Procs /\ pc[b] = "write"
      BY <1>1, <2>3 DEF NewlyReported, Reports, Succeeded
    <3>2. b = p
      BY <1>1, <2>1, <3>1 DEF Alone, Active, Running, Reading
    <3>3. QED
      BY <2>2, <2>3, <3>2
  <2>4. QED
    BY <1>1, <2>3 DEF Grows
<1> SUFFICES ASSUME NEW p \in Procs, p \in Writing'
             PROVE  /\ \A b \in Succeeded' : meta'[b].ts < meta'[p].ts
                    /\ meta'[p].kind = "incremental" =>
                          \A g \in Fulls(meta', Succeeded') :
                              meta'[g].ts <= meta'[ReportedRoot(meta[p].base)'].ts
  BY DEF RunNewest, Writing
<1>3. Succeeded' = Succeeded /\ \A b \in Succeeded : meta'[b] = meta[b]
  BY <1>1, <1>2 DEF ChainsStay
<1>4. Fulls(meta', Succeeded') = Fulls(meta, Succeeded) /\ Fulls(meta, Succeeded) \subseteq Succeeded
  BY <1>3 DEF Fulls
<1>5. \A b \in Succeeded : ReportedRoot(b) \in Succeeded
  BY RootsResolve DEF SeqInv, ChainInv, RetainInv, Fulls
<1>6. CASE p \in Writing
  <2>1. meta'[p] = meta[p] /\ \A b \in Succeeded : meta[b].ts < meta[p].ts
    BY <1>1, <1>6 DEF Grows, RunNewest
  <2>2. ASSUME meta[p].kind = "incremental", NEW g \in Fulls(meta, Succeeded)
        PROVE  meta'[g].ts <= meta'[ReportedRoot(meta[p].base)'].ts
    <3>1. PICK base : base = meta[p].base /\ base = meta'[p].base /\ base \in Succeeded
      BY <1>1, <1>6, <2>1, <2>2 DEF BasesReported
    <3>2. PICK r : r = ReportedRoot(base) /\ r = ReportedRoot(base)' /\ r \in Succeeded
      BY <1>1, <1>5, <3>1 DEF ChainsStay
    <3>3. meta[g].ts <= meta[r].ts
      BY <1>1, <1>6, <2>2, <3>1, <3>2 DEF RunNewest
    <3>4. ReportedRoot(meta[p].base)' = r
      BY <3>1, <3>2 DEF ReportedRoot
    <3>5. QED
      BY <1>3, <1>4, <3>2, <3>3, <3>4
  <2>3. QED
    BY <1>3, <1>4, <2>1, <2>2
<1>7. CASE p \notin Writing
  <2>1. Decide(p)
    BY <1>1, <1>7 DEF DecidesFirst, Writing
  <2>2. meta'[p].ts = clock
    <3>1. PICK kind, base : meta' = [meta EXCEPT ![p] = [kind |-> kind, ts |-> Now, base |-> base]]
      BY <2>1 DEF Decide
    <3>2. QED
      BY <1>1, <3>1 DEF TypeOK, Now
  <2>3. \A b \in Succeeded' : meta'[b].ts < meta'[p].ts
    BY <1>1, <1>3, <2>2 DEF BasesAreOlder
  <2>4. ASSUME meta'[p].kind = "incremental", NEW g \in Fulls(meta, Succeeded)
        PROVE  meta'[g].ts <= meta'[ReportedRoot(meta[p].base)'].ts
    <3>1. PICK base : base = meta'[p].base /\ base \in Succeeded
                      /\ meta[g].ts <= meta[ReportedRoot(base)].ts
      BY <1>1, <2>1, <2>4, BaseInNewest
    <3>2. PICK r : r = ReportedRoot(base) /\ r = ReportedRoot(base)' /\ r \in Succeeded
      BY <1>1, <1>5, <3>1 DEF ChainsStay
    <3>3. ReportedRoot(meta[p].base)' = r
      BY <3>1, <3>2 DEF ReportedRoot
    <3>4. QED
      BY <1>3, <1>4, <3>1, <3>2, <3>3
  <2>5. QED
    BY <1>4, <2>3, <2>4
<1>8. QED
  BY <1>6, <1>7

LEMMA RootsNewestStep ==
    ASSUME Sequential, SeqInv, [Next]_vars
    PROVE  RootsNewest'
<1>1. /\ NewlyReported /\ NewlyChained /\ ChainsStay /\ TypeOK /\ Alone
      /\ RunNewest /\ RootsNewest
      /\ Succeeded \subseteq Procs /\ Succeeded' \subseteq Procs
  BY SeqEffects DEF SeqInv, ChainInv, RetainInv, OrderInv, Succeeded
<1>2. \A b \in Succeeded : ReportedRoot(b) \in Succeeded
  BY RootsResolve DEF SeqInv, ChainInv, RetainInv, Fulls
<1>3. ASSUME NEW b \in Succeeded', b \notin Succeeded
      PROVE  /\ b \in Writing /\ meta'[b] = meta[b]
             /\ \A c \in Succeeded' : c \in Succeeded \/ c = b
  BY <1>1, <1>3 DEF NewlyReported, Reports, Alone, Active, Writing, Running
<1> SUFFICES ASSUME NEW b \in Incrementals(meta', Succeeded'), NEW f \in Fulls(meta', Succeeded'),
                    meta'[f].ts < meta'[b].ts
             PROVE  meta'[f].ts <= meta'[ReportedRoot(b)'].ts
  BY DEF RootsNewest
<1>4. /\ b \in Succeeded' /\ meta'[b].kind = "incremental" /\ f \in Succeeded'
      /\ meta'[f].kind = "full" /\ b # f
  BY DEF Incrementals, Fulls
<1>5. CASE b \in Succeeded /\ f \in Succeeded
  <2>1. meta'[b] = meta[b] /\ meta'[f] = meta[f] /\ ReportedRoot(b)' = ReportedRoot(b)
        /\ meta'[ReportedRoot(b)] = meta[ReportedRoot(b)]
    BY <1>1, <1>2, <1>5 DEF ChainsStay
  <2>2. meta[f].ts <= meta[ReportedRoot(b)].ts
    BY <1>1, <1>4, <1>5, <2>1 DEF RootsNewest, Incrementals, Fulls
  <2>3. QED
    BY <2>1, <2>2
<1>6. CASE b \notin Succeeded
  <2>1. b \in Writing /\ meta'[b] = meta[b] /\ f \in Succeeded /\ meta'[f] = meta[f]
    BY <1>1, <1>3, <1>4, <1>6 DEF ChainsStay
  <2>2. PICK r : /\ r = ReportedRoot(meta[b].base) /\ r = ReportedRoot(b)'
                 /\ meta[b].base \in Succeeded
    BY <1>1, <1>4, <1>6, <2>1 DEF NewlyChained
  <2>3. r \in Succeeded /\ meta'[r] = meta[r]
    BY <1>1, <1>2, <2>2 DEF ChainsStay
  <2>4. meta[f].ts <= meta[r].ts
    BY <1>1, <1>4, <2>1, <2>2 DEF RunNewest, Fulls
  <2>5. QED
    BY <2>1, <2>2, <2>3, <2>4
<1>7. CASE f \notin Succeeded
  <2>1. f \in Writing /\ meta'[f] = meta[f] /\ b \in Succeeded /\ meta'[b] = meta[b]
    BY <1>1, <1>3, <1>4, <1>7 DEF ChainsStay
  <2>2. meta[b].ts < meta[f].ts /\ meta[b].ts \in Nat /\ meta[f].ts \in Nat
    BY <1>1, <2>1 DEF RunNewest, TypeOK, Writing
  <2>3. QED
    BY <2>1, <2>2
<1>8. QED
  BY <1>5, <1>6, <1>7

LEMMA SeqStep ==
    ASSUME Sequential, SeqInv, [Next]_vars
    PROVE  SeqInv'
  BY SeqEffects, BasesVisibleStep, PlanWholeStep, PickedExpiredStep, RunNewestStep, RootsNewestStep
     DEF SeqInv

LEMMA SeqAlways ==
    ASSUME Sequential
    PROVE  Spec => []SeqInv
<1>1. SeqInv /\ [Next]_vars => SeqInv'
  BY SeqStep
<1>2. QED
  BY SeqInit, <1>1, PTL DEF Spec

(* Every visible backup belongs to a chain, so that retention reaches it,  *)
(* wherever runs and cleanups are killed: a cleanup deletes a chain from   *)
(* its newest end.                                                         *)
THEOREM AllInChains ==
    ASSUME Sequential
    PROVE  Spec => []NoneStranded
<1>1. SeqInv => NoneStranded
  BY VisibleChains DEF SeqInv, NoneStranded
<1>2. QED
  BY SeqAlways, <1>1, PTL

(* The health check, which looks at the latest backup of the newest chain, *)
(* reports the most recent visible backup: a run always extends the newest *)
(* chain there is.                                                         *)
THEOREM NewestReported ==
    ASSUME Sequential
    PROVE  Spec => []NewestIsReported
<1>1. SeqInv => NewestIsReported
  <2> SUFFICES ASSUME SeqInv, NEW b \in sidecar, \A c \in sidecar : meta[c].ts <= meta[b].ts
               PROVE  IsReported(meta, sidecar, b)
    BY DEF NewestIsReported
  <2>1. /\ ChainInv /\ BasesVisible /\ OrderInv /\ RootsNewest /\ BasesReported
        /\ sidecar \subseteq Succeeded /\ DistinctTimes /\ Succeeded \subseteq Prepared
        /\ \A c \in sidecar : meta[c].ts \in Nat
    BY SucceededPrepared DEF SeqInv, ChainInv, RetainInv, ShownSucceeded, OrderInv, TypeOK,
       CleanupInv, SettleInv
  <2> DEFINE f == ReportedRoot(b)
  <2>2. f \in Fulls(meta, sidecar)
    BY <2>1, VisibleChains
  <2>3. f \in sidecar /\ Fulls(meta, sidecar) \subseteq sidecar
    BY <2>2 DEF Fulls
  <2>4. ChainIncrementals(meta, sidecar, f)
           = {c \in Incrementals(meta, sidecar) : ReportedRoot(c) = f}
    BY <2>1, <2>2, VisibleChain
  <2>5. CASE meta[b].kind = "full"
    <3>1. f = b
      BY <2>1, <2>5, RootsResolve
    <3>2. IsNewestFull(meta, sidecar, b)
      BY <2>1, <2>2, <2>3, <3>1 DEF IsNewestFull, Newer
    <3>3. ASSUME NEW c \in Incrementals(meta, sidecar), ReportedRoot(c) = b PROVE FALSE
      <4>1. /\ Timed(meta, sidecar) /\ OlderBases(meta, sidecar) /\ c \in sidecar
            /\ c \in DOMAIN GroupChains(meta, sidecar) /\ GroupChains(meta, sidecar)[c] = b
        BY <2>1, <3>3, ReportedTimed, VisibleChains DEF Incrementals
      <4>2. meta[b].ts < meta[c].ts
        BY <3>3, <4>1, RootOlder
      <4>3. QED
        BY <2>1, <4>1, <4>2
    <3>4. ChainIncrementals(meta, sidecar, b) = {}
      BY <2>4, <3>1, <3>3
    <3>5. QED
      BY <3>2, <3>4 DEF IsReported, IsLatest
  <2>6. CASE meta[b].kind = "incremental"
    <3>1. ASSUME NEW g \in Fulls(meta, sidecar) PROVE meta[g].ts <= meta[f].ts
      <4>1. g # b /\ g \in Prepared /\ b \in Prepared
        BY <2>1, <2>6 DEF Fulls
      <4>2. meta[g].ts < meta[b].ts
        BY <2>1, <2>3, <4>1 DEF DistinctTimes
      <4>3. QED
        BY <2>1, <2>6, <4>2 DEF RootsNewest, Incrementals, Fulls
    <3>2. IsNewestFull(meta, sidecar, f)
      BY <2>1, <2>2, <2>3, <3>1 DEF IsNewestFull, Newer
    <3>3. b \in ChainIncrementals(meta, sidecar, f)
      BY <2>4, <2>6 DEF Incrementals
    <3>4. Newer(meta, ChainIncrementals(meta, sidecar, f), b) = {}
      BY <2>1, <2>4 DEF Newer, Incrementals
    <3>5. QED
      BY <2>3, <3>2, <3>3, <3>4 DEF IsReported, IsLatest
  <2>7. QED
    BY <2>1, <2>5, <2>6, ReportedKind
<1>2. QED
  BY SeqAlways, <1>1, PTL

(* A run only reports success for a backup that can be restored, with all  *)
(* the backups it is based on: nothing deletes the newest chain.           *)
THEOREM SuccessRestorable ==
    ASSUME Sequential
    PROVE  Spec => SuccessIsRestorable
<1> DEFINE Restorable == \A p \in Procs : p \in Succeeded' \ Succeeded => p \in RestorePoints'
<1>1. SeqInv /\ [Next]_vars => Restorable
  <2> SUFFICES ASSUME SeqInv, [Next]_vars, NEW p \in Procs, p \in Succeeded', p \notin Succeeded
               PROVE  p \in RestorePoints'
    OBVIOUS
  <2>1. /\ ChainInv /\ ChainInv' /\ SettleInv /\ NewlyReported /\ ChainsStay /\ Alone /\ RunNewest
        /\ OrderInv /\ OrderInv' /\ TypeOK /\ BasesReported /\ ChainKept /\ WrittenAreComplete
        /\ late = {} /\ sidecar \subseteq Succeeded /\ sidecar' \subseteq Succeeded'
        /\ Succeeded \subseteq Settled /\ Succeeded \subseteq Procs
    BY SeqEffects DEF SeqInv, ChainInv, RetainInv, CleanupInv, SettleInv, OrderInv, ShownSucceeded,
       ShownAreSettled, Succeeded
  <2>2. Reports(p)
    BY <2>1 DEF NewlyReported
  <2>3. /\ pc[p] = "write" /\ p \in Writing /\ p \in sidecar' /\ meta'[p] = meta[p]
        /\ sidecar \subseteq sidecar' /\ p \in Prepared
    BY <2>1, <2>2 DEF Reports, Writing, OrderInv, Stages
  <2>4. DataDamaged /\ SidecarsWritten
    BY <2>1, BucketEffects
  <2>5. data'[p] = "complete"
    BY <2>1, <2>3, <2>4 DEF SidecarsWritten, WrittenAreComplete
  <2>6. \A q \in Procs : pc[q] \notin Deleting
    BY <2>1, <2>3 DEF Alone, Active, Running, Deleting
  <2>7. \A c \in Succeeded : data'[c] = data[c]
    BY <2>1, <2>4, <2>6 DEF DataDamaged
  <2> DEFINE intact == {c \in sidecar' : data'[c] = "complete"}
  <2>8. Timed(meta', intact) /\ OlderBases(meta', intact)
    <3>1. intact \subseteq Procs /\ IsFiniteSet(intact)
      BY <2>1, ProcsAssumption, FS_Subset DEF Succeeded
    <3>2. QED
      BY <2>1, <3>1, ProcsAssumption DEF OrderInv, TypeOK, BasesAreOlder, Timed, OlderBases,
           Incrementals
  <2>9. p \in DOMAIN GroupChains(meta', intact)
    <3>1. CASE meta[p].kind = "full"
      <4>1. {p} \subseteq intact
        BY <2>3, <2>5
      <4> HIDE DEF intact
      <4>2. QED
        BY <2>3, <2>8, <3>1, <4>1, ClosedInChains
    <3>2. CASE meta[p].kind = "incremental"
      <4>1. PICK base : base = meta[p].base /\ base \in Succeeded
        BY <2>1, <2>3, <3>2 DEF BasesReported
      <4> DEFINE r == ReportedRoot(base)
                 chain == {c \in Succeeded : ReportedRoot(c) = r}
      <4>2. r \in Fulls(meta, Succeeded) /\ \A g \in Fulls(meta, Succeeded) : meta[g].ts <= meta[r].ts
        BY <2>1, <2>3, <3>2, <4>1, RootsResolve DEF RunNewest
      <4>3. ~Expired(r)
        BY <2>1, <4>2, NewestNotExpired
      <4>4. \A c \in chain : c \in sidecar /\ data[c] = "complete"
        BY <2>1, <4>3 DEF ChainKept
      <4>5. chain \cup {p} \subseteq intact
        BY <2>3, <2>5, <2>7, <4>4
      <4>6. \A c \in chain : meta[c].kind = "full" \/ (meta[c].kind = "incremental" /\ meta[c].base \in chain)
        BY <2>1, RootsResolve, ReportedKind
      <4>7. \A c \in chain \cup {p} :
               \/ meta'[c].kind = "full"
               \/ meta'[c].kind = "incremental" /\ meta'[c].base \in chain \cup {p}
        <5>1. base \in chain
          BY <4>1
        <5>2. \A c \in chain : meta'[c] = meta[c]
          BY <2>1 DEF ChainsStay
        <5>3. QED
          BY <2>3, <3>2, <4>1, <4>6, <5>1, <5>2
      <4> HIDE DEF intact, chain
      <4>8. QED
        BY <2>8, <4>5, <4>7, ClosedInChains
    <3>3. QED
      BY <2>1, <2>3, <3>1, <3>2 DEF TypeOK, Prepared
  <2>10. QED
    BY <2>9 DEF RestorePoints
<1>2. SeqInv /\ [Next]_vars => SeqInv'
  BY SeqStep
<1>3. Spec => [][Restorable]_vars
  BY SeqInit, <1>1, <1>2, PTL DEF Spec
<1>4. QED
  BY <1>3 DEF SuccessIsRestorable

(***************************************************************************)
(* Cleanups that were interrupted.  What one picked stays to be picked:    *)
(* its chains stay old, stay behind Keep newer visible ones, and get no    *)
(* new backup; so the next cleanup picks them again.                       *)
(***************************************************************************)
PickedOld ==
    \A p \in Procs : \A b \in picked[p], c \in sidecar :
        ReportedRoot(c) = ReportedRoot(b) => clock - meta[c].ts >= KeepDays

PickedWithRoot == \A p \in Procs : \A b \in picked[p] : ReportedRoot(b) \in picked[p]

NewerVisible(f) == Newer(meta, Fulls(meta, sidecar), f)

PickedBehind ==
    \A p \in Procs : \A f \in picked[p] :
        meta[f].kind = "full" /\ f \in sidecar => Cardinality(NewerVisible(f)) >= Keep

PickedAgain ==
    \A p \in Procs : pc[p] \in Deleting /\ job[p] = "cleanup" =>
        \A q \in Procs : \A b \in picked[q] : Gone(b) \/ b \in picked[p]

AgainInv ==
    /\ SeqInv
    /\ PickedOld /\ PickedWithRoot /\ PickedBehind /\ PickedAgain

LEMMA AgainInit == Init => AgainInv
  BY SeqInit DEF Init, AgainInv, PickedOld, PickedWithRoot, PickedBehind, PickedAgain, Deleting

(* A selected chain has no visible backup younger than KeepDays.           *)
LEMMA SelectedOld ==
    ASSUME SeqInv, NEW c \in sidecar, ReportedRoot(c) \in Selectable
    PROVE  clock - meta[c].ts >= KeepDays
<1> DEFINE f == ReportedRoot(c)
<1>1. /\ ChainInv /\ OrderInv /\ BasesVisible /\ BasesReported /\ sidecar \subseteq Succeeded
      /\ clock \in Int /\ KeepDays \in Int /\ \A b \in sidecar : meta[b].ts \in Nat
  BY BoundsAssumption DEF SeqInv, ChainInv, RetainInv, ShownSucceeded, OrderInv, TypeOK
<1>2. /\ f \in Fulls(meta, sidecar)
      /\ \E l \in sidecar : IsLatest(meta, sidecar, f, l) /\ clock - meta[l].ts >= KeepDays
  BY DEF Selectable, SelectForDeletion
<1>3. PICK l \in sidecar : IsLatest(meta, sidecar, f, l) /\ clock - meta[l].ts >= KeepDays
  BY <1>2
<1>4. /\ ChainIncrementals(meta, sidecar, f) = {b \in Incrementals(meta, sidecar) : ReportedRoot(b) = f}
      /\ c \in Chain(meta, sidecar, f)
  BY <1>1, <1>2, VisibleChain
<1> HIDE DEF f
<1>5. meta[c].ts <= meta[l].ts
  <2>1. CASE ChainIncrementals(meta, sidecar, f) = {}
    BY <1>1, <1>3, <1>4, <2>1 DEF IsLatest, Chain
  <2>2. CASE ChainIncrementals(meta, sidecar, f) # {}
    <3>1. /\ l \in ChainIncrementals(meta, sidecar, f)
          /\ Newer(meta, ChainIncrementals(meta, sidecar, f), l) = {}
      BY <1>3, <2>2 DEF IsLatest
    <3>2. CASE c \in ChainIncrementals(meta, sidecar, f)
      BY <1>1, <3>1, <3>2 DEF Newer
    <3>3. CASE c = f
      <4>1. l \in Incrementals(meta, sidecar) /\ ReportedRoot(l) = f
        BY <1>4, <3>1
      <4>2. /\ Timed(meta, sidecar) /\ OlderBases(meta, sidecar)
            /\ l \in DOMAIN GroupChains(meta, sidecar) /\ GroupChains(meta, sidecar)[l] = f
        BY <1>1, <4>1, ReportedTimed, VisibleChains
      <4>3. meta[f].ts < meta[l].ts
        BY <4>1, <4>2, RootOlder
      <4>4. QED
        BY <1>1, <3>3, <4>3
    <3>4. QED
      BY <1>4, <3>2, <3>3 DEF Chain
  <2>3. QED
    BY <2>1, <2>2
<1>6. QED
  BY <1>1, <1>3, <1>5

(* What any cleanup picked and is not gone is picked by a later Select.    *)
LEMMA SelectsAgain ==
    ASSUME AgainInv, NEW p \in Procs, Select(p), NEW q \in Procs, NEW b \in picked[q], ~Gone(b)
    PROVE  b \in picked'[p]
<1> DEFINE f == ReportedRoot(b)
<1>1. /\ SeqInv /\ ChainInv /\ OrderInv /\ BasesVisible /\ BasesReported /\ sidecar \subseteq Succeeded
      /\ NoInvisibleLeftovers /\ PickedReported /\ TypeOK
  BY DEF AgainInv, SeqInv, ChainInv, RetainInv, CleanupInv, ShownSucceeded, OrderInv
<1>2. b \in sidecar
  BY <1>1 DEF Gone, NoInvisibleLeftovers, PickedReported
<1>3. f \in Fulls(meta, sidecar) /\ f \in picked[q] /\ f \in sidecar /\ meta[f].kind = "full"
  BY <1>1, <1>2, VisibleChains DEF AgainInv, PickedWithRoot, Fulls
<1>4. Cardinality(Newer(meta, Fulls(meta, sidecar), f)) >= Keep
  BY <1>3 DEF AgainInv, PickedBehind, NewerVisible
<1>5. \E l \in sidecar : IsLatest(meta, sidecar, f, l) /\ clock - meta[l].ts >= KeepDays
  <2> DEFINE I == ChainIncrementals(meta, sidecar, f)
  <2>1. I = {c \in Incrementals(meta, sidecar) : ReportedRoot(c) = f}
    BY <1>1, <1>3, VisibleChain
  <2>2. ReportedRoot(f) = f
    BY <1>1, <1>3, RootsResolve
  <2>3. \A c \in sidecar : ReportedRoot(c) = f => clock - meta[c].ts >= KeepDays
    BY <1>3, <2>2 DEF AgainInv, PickedOld
  <2>4. CASE I = {}
    BY <1>3, <2>2, <2>3, <2>4 DEF IsLatest
  <2>5. CASE I # {}
    <3>1. Timed(meta, sidecar) /\ I \subseteq sidecar
      BY <1>1, <2>1, ReportedTimed DEF Incrementals
    <3>2. PICK l \in I : Newer(meta, I, l) = {}
      BY <2>5, <3>1, HasNewest
    <3>3. IsLatest(meta, sidecar, f, l)
      BY <2>5, <3>2 DEF IsLatest
    <3>4. QED
      BY <2>1, <2>3, <3>1, <3>2, <3>3
  <2>6. QED
    BY <2>4, <2>5
<1>6. f \in Selectable
  BY <1>3, <1>4, <1>5 DEF Selectable, SelectForDeletion
<1>7. QED
  BY <1>1, <1>2, <1>6, SelectsChains

LEMMA AgainFacts ==
    ASSUME Sequential, AgainInv, [Next]_vars
    PROVE  /\ SeqInv /\ ChainInv /\ CleanupInv /\ SettleInv /\ OrderInv /\ TypeOK /\ TypeOK'
           /\ SelectsFirst /\ EndsLast /\ ChainsStay /\ NewlyReported /\ NewlyChained /\ Alone
           /\ clock' >= clock /\ BasesReported /\ PlansAreOwn
           /\ sidecar \subseteq Succeeded /\ sidecar' \subseteq Succeeded' /\ Succeeded \subseteq Procs
           /\ Succeeded \subseteq Settled
           /\ \A q \in Procs : picked[q] \subseteq Succeeded
           /\ \A b \in Succeeded : ReportedRoot(b) \in Fulls(meta, Succeeded)
  BY SeqEffects, RootsResolve DEF AgainInv, SeqInv, ChainInv, RetainInv, CleanupInv, SettleInv,
     OrderInv, ShownSucceeded, ShownAreSettled, PickedReported, Succeeded

LEMMA PickedOldStep ==
    ASSUME Sequential, AgainInv, [Next]_vars
    PROVE  PickedOld'
<1>1. /\ SeqInv /\ TypeOK /\ TypeOK' /\ SelectsFirst /\ ChainsStay /\ NewlyReported /\ NewlyChained /\ Alone
      /\ clock' >= clock /\ sidecar \subseteq Succeeded /\ sidecar' \subseteq Succeeded' /\ BasesReported
      /\ Succeeded \subseteq Procs /\ ChainInv
      /\ \A q \in Procs : picked[q] \subseteq Succeeded
      /\ \A b \in Succeeded : ReportedRoot(b) \in Fulls(meta, Succeeded)
  BY AgainFacts
<1> SUFFICES ASSUME NEW p \in Procs, NEW b \in picked'[p], NEW c \in sidecar',
                    ReportedRoot(c)' = ReportedRoot(b)'
             PROVE  clock' - meta'[c].ts >= KeepDays
  BY DEF PickedOld
<1>2. CASE c \in sidecar
  <2>1. /\ meta'[c] = meta[c] /\ ReportedRoot(c)' = ReportedRoot(c) /\ meta[c].ts \in Nat
        /\ clock \in Nat /\ clock' \in Nat /\ KeepDays \in Nat
    BY <1>1, <1>2, BoundsAssumption DEF ChainsStay, TypeOK
  <2>2. CASE picked'[p] = picked[p]
    <3>1. ReportedRoot(b)' = ReportedRoot(b)
      BY <1>1, <2>2 DEF ChainsStay
    <3>2. clock - meta[c].ts >= KeepDays
      BY <1>2, <2>1, <2>2, <3>1 DEF AgainInv, PickedOld
    <3>3. QED
      BY <1>1, <2>1, <3>2
  <2>3. CASE Select(p)
    <3>1. b \in sidecar /\ ReportedRoot(b) \in Selectable
      BY <1>1, <2>3, SelectsChains
    <3>2. ReportedRoot(c) \in Selectable
      BY <1>1, <2>1, <3>1 DEF ChainsStay
    <3>3. clock - meta[c].ts >= KeepDays
      BY <1>1, <1>2, <3>2, SelectedOld
    <3>4. QED
      BY <1>1, <2>1, <3>3
  <2>4. QED
    BY <1>1, <2>2, <2>3 DEF SelectsFirst
<1>3. CASE c \notin sidecar
  <2>1. Reports(c) /\ c \in Procs
    BY <1>1, <1>3 DEF NewlyReported, TypeOK
  <2>2. pc[c] = "write" /\ c \notin Succeeded /\ c \in Succeeded' /\ c \in Writing
    BY <1>1, <2>1 DEF Reports, Writing
  <2>3. b \in picked[p]
    <3>1. ~Select(p)
      BY <1>1, <2>1, <2>2 DEF Select, Alone, Active, Running
    <3>2. QED
      BY <1>1, <3>1 DEF SelectsFirst
  <2>4. Expired(ReportedRoot(b)) /\ ReportedRoot(b)' = ReportedRoot(b) /\ ReportedRoot(b) \in Succeeded
    BY <1>1, <2>3 DEF SeqInv, PickedExpired, ChainsStay, Fulls
  <2>5. /\ meta[c].kind = "incremental" /\ meta[c].base \in Succeeded
        /\ ReportedRoot(c)' = ReportedRoot(meta[c].base)
    BY <1>1, <2>1, <2>2, <2>4 DEF NewlyChained
  <2>6. PICK r : r = ReportedRoot(meta[c].base) /\ r = ReportedRoot(b)
    BY <2>4, <2>5
  <2>7. r \in Fulls(meta, Succeeded) /\ \A g \in Fulls(meta, Succeeded) : meta[g].ts <= meta[r].ts
    BY <1>1, <2>2, <2>5, <2>6 DEF SeqInv, RunNewest
  <2>8. ~Expired(r)
    BY <1>1, <2>7, NewestNotExpired
  <2>9. QED
    BY <2>4, <2>6, <2>8
<1>4. QED
  BY <1>2, <1>3

LEMMA PickedWithRootStep ==
    ASSUME Sequential, AgainInv, [Next]_vars
    PROVE  PickedWithRoot'
<1>1. /\ SeqInv /\ SelectsFirst /\ ChainsStay /\ OrderInv /\ BasesReported /\ ChainInv
      /\ sidecar \subseteq Succeeded /\ \A q \in Procs : picked[q] \subseteq Succeeded
  BY AgainFacts
<1> SUFFICES ASSUME NEW p \in Procs, NEW b \in picked'[p] PROVE ReportedRoot(b)' \in picked'[p]
  BY DEF PickedWithRoot
<1>2. CASE picked'[p] = picked[p]
  BY <1>1, <1>2 DEF ChainsStay, AgainInv, PickedWithRoot
<1>3. CASE Select(p)
  <2>1. /\ picked'[p] = {c \in sidecar : ReportedRoot(c) \in Selectable}
        /\ Selectable \subseteq Fulls(meta, sidecar)
    BY <1>1, <1>3, SelectsChains
  <2>2. PICK f : f = ReportedRoot(b) /\ f \in Selectable /\ f = ReportedRoot(b)'
    BY <1>1, <2>1 DEF ChainsStay
  <2>3. f \in sidecar /\ ReportedRoot(f) = f
    BY <1>1, <2>1, <2>2, RootsResolve DEF Fulls
  <2>4. QED
    BY <2>1, <2>2, <2>3
<1>4. QED
  BY <1>1, <1>2, <1>3 DEF SelectsFirst

(* A deletion takes at most one newer full backup from before f, and       *)
(* before that one there were Keep.                                        *)
LEMMA StaysBehind ==
    ASSUME Sequential, AgainInv, [Next]_vars,
           NEW f \in sidecar, f \in sidecar', Cardinality(NewerVisible(f)) >= Keep
    PROVE  Cardinality(NewerVisible(f))' >= Keep
<1>1. /\ SeqInv /\ SettleInv /\ TypeOK /\ TypeOK' /\ ChainsStay /\ Alone /\ sidecar \subseteq Succeeded
      /\ sidecar' \subseteq Procs /\ Keep \in Nat
  BY AgainFacts, KeepAssumption DEF TypeOK
<1>2. SidecarsDeleted
  BY <1>1, BucketEffects
<1>3. IsFiniteSet(NewerVisible(f)') /\ Cardinality(NewerVisible(f)') \in Nat
  <2>1. NewerVisible(f)' \subseteq Procs
    BY <1>1 DEF NewerVisible, Newer, Fulls
  <2>2. QED
    BY <2>1, ProcsAssumption, FS_Subset, FS_CardinalityType
<1>4. ASSUME NEW g \in sidecar, Cardinality(NewerVisible(g)) >= Keep,
             NewerVisible(g) \subseteq NewerVisible(f)'
      PROVE  Cardinality(NewerVisible(f)') >= Keep
  <2>1. IsFiniteSet(NewerVisible(g)) /\ Cardinality(NewerVisible(g)) \in Nat
    BY <1>1, NewerFinite, FS_CardinalityType DEF NewerVisible
  <2>2. Cardinality(NewerVisible(g)) <= Cardinality(NewerVisible(f)')
    BY <1>3, <1>4, FS_Subset
  <2>3. QED
    BY <1>1, <1>3, <1>4, <2>1, <2>2
<1>5. ASSUME NEW g \in sidecar, NEW x \in NewerVisible(g), meta[f].ts <= meta[g].ts, x \in sidecar'
      PROVE  x \in NewerVisible(f)'
  <2>1. /\ x \in sidecar /\ meta[x].kind = "full" /\ meta[x].ts > meta[g].ts
        /\ meta'[x] = meta[x] /\ meta'[f] = meta[f]
        /\ meta[x].ts \in Nat /\ meta[g].ts \in Nat /\ meta[f].ts \in Nat
    BY <1>1, <1>5 DEF NewerVisible, Newer, Fulls, ChainsStay, TypeOK
  <2>2. meta'[x].ts > meta'[f].ts
    BY <1>5, <2>1
  <2>3. QED
    BY <1>5, <2>1, <2>2 DEF NewerVisible, Newer, Fulls
<1>6. meta[f].ts \in Nat
  BY <1>1 DEF TypeOK
<1>7. CASE NewerVisible(f) \subseteq sidecar'
  <2>1. NewerVisible(f) \subseteq NewerVisible(f)'
    BY <1>5, <1>6, <1>7
  <2>2. QED
    BY <1>4, <2>1
<1>8. ASSUME NEW g \in NewerVisible(f), g \notin sidecar' PROVE Cardinality(NewerVisible(f)') >= Keep
  <2>1. /\ g \in sidecar /\ meta[g].kind = "full" /\ meta[f].ts <= meta[g].ts
        /\ g \notin NewerVisible(g)
    BY <1>1, <1>8 DEF NewerVisible, Newer, Fulls, TypeOK
  <2>2. PICK p \in Procs : pc[p] = "del_meta" /\ \E u \in todo[p] : Victim(p, u, g)
    BY <1>2, <1>8, <2>1 DEF SidecarsDeleted
  <2>3. g \in picked[p]
    BY <1>1, <2>1, <2>2, VictimLast DEF Deleting
  <2>4. Cardinality(NewerVisible(g)) >= Keep
    BY <2>1, <2>3 DEF AgainInv, PickedBehind
  <2>5. ASSUME NEW x \in sidecar, x \notin sidecar' PROVE x = g
    <3>1. PICK q \in Procs : pc[q] = "del_meta" /\ \E u \in todo[q] : Victim(q, u, x)
      BY <1>2, <2>5 DEF SidecarsDeleted
    <3>2. q = p
      BY <1>1, <2>2, <3>1 DEF Alone, Active, Running, Deleting
    <3>3. x \in Procs /\ g \in Procs
      BY <1>1, <2>1, <2>5 DEF TypeOK
    <3>4. PICK u \in todo[p] : Victim(p, u, g)
      BY <2>2
    <3>5. PICK w \in todo[p] : Victim(p, w, x)
      BY <3>1, <3>2
    <3>6. SettleInv
      BY <1>1
    <3>7. QED
      BY <3>3, <3>4, <3>5, <3>6, VictimUnique
  <2>6. NewerVisible(g) \subseteq NewerVisible(f)'
    <3> SUFFICES ASSUME NEW x \in NewerVisible(g) PROVE x \in NewerVisible(f)'
      OBVIOUS
    <3>1. x \in sidecar /\ x # g
      BY <2>1 DEF NewerVisible, Newer, Fulls
    <3>2. QED
      BY <1>5, <2>1, <2>5, <3>1
  <2>7. QED
    BY <1>4, <2>1, <2>4, <2>6
<1>9. QED
  BY <1>7, <1>8

LEMMA PickedBehindStep ==
    ASSUME Sequential, AgainInv, [Next]_vars
    PROVE  PickedBehind'
<1>1. /\ SeqInv /\ OrderInv /\ ChainInv /\ BasesReported /\ SelectsFirst /\ ChainsStay /\ NewlyReported
      /\ sidecar \subseteq Succeeded /\ Succeeded \subseteq Procs
      /\ \A q \in Procs : picked[q] \subseteq Succeeded
  BY AgainFacts
<1> SUFFICES ASSUME NEW p \in Procs, NEW f \in picked'[p], meta'[f].kind = "full", f \in sidecar'
             PROVE  Cardinality(NewerVisible(f))' >= Keep
  BY DEF PickedBehind
<1>2. f \in sidecar /\ Cardinality(NewerVisible(f)) >= Keep
  <2>1. CASE picked'[p] = picked[p]
    <3>1. f \in Succeeded /\ f \in Procs /\ meta[f].kind = "full"
      BY <1>1, <2>1 DEF ChainsStay
    <3>2. f \in sidecar
      BY <1>1, <3>1 DEF NewlyReported, Reports
    <3>3. QED
      BY <2>1, <3>1, <3>2 DEF AgainInv, PickedBehind
  <2>2. CASE Select(p)
    <3>1. f \in sidecar /\ ReportedRoot(f) \in Selectable /\ meta'[f] = meta[f]
      BY <1>1, <2>2, SelectsChains DEF ChainsStay
    <3>2. ReportedRoot(f) = f
      BY <1>1, <3>1, RootsResolve
    <3>3. QED
      BY <3>1, <3>2 DEF Selectable, SelectForDeletion, NewerVisible
  <2>3. QED
    BY <1>1, <2>1, <2>2 DEF SelectsFirst
<1>3. QED
  BY <1>2, StaysBehind

(* While a cleanup deletes, nobody else picks anything.                    *)
LEMMA PickedAgainStep ==
    ASSUME Sequential, AgainInv, [Next]_vars
    PROVE  PickedAgain'
<1>1. /\ SeqInv /\ CleanupInv /\ SettleInv /\ TypeOK /\ TypeOK' /\ SelectsFirst /\ Alone /\ PlansAreOwn
  BY AgainFacts
<1>2. DataStaysDeleted /\ SidecarsWritten /\ \A q \in Procs : job'[q] = "cleanup" => PlanMoves(q)
  BY <1>1, BucketEffects, PlanEffects
<1> SUFFICES ASSUME NEW p \in Procs, pc'[p] \in Deleting, job'[p] = "cleanup",
                    NEW q \in Procs, NEW b \in picked'[q]
             PROVE  Gone(b)' \/ b \in picked'[p]
  BY DEF PickedAgain
<1>3. ASSUME pc[p] \in Deleting PROVE picked'[q] = picked[q] /\ picked'[p] = picked[p]
  <2>1. \A r \in Procs : pc[r] # "select"
    BY <1>1, <1>3 DEF Alone, Active, Running, Deleting
  <2>2. \A r \in Procs : ~Select(r)
    BY <2>1 DEF Select
  <2>3. QED
    BY <1>1, <2>2 DEF SelectsFirst
<1>4. CASE pc[p] \in Deleting /\ job[p] = "cleanup"
  <2>1. Gone(b) \/ b \in picked[p]
    BY <1>3, <1>4 DEF AgainInv, PickedAgain
  <2>2. QED
    BY <1>1, <1>2, <1>3, <1>4, <2>1, GoneStays
<1>5. CASE Select(p)
  <2>1. CASE q = p
    BY <2>1
  <2>2. CASE q # p
    <3>1. ~Select(q)
      BY <1>1, <1>5, <2>2 DEF Select, Alone, Active, Running
    <3>2. b \in picked[q]
      BY <1>1, <3>1 DEF SelectsFirst
    <3>3. Gone(b) \/ b \in picked'[p]
      BY <1>5, <3>2, SelectsAgain
    <3>4. QED
      BY <1>1, <1>2, <3>2, <3>3, GoneStays
  <2>3. QED
    BY <2>1, <2>2
<1>6. todo'[p] # {}
  BY <1>1 DEF TypeOK
<1>7. CASE KeepsPlan(p)
  BY <1>1, <1>4, <1>6, <1>7 DEF KeepsPlan, PlansAreOwn
<1>8. ASSUME NEW u \in todo[p], NEW v \in Procs, NEW complete \in BOOLEAN,
             Deletes(p, u, v, complete)
      PROVE  Gone(b)' \/ b \in picked'[p]
  BY <1>4, <1>8 DEF Deletes
<1>9. QED
  BY <1>2, <1>5, <1>6, <1>7, <1>8 DEF PlanMoves

LEMMA AgainStep ==
    ASSUME Sequential, AgainInv, [Next]_vars
    PROVE  AgainInv'
  BY SeqStep, PickedOldStep, PickedWithRootStep, PickedBehindStep, PickedAgainStep DEF AgainInv

(* A cleanup that ends without failures has finished what every earlier    *)
(* cleanup selected and left, wherever it was killed.                      *)
THEOREM NextFinishes ==
    ASSUME Sequential
    PROVE  Spec => NextCleanupFinishes
<1> DEFINE Finishes ==
             \A p \in Procs :
                /\ job[p] = "cleanup" /\ pc[p] # "done" /\ pc'[p] = "done" /\ ~dirty'[p]
                => \A q \in Procs : \A b \in picked'[q] : Gone(b)'
<1>1. AgainInv /\ [Next]_vars => Finishes
  <2> SUFFICES ASSUME AgainInv, [Next]_vars,
                      NEW p \in Procs, job[p] = "cleanup", pc[p] # "done", pc'[p] = "done", ~dirty'[p],
                      NEW q \in Procs, NEW b \in picked'[q]
               PROVE  Gone(b)'
    OBVIOUS
  <2>1. /\ SeqInv /\ CleanupInv /\ CleanupInv' /\ SettleInv /\ SettleInv' /\ TypeOK
        /\ SelectsFirst /\ EndsLast /\ Alone
    BY AgainFacts, CleanupStep DEF CleanupInv
  <2>2. DataStaysDeleted /\ SidecarsWritten
    BY <2>1, BucketEffects
  <2>3. ASSUME NEW c \in picked'[p] PROVE Gone(c)'
    <3>1. job'[p] = "cleanup" /\ Accounted(p)' /\ PlansAreOwn'
      BY <2>1 DEF EndsLast, CleanupInv, SettleInv
    <3>2. todo'[p] = {} /\ ~bad'[p]
      BY <3>1 DEF PlansAreOwn, Accounted, Deleting
    <3>3. ~InPlan(p, c)'
      BY <3>2 DEF InPlan
    <3>4. QED
      BY <2>3, <3>1, <3>2, <3>3 DEF Accounted
  <2>4. CASE pc[p] \in Deleting
    <3>1. \A r \in Procs : pc[r] # "select"
      BY <2>1, <2>4 DEF Alone, Active, Running, Deleting
    <3>2. \A r \in Procs : ~Select(r)
      BY <3>1 DEF Select
    <3>3. picked'[q] = picked[q] /\ picked'[p] = picked[p]
      BY <2>1, <3>2 DEF SelectsFirst
    <3>4. Gone(b) \/ b \in picked'[p]
      BY <2>4, <3>3 DEF AgainInv, PickedAgain
    <3>5. QED
      BY <2>1, <2>2, <2>3, <3>3, <3>4, GoneStays
  <2>5. CASE Select(p)
    <3>1. CASE q = p
      BY <2>3, <3>1
    <3>2. CASE q # p
      <4>1. ~Select(q)
        BY <2>1, <2>5, <3>2 DEF Select, Alone, Active, Running
      <4>2. b \in picked[q]
        BY <2>1, <4>1 DEF SelectsFirst
      <4>3. Gone(b) \/ b \in picked'[p]
        BY <2>5, <4>2, SelectsAgain
      <4>4. QED
        BY <2>1, <2>2, <2>3, <4>2, <4>3, GoneStays
    <3>3. QED
      BY <3>1, <3>2
  <2>6. QED
    BY <2>1, <2>4, <2>5 DEF EndsLast
<1>2. AgainInv /\ [Next]_vars => AgainInv'
  BY AgainStep
<1>3. Spec => [][Finishes]_vars
  BY AgainInit, <1>1, <1>2, PTL DEF Spec
<1>4. QED
  BY <1>3 DEF NextCleanupFinishes

(* keep_days: nothing of a visible chain is deleted, object or sidecar,    *)
(* while the chain has a visible backup younger than that.                 *)
THEOREM YoungKept ==
    ASSUME Sequential
    PROVE  Spec => YoungChainsKept
<1> DEFINE Keeps ==
             LET rootOf == GroupChains(meta, sidecar)
             IN  \A b, c \in DOMAIN rootOf :
                    rootOf[b] = rootOf[c] /\ clock - meta[c].ts < KeepDays
                       => data'[b] = data[b] /\ b \in sidecar'
<1>1. AgainInv /\ [Next]_vars => Keeps
  <2> SUFFICES ASSUME AgainInv, [Next]_vars,
                      NEW b \in DOMAIN GroupChains(meta, sidecar),
                      NEW c \in DOMAIN GroupChains(meta, sidecar),
                      GroupChains(meta, sidecar)[b] = GroupChains(meta, sidecar)[c],
                      clock - meta[c].ts < KeepDays
               PROVE  data'[b] = data[b] /\ b \in sidecar'
    OBVIOUS
  <2>1. /\ SeqInv /\ ChainInv /\ SettleInv /\ OrderInv /\ TypeOK /\ sidecar \subseteq Succeeded
        /\ Succeeded \subseteq Settled /\ BasesVisible
        /\ clock \in Nat /\ KeepDays \in Nat
    BY AgainFacts, BoundsAssumption DEF SeqInv, TypeOK
  <2>2. DataDamaged /\ SidecarsDeleted
    BY <2>1, BucketEffects
  <2>3. b \in sidecar /\ c \in sidecar
    <3>1. Timed(meta, sidecar) /\ OlderBases(meta, sidecar)
      BY <2>1, ReportedTimed
    <3>2. ResolvesIn(meta, sidecar, Incrementals(meta, sidecar), GroupChains(meta, sidecar))
      BY <3>1, ChainsResolved
    <3>3. QED
      BY <3>2 DEF ResolvesIn, Fulls, Incrementals
  <2>4. ReportedRoot(b) = ReportedRoot(c)
    BY <2>1, <2>3, VisibleChains
  <2>5. meta[c].ts \in Nat
    BY <2>1, <2>3 DEF TypeOK
  <2>6. ASSUME NEW p \in Procs, pc[p] \in Deleting, NEW u \in todo[p], Victim(p, u, b) PROVE FALSE
    <3>1. b \in picked[p]
      BY <2>1, <2>3, <2>6, VictimLast
    <3>2. clock - meta[c].ts >= KeepDays
      BY <2>3, <2>4, <3>1 DEF AgainInv, PickedOld
    <3>3. QED
      BY <2>1, <2>5, <3>2
  <2>7. QED
    BY <2>1, <2>2, <2>3, <2>6 DEF DataDamaged, SidecarsDeleted, Deleting
<1>2. AgainInv /\ [Next]_vars => AgainInv'
  BY AgainStep
<1>3. Spec => [][Keeps]_vars
  BY AgainInit, <1>1, <1>2, PTL DEF Spec
<1>4. QED
  BY <1>3 DEF YoungChainsKept
====
