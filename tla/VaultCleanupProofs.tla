------------------------- MODULE VaultCleanupProofs -------------------------
(***************************************************************************)
(* Theorems about the deletions of Vault: that they leave nothing          *)
(* invisible behind, that a cleanup's report is honest, and, when no PUT   *)
(* is applied after its run gave up, that what is visible is intact, that  *)
(* a chain's full backup goes last, and that retention keeps whole chains. *)
(***************************************************************************)
EXTENDS VaultProofs, BackupChainsProofs

(***************************************************************************)
(* A backup that discovery has seen, or may see, is settled: its run has   *)
(* left the steps that write it and the server is done with it, so that    *)
(* objects once deleted stay deleted.                                      *)
(***************************************************************************)
Settled ==
    {b \in Prepared : pc[b] \notin {"submit", "poll", "write"} /\ row[b] # "creating"}

(* What p deletes: the units of its plan.                                  *)
InPlan(p, b) == \E u \in todo[p] : b \in u.before \cup {u.last}

ShownAreSettled ==
    /\ sidecar \subseteq Settled /\ late \subseteq Settled /\ Succeeded \subseteq Settled
    /\ \A p \in Procs : /\ view[p] \subseteq Settled /\ picked[p] \subseteq Settled
                        /\ \A b \in Procs : InPlan(p, b) => b \in Settled
                        /\ pc[p] = "write" => row[p] # "creating"

LEMMA SettledStays ==
    ASSUME OrderInv, OrderInv', Grows, [Next]_vars,
           \A p \in Procs : pc[p] = "write" => row[p] # "creating"
    PROVE  Settled \subseteq Settled'
<1> USE DEF local, bucket, GoTo, Fault, OrderInv, TypeOK, Stages, Prepared, Settled, Grows, Deleting, Reading, Running
<1>1. CASE UNCHANGED vars
  BY <1>1 DEF vars
<1>2. ASSUME NEW p \in Procs, StartBackup(p) PROVE Settled \subseteq Settled'
  BY <1>2 DEF StartBackup
<1>3. ASSUME NEW p \in Procs, StartCleanup(p) PROVE Settled \subseteq Settled'
  BY <1>3 DEF StartCleanup
<1>4. ASSUME NEW p \in Procs, Guard(p) PROVE Settled \subseteq Settled'
  BY <1>4 DEF Guard
<1>5. ASSUME NEW p \in Procs, ListFulls(p) PROVE Settled \subseteq Settled'
  BY <1>5 DEF ListFulls, Listed
<1>6. ASSUME NEW p \in Procs, ListIncrementals(p) PROVE Settled \subseteq Settled'
  BY <1>6 DEF ListIncrementals, Listed
<1>7. ASSUME NEW p \in Procs, Decide(p) PROVE Settled \subseteq Settled'
  BY <1>7 DEF Decide, Now, DecideKind
<1>8. ASSUME NEW p \in Procs, Submit(p) PROVE Settled \subseteq Settled'
  BY <1>8 DEF Submit, ServerAccepts, ServerAnswers
<1>9. ASSUME NEW p \in Procs, SubmitFails(p) PROVE Settled \subseteq Settled'
  BY <1>9 DEF SubmitFails, ServerAccepts, ServerAnswers
<1>10. ASSUME NEW p \in Procs, PollCompleted(p) PROVE Settled \subseteq Settled'
  BY <1>10 DEF PollCompleted, Finished
<1>11. ASSUME NEW p \in Procs, PollFailed(p) PROVE Settled \subseteq Settled'
  BY <1>11 DEF PollFailed
<1>12. ASSUME NEW p \in Procs, PollGivesUp(p) PROVE Settled \subseteq Settled'
  BY <1>12 DEF PollGivesUp
<1>13. ASSUME NEW p \in Procs, PollLost(p) PROVE Settled \subseteq Settled'
  BY <1>13 DEF PollLost, Rollback
<1>14. ASSUME NEW p \in Procs, WriteMetadata(p) PROVE Settled \subseteq Settled'
  BY <1>14 DEF WriteMetadata
<1>15. ASSUME NEW p \in Procs, WriteMetadataFails(p) PROVE Settled \subseteq Settled'
  BY <1>15 DEF WriteMetadataFails, Rollback
<1>16. ASSUME NEW p \in Procs, LatePut(p) PROVE Settled \subseteq Settled'
  BY <1>16 DEF LatePut
<1>17. ASSUME NEW p \in Procs, Select(p) PROVE Settled \subseteq Settled'
  BY <1>17 DEF Select, AfterSelect
<1>18. ASSUME NEW p \in Procs, DeleteList(p) PROVE Settled \subseteq Settled'
  BY <1>18 DEF DeleteList
<1>19. ASSUME NEW p \in Procs, DeleteSome(p) PROVE Settled \subseteq Settled'
  BY <1>19 DEF DeleteSome
<1>20. ASSUME NEW p \in Procs, DeleteData(p) PROVE Settled \subseteq Settled'
  BY <1>20 DEF DeleteData, Advance, Exit
<1>21. ASSUME NEW p \in Procs, DeleteMeta(p) PROVE Settled \subseteq Settled'
  BY <1>21 DEF DeleteMeta, Advance, Exit
<1>22. ASSUME NEW p \in Procs, DeleteFails(p) PROVE Settled \subseteq Settled'
  BY <1>22 DEF DeleteFails, Advance, Exit, DataAfter, SidecarAfter
<1>23. ASSUME NEW p \in Procs, ReadFails(p) PROVE Settled \subseteq Settled'
  BY <1>23 DEF ReadFails, Exit
<1>24. ASSUME NEW p \in Procs, Crash(p) PROVE Settled \subseteq Settled'
  BY <1>24 DEF Crash
<1>25. ASSUME NEW p \in Procs, ServerCompletes(p) PROVE Settled \subseteq Settled'
  BY <1>25 DEF ServerCompletes
<1>26. ASSUME NEW p \in Procs, ServerFails(p) PROVE Settled \subseteq Settled'
  BY <1>26 DEF ServerFails
<1>27. CASE ServerRestarts
  BY <1>27 DEF ServerRestarts
<1>28. CASE Tick
  BY <1>28 DEF Tick
<1>29. QED
  BY <1>1, <1>2, <1>3, <1>4, <1>5, <1>6, <1>7, <1>8, <1>9, <1>10, <1>11, <1>12, <1>13, <1>14, <1>15, <1>16, <1>17, <1>18, <1>19, <1>20, <1>21, <1>22, <1>23, <1>24, <1>25, <1>26, <1>27, <1>28 DEF Next

(* Every prepared backup has a timestamp of its own: each decision reads   *)
(* the clock and moves it on.                                              *)
DistinctTimes == \A b, c \in Prepared : meta[b].ts = meta[c].ts => b = c

(* A PUT that was given up on makes its backup visible only once.          *)
OnceShown ==
    /\ late \cap sidecar = {}
    /\ \A p \in Procs : late \cap view[p] = {} /\ late \cap picked[p] = {}

(* A rollback deletes the run's own backup and a cleanup what it selected, *)
(* each chain once.                                                        *)
PlansAreOwn ==
    \A p \in Procs :
        /\ pc[p] \notin Deleting => todo[p] = {}
        /\ pc[p] \notin Deleting \cup Over => picked[p] = {}
        /\ job[p] = "backup" => /\ picked[p] = {}
                                /\ \A u \in todo[p] : u.before = {} /\ u.last = p
        /\ job[p] = "cleanup" => \A b \in Procs : InPlan(p, b) => b \in picked[p]
        /\ \A u \in todo[p] : u.last \notin u.before
        /\ \A u, w \in todo[p] : u.last = w.last => u = w

SettleInv ==
    OrderInv /\ ShownAreSettled /\ DistinctTimes /\ OnceShown /\ PlansAreOwn

LEMMA SettleInit == Init => SettleInv
  BY OrderInit DEF Init, SettleInv, ShownAreSettled, DistinctTimes, OnceShown, PlansAreOwn,
     InPlan, Prepared, Succeeded, NoMeta, Deleting

LEMMA RollbackOwn ==
    ASSUME SettleInv, NEW p \in Procs, pc[p] \in {"poll", "write"}, Rollback(p),
           UNCHANGED <<job, picked>>
    PROVE  /\ PlansAreOwn'
           /\ \A q, b \in Procs : InPlan(q, b)' => InPlan(q, b) \/ b = p
<1>1. TypeOK /\ Stages /\ PlansAreOwn
  BY DEF SettleInv, OrderInv
<1>2. /\ todo' = [todo EXCEPT ![p] = {[before |-> {}, last |-> p]}]
      /\ pc' = [pc EXCEPT ![p] = "del_list"]
  BY DEF Rollback, GoTo
<1>3. job[p] = "backup"
  BY <1>1 DEF Stages
<1>4. \A q, b \in Procs : InPlan(q, b)' => InPlan(q, b) \/ b = p
  BY <1>1, <1>2 DEF InPlan, TypeOK
<1>5. PlansAreOwn'
  <2>1. /\ \A q \in Procs \ {p} : todo'[q] = todo[q] /\ pc'[q] = pc[q]
        /\ todo'[p] = {[before |-> {}, last |-> p]} /\ pc'[p] = "del_list"
    BY <1>1, <1>2 DEF TypeOK
  <2>2. \A q \in Procs \ {p} : \A b \in Procs : InPlan(q, b)' => InPlan(q, b)
    BY <2>1 DEF InPlan
  <2>3. picked[p] = {}
    BY <1>1, <1>3 DEF PlansAreOwn
  <2>4. \A u \in todo'[p] : u.before = {} /\ u.last = p
    BY <2>1
  <2>5. \A u, w \in todo'[p] : u.last = w.last => u = w
    BY <2>1
  <2>6. \A u \in todo'[p] : u.last \notin u.before
    BY <2>1
  <2>7. QED
    BY <1>1, <1>3, <2>1, <2>2, <2>3, <2>4, <2>5, <2>6 DEF PlansAreOwn, Deleting
<1>6. QED
  BY <1>4, <1>5

(* What Advance leaves of the plan: the other units, and what remains of u. *)
LEMMA AdvanceLeaves ==
    ASSUME TypeOK, NEW p \in Procs, NEW u \in todo[p], NEW v \in Procs,
           NEW complete \in BOOLEAN, Advance(p, u, v, complete)
    PROVE  /\ \A q \in Procs \ {p} : todo'[q] = todo[q] /\ pc'[q] = pc[q]
           /\ \A w \in todo'[p] : \/ w \in todo[p] \ {u}
                                  \/ w = [before |-> u.before \ {v}, last |-> u.last]
           /\ pc'[p] \in {"del_list", "done", "failed"}
           /\ pc'[p] # "del_list" => todo'[p] = {}
           /\ pc'[p] = "done" => job[p] = "cleanup"
<1> DEFINE unitOver == v = u.last \/ KeepsFull(u.before \ {v}, bad[p] \/ ~complete)
           todoLeft == (todo[p] \ {u}) \cup
                          IF unitOver THEN {} ELSE {[before |-> u.before \ {v}, last |-> u.last]}
           report   == Report(p, unitOver, bad[p] \/ ~complete)
<1>1. /\ todo' = [todo EXCEPT ![p] = todoLeft]
      /\ pc' = [pc EXCEPT ![p] = IF todoLeft # {} THEN "del_list" ELSE Exit(p, report)]
  BY DEF Advance, GoTo
<1>2. Exit(p, report) \in {"done", "failed"} /\ (Exit(p, report) = "done" => job[p] = "cleanup")
  BY DEF Exit, TypeOK
<1>3. \A w \in todoLeft : \/ w \in todo[p] \ {u}
                          \/ w = [before |-> u.before \ {v}, last |-> u.last]
  OBVIOUS
<1> HIDE DEF todoLeft, report
<1>4. QED
  BY <1>1, <1>2, <1>3 DEF TypeOK

LEMMA AdvanceOwn ==
    ASSUME SettleInv, NEW p \in Procs, pc[p] \in Deleting, NEW u \in todo[p], NEW v \in Procs,
           NEW complete \in BOOLEAN, Advance(p, u, v, complete), UNCHANGED <<job, picked>>
    PROVE  /\ PlansAreOwn'
           /\ \A q, b \in Procs : InPlan(q, b)' => InPlan(q, b)
<1>1. TypeOK /\ PlansAreOwn
  BY DEF SettleInv, OrderInv
<1>2. /\ \A q \in Procs \ {p} : todo'[q] = todo[q] /\ pc'[q] = pc[q]
      /\ \A w \in todo'[p] : \/ w \in todo[p] \ {u}
                             \/ w = [before |-> u.before \ {v}, last |-> u.last]
      /\ pc'[p] \in {"del_list", "done", "failed"}
      /\ pc'[p] # "del_list" => todo'[p] = {}
  BY <1>1, AdvanceLeaves
<1>3. \A q, b \in Procs : InPlan(q, b)' => InPlan(q, b)
  BY <1>2 DEF InPlan
<1>4. PlansAreOwn'
  <2> SUFFICES ASSUME NEW q \in Procs
               PROVE  /\ pc'[q] \notin Deleting => todo'[q] = {}
                      /\ pc'[q] \notin Deleting \cup Over => picked'[q] = {}
                      /\ job'[q] = "backup" => /\ picked'[q] = {}
                                               /\ \A w \in todo'[q] : w.before = {} /\ w.last = q
                      /\ job'[q] = "cleanup" => \A b \in Procs : InPlan(q, b)' => b \in picked'[q]
                      /\ \A w \in todo'[q] : w.last \notin w.before
                      /\ \A w, x \in todo'[q] : w.last = x.last => w = x
    BY DEF PlansAreOwn
  <2>1. CASE q # p
    BY <1>1, <1>2, <1>3, <2>1 DEF PlansAreOwn
  <2>2. CASE q = p
    <3>1. /\ pc'[q] \notin Deleting => todo'[q] = {}
          /\ pc'[q] \notin Deleting \cup Over => picked'[q] = {}
      BY <1>2, <2>2 DEF Deleting, Over
    <3>2. job'[q] = "backup" => /\ picked'[q] = {}
                                /\ \A w \in todo'[q] : w.before = {} /\ w.last = q
      BY <1>1, <1>2, <2>2 DEF PlansAreOwn
    <3>3. job'[q] = "cleanup" => \A b \in Procs : InPlan(q, b)' => b \in picked'[q]
      BY <1>1, <1>3 DEF PlansAreOwn
    <3>4. ASSUME NEW w \in todo'[p], NEW x \in todo'[p], w.last = x.last PROVE w = x
      <4>1. \A y \in todo[p] \ {u} : y.last # u.last
        BY <1>1 DEF PlansAreOwn
      <4>2. w \in todo[p] /\ x \in todo[p] => w = x
        BY <1>1, <3>4 DEF PlansAreOwn
      <4> DEFINE rest == [before |-> u.before \ {v}, last |-> u.last]
      <4>3. rest.last = u.last
        OBVIOUS
      <4>4. (w \in todo[p] \ {u} \/ w = rest) /\ (x \in todo[p] \ {u} \/ x = rest)
        BY <1>2, <3>4
      <4> HIDE DEF rest
      <4>5. QED
        BY <3>4, <4>1, <4>2, <4>3, <4>4
    <3>5. \A w \in todo'[p] : w.last \notin w.before
      BY <1>1, <1>2 DEF PlansAreOwn
    <3>6. QED
      BY <2>2, <3>1, <3>2, <3>3, <3>4, <3>5
  <2>3. QED
    BY <2>1, <2>2
<1>5. QED
  BY <1>3, <1>4

LEMMA SelectOwn ==
    ASSUME SettleInv, NEW p \in Procs, Select(p)
    PROVE  /\ PlansAreOwn'
           /\ \A q \in Procs : picked'[q] \subseteq picked[q] \cup view[q]
           /\ \A q, b \in Procs : InPlan(q, b)' => InPlan(q, b) \/ b \in view[q]
           /\ \A b \in picked'[p] : InPlan(p, b)'
<1> DEFINE V == view[p]
           fulls == SelectForDeletion(meta, V, Keep, KeepDays, clock)
           chain(f) == Chain(meta, V, f)
           unit(f) == [before |-> ChainIncrementals(meta, V, f), last |-> f]
<1>1. TypeOK /\ Stages /\ PlansAreOwn
  BY DEF SettleInv, OrderInv
<1>2. /\ pc[p] = "select" /\ UNCHANGED job
      /\ todo' = [todo EXCEPT ![p] = Units(V, fulls)]
      /\ picked' = [picked EXCEPT ![p] = UNION {chain(f) : f \in fulls}]
      /\ pc' = [pc EXCEPT ![p] = AfterSelect(fulls)]
  BY DEF Select, GoTo
<1>3. /\ fulls \subseteq V
      /\ \A f : ChainIncrementals(meta, V, f) \subseteq V
      /\ \A f : chain(f) = {f} \cup ChainIncrementals(meta, V, f)
      /\ \A f \in fulls : f \notin ChainIncrementals(meta, V, f)
  BY DEF SelectForDeletion, Fulls, ChainIncrementals, Incrementals, Chain
<1>4. Units(V, fulls) = {unit(f) : f \in fulls}
  BY DEF Units
<1>5. AfterSelect(fulls) \in {"done", "del_list"} /\ (AfterSelect(fulls) = "done" => fulls = {})
  BY DEF AfterSelect
<1> HIDE DEF fulls, chain
<1>6. picked'[p] = UNION {chain(f) : f \in fulls} /\ picked'[p] \subseteq V
  BY <1>1, <1>2, <1>3 DEF TypeOK
<1>7. todo'[p] = {unit(f) : f \in fulls}
  BY <1>1, <1>2, <1>4 DEF TypeOK
<1>8. ASSUME NEW b \in Procs, InPlan(p, b)' PROVE b \in picked'[p]
  <2>1. PICK f \in fulls : b \in unit(f).before \cup {unit(f).last}
    BY <1>7, <1>8 DEF InPlan
  <2>2. b \in chain(f)
    BY <1>3, <2>1
  <2>3. QED
    BY <1>6, <2>1, <2>2
<1>8a. ASSUME NEW b \in picked'[p] PROVE InPlan(p, b)'
  <2>1. PICK f \in fulls : b \in chain(f)
    BY <1>6, <1>8a
  <2>2. unit(f) \in todo'[p] /\ b \in unit(f).before \cup {unit(f).last}
    BY <1>3, <1>7, <2>1
  <2>3. QED
    BY <2>2 DEF InPlan
<1>9. /\ \A q \in Procs \ {p} : todo'[q] = todo[q] /\ pc'[q] = pc[q] /\ picked'[q] = picked[q]
      /\ pc'[p] = AfterSelect(fulls) /\ job[p] = "cleanup"
  BY <1>1, <1>2 DEF TypeOK, Stages
<1>10. /\ \A w, x \in todo'[p] : w.last = x.last => w = x
       /\ \A w \in todo'[p] : w.last \notin w.before
  BY <1>3, <1>7
<1>11. AfterSelect(fulls) = "done" => todo'[p] = {}
  BY <1>5, <1>7
<1> HIDE DEF unit, V
<1>12. \A q, b \in Procs : InPlan(q, b)' => InPlan(q, b) \/ b \in view[q]
  <2> SUFFICES ASSUME NEW q \in Procs, NEW b \in Procs, InPlan(q, b)'
               PROVE  InPlan(q, b) \/ b \in view[q]
    OBVIOUS
  <2>1. CASE q = p
    BY <1>6, <1>8, <2>1 DEF V
  <2>2. CASE q # p
    BY <1>9, <2>2 DEF InPlan
  <2>3. QED
    BY <2>1, <2>2
<1>13. PlansAreOwn'
  <2> SUFFICES ASSUME NEW q \in Procs
               PROVE  /\ pc'[q] \notin Deleting => todo'[q] = {}
                      /\ pc'[q] \notin Deleting \cup Over => picked'[q] = {}
                      /\ job'[q] = "backup" => /\ picked'[q] = {}
                                               /\ \A w \in todo'[q] : w.before = {} /\ w.last = q
                      /\ job'[q] = "cleanup" => \A b \in Procs : InPlan(q, b)' => b \in picked'[q]
                      /\ \A w \in todo'[q] : w.last \notin w.before
                      /\ \A w, x \in todo'[q] : w.last = x.last => w = x
    BY DEF PlansAreOwn
  <2>1. CASE q # p
    <3>1. /\ todo'[q] = todo[q] /\ pc'[q] = pc[q] /\ picked'[q] = picked[q] /\ job'[q] = job[q]
          /\ \A b \in Procs : InPlan(q, b)' => InPlan(q, b)
      BY <1>2, <1>9, <2>1 DEF InPlan
    <3>2. QED
      BY <1>1, <3>1 DEF PlansAreOwn
  <2>2. CASE q = p
    BY <1>2, <1>5, <1>8, <1>9, <1>10, <1>11, <2>2 DEF Deleting, Over
  <2>3. QED
    BY <2>1, <2>2
<1>14. \A q \in Procs : picked'[q] \subseteq picked[q] \cup view[q]
  BY <1>6, <1>9 DEF V
<1>15. QED
  BY <1>8a, <1>12, <1>13, <1>14

LEMMA SettleStep == SettleInv /\ [Next]_vars => SettleInv'
<1> SUFFICES ASSUME SettleInv, [Next]_vars PROVE SettleInv'
  OBVIOUS
<1>0. /\ OrderInv' /\ Grows /\ Settled \subseteq Settled'
      /\ TypeOK /\ TypeOK' /\ Stages /\ BasesAreOlder /\ ShownAreSettled
  BY OrderStep, SettledStays DEF SettleInv, ShownAreSettled, OrderInv
<1> DEFINE J == ShownAreSettled /\ DistinctTimes /\ OnceShown /\ PlansAreOwn
<1> USE DEF local, bucket, GoTo, Fault
<1>1. CASE UNCHANGED vars
  BY <1>0, <1>1 DEF vars, SettleInv, TypeOK, Stages, Prepared, Succeeded,
     Deleting, Reading, Running, Over, BasesAreOlder, Settled, InPlan, ShownAreSettled,
     DistinctTimes, OnceShown, PlansAreOwn
<1>2. ASSUME NEW p \in Procs, StartBackup(p) PROVE J'
  BY <1>0, <1>2 DEF StartBackup, SettleInv, TypeOK, Stages, Prepared, Succeeded,
     Deleting, Reading, Running, Over, BasesAreOlder, Settled, InPlan, ShownAreSettled,
     DistinctTimes, OnceShown, PlansAreOwn
<1>3. ASSUME NEW p \in Procs, StartCleanup(p) PROVE J'
  BY <1>0, <1>3 DEF StartCleanup, SettleInv, TypeOK, Stages, Prepared, Succeeded,
     Deleting, Reading, Running, Over, BasesAreOlder, Settled, InPlan, ShownAreSettled,
     DistinctTimes, OnceShown, PlansAreOwn
<1>4. ASSUME NEW p \in Procs, Guard(p) PROVE J'
  BY <1>0, <1>4 DEF Guard, SettleInv, TypeOK, Stages, Prepared, Succeeded,
     Deleting, Reading, Running, Over, BasesAreOlder, Settled, InPlan, ShownAreSettled,
     DistinctTimes, OnceShown, PlansAreOwn
<1>5. ASSUME NEW p \in Procs, ListFulls(p) PROVE J'
  BY <1>0, <1>5 DEF ListFulls, Listed, SettleInv, TypeOK, Stages, Prepared, Succeeded,
     Deleting, Reading, Running, Over, BasesAreOlder, Settled, InPlan, ShownAreSettled,
     DistinctTimes, OnceShown, PlansAreOwn
<1>6. ASSUME NEW p \in Procs, ListIncrementals(p) PROVE J'
  BY <1>0, <1>6 DEF ListIncrementals, Listed, SettleInv, TypeOK, Stages, Prepared, Succeeded,
     Deleting, Reading, Running, Over, BasesAreOlder, Settled, InPlan, ShownAreSettled,
     DistinctTimes, OnceShown, PlansAreOwn
<1>7. ASSUME NEW p \in Procs, Decide(p) PROVE J'
  BY <1>0, <1>7 DEF Decide, Now, DecideKind, SettleInv, TypeOK, Stages, Prepared, Succeeded,
     Deleting, Reading, Running, Over, BasesAreOlder, Settled, InPlan, ShownAreSettled,
     DistinctTimes, OnceShown, PlansAreOwn
<1>8. ASSUME NEW p \in Procs, Submit(p) PROVE J'
  BY <1>0, <1>8 DEF Submit, ServerAccepts, ServerAnswers, SettleInv, TypeOK, Stages, Prepared, Succeeded,
     Deleting, Reading, Running, Over, BasesAreOlder, Settled, InPlan, ShownAreSettled,
     DistinctTimes, OnceShown, PlansAreOwn
<1>9. ASSUME NEW p \in Procs, SubmitFails(p) PROVE J'
  BY <1>0, <1>9 DEF SubmitFails, ServerAccepts, ServerAnswers, SettleInv, TypeOK, Stages, Prepared, Succeeded,
     Deleting, Reading, Running, Over, BasesAreOlder, Settled, InPlan, ShownAreSettled,
     DistinctTimes, OnceShown, PlansAreOwn
<1>10. ASSUME NEW p \in Procs, PollCompleted(p) PROVE J'
  BY <1>0, <1>10 DEF PollCompleted, Finished, SettleInv, TypeOK, Stages, Prepared, Succeeded,
     Deleting, Reading, Running, Over, BasesAreOlder, Settled, InPlan, ShownAreSettled,
     DistinctTimes, OnceShown, PlansAreOwn
<1>11. ASSUME NEW p \in Procs, PollFailed(p) PROVE J'
  BY <1>0, <1>11 DEF PollFailed, SettleInv, TypeOK, Stages, Prepared, Succeeded,
     Deleting, Reading, Running, Over, BasesAreOlder, Settled, InPlan, ShownAreSettled,
     DistinctTimes, OnceShown, PlansAreOwn
<1>12. ASSUME NEW p \in Procs, PollGivesUp(p) PROVE J'
  BY <1>0, <1>12 DEF PollGivesUp, SettleInv, TypeOK, Stages, Prepared, Succeeded,
     Deleting, Reading, Running, Over, BasesAreOlder, Settled, InPlan, ShownAreSettled,
     DistinctTimes, OnceShown, PlansAreOwn
<1>13. ASSUME NEW p \in Procs, PollLost(p) PROVE J'
  <2>1. /\ pc[p] = "poll" /\ row[p] = "none" /\ Rollback(p)
        /\ UNCHANGED <<job, view, picked, meta, row, sidecar, late>>
    BY <1>13 DEF PollLost
  <2>2. p \in Settled' /\ p \in Procs
    BY <1>0, <2>1 DEF Rollback, Settled, Prepared, Stages, TypeOK
  <2>3. PlansAreOwn' /\ \A q, b \in Procs : InPlan(q, b)' => b \in Settled'
    BY <1>0, <2>1, <2>2, RollbackOwn DEF ShownAreSettled
  <2>4. Succeeded' = Succeeded
    BY <1>0, <2>1 DEF Rollback, Succeeded, TypeOK, Stages
  <2>5. ShownAreSettled' /\ DistinctTimes' /\ OnceShown'
    BY <1>0, <2>1, <2>3, <2>4 DEF SettleInv, ShownAreSettled, DistinctTimes, OnceShown, Prepared,
       Rollback, TypeOK
  <2>6. QED
    BY <2>3, <2>5
<1>14. ASSUME NEW p \in Procs, WriteMetadata(p) PROVE J'
  BY <1>0, <1>14 DEF WriteMetadata, SettleInv, TypeOK, Stages, Prepared, Succeeded,
     Deleting, Reading, Running, Over, BasesAreOlder, Settled, InPlan, ShownAreSettled,
     DistinctTimes, OnceShown, PlansAreOwn
<1>15. ASSUME NEW p \in Procs, WriteMetadataFails(p) PROVE J'
  <2>1. /\ pc[p] = "write" /\ row[p] # "creating" /\ Rollback(p) /\ late' \subseteq late \cup {p}
        /\ UNCHANGED <<job, view, picked, meta, row, sidecar>>
    BY <1>0, <1>15 DEF WriteMetadataFails, ShownAreSettled
  <2>2. p \in Settled' /\ p \notin Settled
    BY <1>0, <2>1 DEF Rollback, Settled, Prepared, Stages, TypeOK
  <2>3. PlansAreOwn' /\ \A q, b \in Procs : InPlan(q, b)' => b \in Settled'
    BY <1>0, <2>1, <2>2, RollbackOwn DEF ShownAreSettled
  <2>4. Succeeded' = Succeeded
    BY <1>0, <2>1 DEF Rollback, Succeeded, TypeOK, Stages
  <2>5. ShownAreSettled' /\ DistinctTimes' /\ OnceShown'
    BY <1>0, <2>1, <2>2, <2>3, <2>4 DEF SettleInv, ShownAreSettled, DistinctTimes, OnceShown, Prepared,
       Rollback, TypeOK
  <2>6. QED
    BY <2>3, <2>5
<1>16. ASSUME NEW p \in Procs, LatePut(p) PROVE J'
  BY <1>0, <1>16 DEF LatePut, SettleInv, TypeOK, Stages, Prepared, Succeeded,
     Deleting, Reading, Running, Over, BasesAreOlder, Settled, InPlan, ShownAreSettled,
     DistinctTimes, OnceShown, PlansAreOwn
<1>17. ASSUME NEW p \in Procs, Select(p) PROVE J'
  <2>1. /\ PlansAreOwn'
        /\ \A q \in Procs : picked'[q] \subseteq picked[q] \cup view[q]
        /\ \A q, b \in Procs : InPlan(q, b)' => b \in Settled'
    BY <1>0, <1>17, SelectOwn DEF ShownAreSettled
  <2>2. /\ UNCHANGED <<job, meta, row, sidecar, late>>
        /\ pc[p] = "select" /\ view' = [view EXCEPT ![p] = {}]
        /\ \E label \in {"done", "del_list"} : pc' = [pc EXCEPT ![p] = label]
    BY <1>17 DEF Select, AfterSelect
  <2>3. Succeeded' = Succeeded
    BY <1>0, <2>2 DEF Succeeded, TypeOK, Stages
  <2>4. ShownAreSettled' /\ DistinctTimes' /\ OnceShown'
    BY <1>0, <2>1, <2>2, <2>3 DEF SettleInv, ShownAreSettled, DistinctTimes, OnceShown,
       Prepared, TypeOK
  <2>5. QED
    BY <2>1, <2>4
<1>18. ASSUME NEW p \in Procs, DeleteList(p) PROVE J'
  BY <1>0, <1>18 DEF DeleteList, SettleInv, TypeOK, Stages, Prepared, Succeeded,
     Deleting, Reading, Running, Over, BasesAreOlder, Settled, InPlan, ShownAreSettled,
     DistinctTimes, OnceShown, PlansAreOwn
<1>19. ASSUME NEW p \in Procs, DeleteSome(p) PROVE J'
  BY <1>0, <1>19 DEF DeleteSome, SettleInv, TypeOK, Stages, Prepared, Succeeded,
     Deleting, Reading, Running, Over, BasesAreOlder, Settled, InPlan, ShownAreSettled,
     DistinctTimes, OnceShown, PlansAreOwn
<1>20. ASSUME NEW p \in Procs, DeleteData(p) PROVE J'
  <2>1. PICK u \in todo[p], v \in Procs :
           \/ pc' = [pc EXCEPT ![p] = "del_meta"] /\ UNCHANGED todo
           \/ Advance(p, u, v, TRUE)
    BY <1>20 DEF DeleteData
  <2>2. pc[p] = "del_data" /\ UNCHANGED <<job, view, picked, meta, row, sidecar, late>>
    BY <1>20 DEF DeleteData
  <2>3. PlansAreOwn' /\ \A q, b \in Procs : InPlan(q, b)' => InPlan(q, b)
    <3>1. CASE pc' = [pc EXCEPT ![p] = "del_meta"] /\ UNCHANGED todo
      BY <1>0, <2>2, <3>1 DEF SettleInv, PlansAreOwn, InPlan, TypeOK, Deleting
    <3>2. CASE Advance(p, u, v, TRUE)
      BY <2>2, <3>2, AdvanceOwn DEF Deleting
    <3>3. QED
      BY <2>1, <3>1, <3>2
  <2>4. /\ \A q \in Procs \ {p} : pc'[q] = pc[q]
        /\ pc'[p] \in {"del_meta", "del_list", "done", "failed"}
        /\ pc'[p] = "done" => job[p] = "cleanup"
    <3>1. CASE Advance(p, u, v, TRUE)
      BY <1>0, <3>1, AdvanceLeaves
    <3>2. CASE pc' = [pc EXCEPT ![p] = "del_meta"]
      BY <1>0, <3>2 DEF TypeOK
    <3>3. QED
      BY <2>1, <3>1, <3>2
  <2>5. Succeeded' = Succeeded
    BY <1>0, <2>2, <2>4 DEF Succeeded
  <2>6. ShownAreSettled' /\ DistinctTimes' /\ OnceShown'
    BY <1>0, <2>2, <2>3, <2>4, <2>5 DEF SettleInv, ShownAreSettled, DistinctTimes, OnceShown,
       Prepared
  <2>7. QED
    BY <2>3, <2>6
<1>21. ASSUME NEW p \in Procs, DeleteMeta(p) PROVE J'
  <2>1. PICK u \in todo[p], v \in Procs :
           sidecar' = sidecar \ {v} /\ Advance(p, u, v, TRUE)
    BY <1>21 DEF DeleteMeta
  <2>2. pc[p] \in Deleting /\ UNCHANGED <<job, view, picked, meta, row, late>>
    BY <1>21 DEF DeleteMeta, Deleting
  <2>3. PlansAreOwn' /\ \A q, b \in Procs : InPlan(q, b)' => InPlan(q, b)
    BY <2>1, <2>2, AdvanceOwn
  <2>4. Succeeded' = Succeeded
    BY <1>0, <2>1, <2>2, AdvanceLeaves DEF Succeeded, Deleting
  <2>5. ShownAreSettled' /\ DistinctTimes' /\ OnceShown'
    <3>1. \A q \in Procs : pc'[q] = "write" => pc[q] = "write"
      BY <1>0, <2>1, AdvanceLeaves
    <3>2. QED
      BY <1>0, <2>1, <2>2, <2>3, <2>4, <3>1 DEF SettleInv, ShownAreSettled, DistinctTimes,
         OnceShown, Prepared, TypeOK
  <2>6. QED
    BY <2>3, <2>5
<1>22. ASSUME NEW p \in Procs, DeleteFails(p) PROVE J'
  <2>1. PICK u \in todo[p], v \in Procs :
           sidecar' \subseteq sidecar /\ Advance(p, u, v, FALSE)
    BY <1>22 DEF DeleteFails, SidecarAfter
  <2>2. pc[p] \in Deleting /\ UNCHANGED <<job, view, picked, meta, row, late>>
    BY <1>22 DEF DeleteFails
  <2>3. PlansAreOwn' /\ \A q, b \in Procs : InPlan(q, b)' => InPlan(q, b)
    BY <2>1, <2>2, AdvanceOwn
  <2>4. Succeeded' = Succeeded
    BY <1>0, <2>1, <2>2, AdvanceLeaves DEF Succeeded, Deleting
  <2>5. ShownAreSettled' /\ DistinctTimes' /\ OnceShown'
    <3>1. \A q \in Procs : pc'[q] = "write" => pc[q] = "write"
      BY <1>0, <2>1, AdvanceLeaves
    <3>2. QED
      BY <1>0, <2>1, <2>2, <2>3, <2>4, <3>1 DEF SettleInv, ShownAreSettled, DistinctTimes,
         OnceShown, Prepared, TypeOK
  <2>6. QED
    BY <2>3, <2>5
<1>23. ASSUME NEW p \in Procs, ReadFails(p) PROVE J'
  BY <1>0, <1>23 DEF ReadFails, Exit, SettleInv, TypeOK, Stages, Prepared, Succeeded,
     Deleting, Reading, Running, Over, BasesAreOlder, Settled, InPlan, ShownAreSettled,
     DistinctTimes, OnceShown, PlansAreOwn
<1>24. ASSUME NEW p \in Procs, Crash(p) PROVE J'
  BY <1>0, <1>24 DEF Crash, SettleInv, TypeOK, Stages, Prepared, Succeeded,
     Deleting, Reading, Running, Over, BasesAreOlder, Settled, InPlan, ShownAreSettled,
     DistinctTimes, OnceShown, PlansAreOwn
<1>25. ASSUME NEW p \in Procs, ServerCompletes(p) PROVE J'
  BY <1>0, <1>25 DEF ServerCompletes, SettleInv, TypeOK, Stages, Prepared, Succeeded,
     Deleting, Reading, Running, Over, BasesAreOlder, Settled, InPlan, ShownAreSettled,
     DistinctTimes, OnceShown, PlansAreOwn
<1>26. ASSUME NEW p \in Procs, ServerFails(p) PROVE J'
  BY <1>0, <1>26 DEF ServerFails, SettleInv, TypeOK, Stages, Prepared, Succeeded,
     Deleting, Reading, Running, Over, BasesAreOlder, Settled, InPlan, ShownAreSettled,
     DistinctTimes, OnceShown, PlansAreOwn
<1>27. CASE ServerRestarts
  BY <1>0, <1>27 DEF ServerRestarts, SettleInv, TypeOK, Stages, Prepared, Succeeded,
     Deleting, Reading, Running, Over, BasesAreOlder, Settled, InPlan, ShownAreSettled,
     DistinctTimes, OnceShown, PlansAreOwn
<1>28. CASE Tick
  BY <1>0, <1>28 DEF Tick, SettleInv, TypeOK, Stages, Prepared, Succeeded,
     Deleting, Reading, Running, Over, BasesAreOlder, Settled, InPlan, ShownAreSettled,
     DistinctTimes, OnceShown, PlansAreOwn
<1>29. QED
  BY <1>0, <1>1, <1>2, <1>3, <1>4, <1>5, <1>6, <1>7, <1>8, <1>9, <1>10, <1>11, <1>12, <1>13, <1>14, <1>15, <1>16, <1>17, <1>18, <1>19, <1>20, <1>21, <1>22, <1>23, <1>24, <1>25, <1>26, <1>27, <1>28 DEF Next, SettleInv

LEMMA SettledAlways == Spec => []SettleInv
  BY SettleInit, SettleStep, PTL DEF Spec

(* The victim of a deletion is one backup, and it is settled.              *)
LEMMA VictimUnique ==
    ASSUME SettleInv, NEW p \in Procs,
           NEW u \in todo[p], NEW v \in Procs, Victim(p, u, v),
           NEW w \in todo[p], NEW x \in Procs, Victim(p, w, x)
    PROVE  u = w /\ v = x
<1>1. TypeOK /\ ShownAreSettled /\ DistinctTimes /\ PlansAreOwn
  BY DEF SettleInv, OrderInv
<1>2. u.last \in Procs /\ w.last \in Procs /\ u.before \subseteq Procs /\ w.before \subseteq Procs
  BY <1>1 DEF TypeOK, Unit
<1>3. \A b \in u.before \cup {u.last} \cup w.before \cup {w.last} :
         b \in Prepared /\ meta[b].ts \in Nat
  BY <1>1, <1>2 DEF ShownAreSettled, InPlan, Settled, Prepared, TypeOK
<1>4. u = w
  <2>1. meta[u.last].ts <= meta[w.last].ts /\ meta[w.last].ts <= meta[u.last].ts
    BY DEF Victim
  <2>2. u.last = w.last
    BY <1>1, <1>3, <2>1 DEF DistinctTimes
  <2>3. QED
    BY <1>1, <2>2 DEF PlansAreOwn
<1>5. CASE u.before = {}
  BY <1>4, <1>5 DEF Victim
<1>6. CASE u.before # {}
  <2>1. /\ v \in u.before /\ x \in u.before
        /\ Newer(meta, u.before, v) = {} /\ Newer(meta, u.before, x) = {}
    BY <1>4, <1>6 DEF Victim
  <2>2. ~ (meta[x].ts > meta[v].ts) /\ ~ (meta[v].ts > meta[x].ts)
    BY <2>1 DEF Newer
  <2>3. QED
    BY <1>1, <1>3, <1>4, <2>1, <2>2 DEF DistinctTimes
<1>7. QED
  BY <1>5, <1>6

LEMMA VictimInPlan ==
    ASSUME SettleInv, NEW p \in Procs, NEW u \in todo[p], NEW v \in Procs, Victim(p, u, v)
    PROVE  InPlan(p, v) /\ v \in Settled /\ (job[p] = "cleanup" => v \in picked[p])
<1>1. InPlan(p, v)
  BY DEF Victim, InPlan
<1>2. QED
  BY <1>1 DEF SettleInv, ShownAreSettled, PlansAreOwn

(***************************************************************************)
(* What a step does to the bucket, whatever it is: deleted objects of a    *)
(* settled backup do not come back, its objects change only as the victim  *)
(* of a deletion, a sidecar appears only by its own run or a late PUT, and *)
(* disappears only as the victim of a deletion that has found all data     *)
(* objects gone.                                                           *)
(***************************************************************************)
DataStaysDeleted == \A b \in Settled : data[b] = "none" => data'[b] = "none"
DataDamaged ==
    \A b \in Settled : data'[b] # data[b] =>
        \E p \in Procs : pc[p] \in Deleting /\ \E u \in todo[p] : Victim(p, u, b)
SidecarsWritten ==
    \A b \in Procs : b \in sidecar' =>
        b \in sidecar \cup late \/ (pc[b] = "write" /\ data'[b] = data[b])
SidecarsDeleted ==
    \A b \in sidecar \ sidecar' :
        \E p \in Procs : /\ pc[p] = "del_meta" /\ \E u \in todo[p] : Victim(p, u, b)
                         /\ \A q \in Procs \ {p} : pc'[q] = pc[q]
ReportedAreWritten == Succeeded' \subseteq Succeeded \cup sidecar'

LEMMA BucketEffects ==
    ASSUME SettleInv, [Next]_vars
    PROVE  DataStaysDeleted /\ DataDamaged /\ SidecarsWritten /\ SidecarsDeleted /\ ReportedAreWritten
<1>0. TypeOK /\ Stages
  BY DEF SettleInv, OrderInv
<1> DEFINE E == DataStaysDeleted /\ DataDamaged /\ SidecarsWritten /\ SidecarsDeleted /\ ReportedAreWritten
<1> USE DEF local, bucket, GoTo, Fault
<1>1. CASE UNCHANGED vars
  BY <1>0, <1>1 DEF vars, TypeOK, Stages, Prepared, Succeeded, Settled,
     DataStaysDeleted, DataDamaged, Deleting, SidecarsWritten, SidecarsDeleted, ReportedAreWritten
<1>2. ASSUME NEW p \in Procs, StartBackup(p) PROVE E
  BY <1>0, <1>2 DEF StartBackup, TypeOK, Stages, Prepared, Succeeded, Settled,
     DataStaysDeleted, DataDamaged, Deleting, SidecarsWritten, SidecarsDeleted, ReportedAreWritten
<1>3. ASSUME NEW p \in Procs, StartCleanup(p) PROVE E
  BY <1>0, <1>3 DEF StartCleanup, TypeOK, Stages, Prepared, Succeeded, Settled,
     DataStaysDeleted, DataDamaged, Deleting, SidecarsWritten, SidecarsDeleted, ReportedAreWritten
<1>4. ASSUME NEW p \in Procs, Guard(p) PROVE E
  BY <1>0, <1>4 DEF Guard, TypeOK, Stages, Prepared, Succeeded, Settled,
     DataStaysDeleted, DataDamaged, Deleting, SidecarsWritten, SidecarsDeleted, ReportedAreWritten
<1>5. ASSUME NEW p \in Procs, ListFulls(p) PROVE E
  BY <1>0, <1>5 DEF ListFulls, Listed, TypeOK, Stages, Prepared, Succeeded, Settled,
     DataStaysDeleted, DataDamaged, Deleting, SidecarsWritten, SidecarsDeleted, ReportedAreWritten
<1>6. ASSUME NEW p \in Procs, ListIncrementals(p) PROVE E
  BY <1>0, <1>6 DEF ListIncrementals, Listed, TypeOK, Stages, Prepared, Succeeded, Settled,
     DataStaysDeleted, DataDamaged, Deleting, SidecarsWritten, SidecarsDeleted, ReportedAreWritten
<1>7. ASSUME NEW p \in Procs, Decide(p) PROVE E
  BY <1>0, <1>7 DEF Decide, Now, DecideKind, TypeOK, Stages, Prepared, Succeeded, Settled,
     DataStaysDeleted, DataDamaged, Deleting, SidecarsWritten, SidecarsDeleted, ReportedAreWritten
<1>8. ASSUME NEW p \in Procs, Submit(p) PROVE E
  BY <1>0, <1>8 DEF Submit, ServerAccepts, ServerAnswers, TypeOK, Stages, Prepared, Succeeded, Settled,
     DataStaysDeleted, DataDamaged, Deleting, SidecarsWritten, SidecarsDeleted, ReportedAreWritten
<1>9. ASSUME NEW p \in Procs, SubmitFails(p) PROVE E
  BY <1>0, <1>9 DEF SubmitFails, ServerAccepts, ServerAnswers, TypeOK, Stages, Prepared, Succeeded, Settled,
     DataStaysDeleted, DataDamaged, Deleting, SidecarsWritten, SidecarsDeleted, ReportedAreWritten
<1>10. ASSUME NEW p \in Procs, PollCompleted(p) PROVE E
  BY <1>0, <1>10 DEF PollCompleted, Finished, TypeOK, Stages, Prepared, Succeeded, Settled,
     DataStaysDeleted, DataDamaged, Deleting, SidecarsWritten, SidecarsDeleted, ReportedAreWritten
<1>11. ASSUME NEW p \in Procs, PollFailed(p) PROVE E
  BY <1>0, <1>11 DEF PollFailed, TypeOK, Stages, Prepared, Succeeded, Settled,
     DataStaysDeleted, DataDamaged, Deleting, SidecarsWritten, SidecarsDeleted, ReportedAreWritten
<1>12. ASSUME NEW p \in Procs, PollGivesUp(p) PROVE E
  BY <1>0, <1>12 DEF PollGivesUp, TypeOK, Stages, Prepared, Succeeded, Settled,
     DataStaysDeleted, DataDamaged, Deleting, SidecarsWritten, SidecarsDeleted, ReportedAreWritten
<1>13. ASSUME NEW p \in Procs, PollLost(p) PROVE E
  BY <1>0, <1>13 DEF PollLost, Rollback, TypeOK, Stages, Prepared, Succeeded, Settled,
     DataStaysDeleted, DataDamaged, Deleting, SidecarsWritten, SidecarsDeleted, ReportedAreWritten
<1>14. ASSUME NEW p \in Procs, WriteMetadata(p) PROVE E
  BY <1>0, <1>14 DEF WriteMetadata, TypeOK, Stages, Prepared, Succeeded, Settled,
     DataStaysDeleted, DataDamaged, Deleting, SidecarsWritten, SidecarsDeleted, ReportedAreWritten
<1>15. ASSUME NEW p \in Procs, WriteMetadataFails(p) PROVE E
  BY <1>0, <1>15 DEF WriteMetadataFails, Rollback, TypeOK, Stages, Prepared, Succeeded, Settled,
     DataStaysDeleted, DataDamaged, Deleting, SidecarsWritten, SidecarsDeleted, ReportedAreWritten
<1>16. ASSUME NEW p \in Procs, LatePut(p) PROVE E
  BY <1>0, <1>16 DEF LatePut, TypeOK, Stages, Prepared, Succeeded, Settled,
     DataStaysDeleted, DataDamaged, Deleting, SidecarsWritten, SidecarsDeleted, ReportedAreWritten
<1>17. ASSUME NEW p \in Procs, Select(p) PROVE E
  BY <1>0, <1>17 DEF Select, AfterSelect, TypeOK, Stages, Prepared, Succeeded, Settled,
     DataStaysDeleted, DataDamaged, Deleting, SidecarsWritten, SidecarsDeleted, ReportedAreWritten
<1>18. ASSUME NEW p \in Procs, DeleteList(p) PROVE E
  BY <1>0, <1>18 DEF DeleteList, TypeOK, Stages, Prepared, Succeeded, Settled,
     DataStaysDeleted, DataDamaged, Deleting, SidecarsWritten, SidecarsDeleted, ReportedAreWritten
<1>19. ASSUME NEW p \in Procs, DeleteSome(p) PROVE E
  BY <1>0, <1>19 DEF DeleteSome, TypeOK, Stages, Prepared, Succeeded, Settled,
     DataStaysDeleted, DataDamaged, Deleting, SidecarsWritten, SidecarsDeleted, ReportedAreWritten
<1>20. ASSUME NEW p \in Procs, DeleteData(p) PROVE E
  BY <1>0, <1>20 DEF DeleteData, Advance, Exit, TypeOK, Stages, Prepared, Succeeded, Settled,
     DataStaysDeleted, DataDamaged, Deleting, SidecarsWritten, SidecarsDeleted, ReportedAreWritten
<1>21. ASSUME NEW p \in Procs, DeleteMeta(p) PROVE E
  BY <1>0, <1>21 DEF DeleteMeta, Advance, Exit, TypeOK, Stages, Prepared, Succeeded, Settled,
     DataStaysDeleted, DataDamaged, Deleting, SidecarsWritten, SidecarsDeleted, ReportedAreWritten
<1>22. ASSUME NEW p \in Procs, DeleteFails(p) PROVE E
  BY <1>0, <1>22 DEF DeleteFails, Advance, Exit, DataAfter, SidecarAfter, TypeOK, Stages, Prepared, Succeeded, Settled,
     DataStaysDeleted, DataDamaged, Deleting, SidecarsWritten, SidecarsDeleted, ReportedAreWritten
<1>23. ASSUME NEW p \in Procs, ReadFails(p) PROVE E
  BY <1>0, <1>23 DEF ReadFails, Exit, TypeOK, Stages, Prepared, Succeeded, Settled,
     DataStaysDeleted, DataDamaged, Deleting, SidecarsWritten, SidecarsDeleted, ReportedAreWritten
<1>24. ASSUME NEW p \in Procs, Crash(p) PROVE E
  BY <1>0, <1>24 DEF Crash, TypeOK, Stages, Prepared, Succeeded, Settled,
     DataStaysDeleted, DataDamaged, Deleting, SidecarsWritten, SidecarsDeleted, ReportedAreWritten
<1>25. ASSUME NEW p \in Procs, ServerCompletes(p) PROVE E
  BY <1>0, <1>25 DEF ServerCompletes, TypeOK, Stages, Prepared, Succeeded, Settled,
     DataStaysDeleted, DataDamaged, Deleting, SidecarsWritten, SidecarsDeleted, ReportedAreWritten
<1>26. ASSUME NEW p \in Procs, ServerFails(p) PROVE E
  BY <1>0, <1>26 DEF ServerFails, TypeOK, Stages, Prepared, Succeeded, Settled,
     DataStaysDeleted, DataDamaged, Deleting, SidecarsWritten, SidecarsDeleted, ReportedAreWritten
<1>27. CASE ServerRestarts
  BY <1>0, <1>27 DEF ServerRestarts, TypeOK, Stages, Prepared, Succeeded, Settled,
     DataStaysDeleted, DataDamaged, Deleting, SidecarsWritten, SidecarsDeleted, ReportedAreWritten
<1>28. CASE Tick
  BY <1>0, <1>28 DEF Tick, TypeOK, Stages, Prepared, Succeeded, Settled,
     DataStaysDeleted, DataDamaged, Deleting, SidecarsWritten, SidecarsDeleted, ReportedAreWritten
<1>29. QED
  BY <1>1, <1>2, <1>3, <1>4, <1>5, <1>6, <1>7, <1>8, <1>9, <1>10, <1>11, <1>12, <1>13, <1>14, <1>15, <1>16, <1>17, <1>18, <1>19, <1>20, <1>21, <1>22, <1>23, <1>24, <1>25, <1>26, <1>27, <1>28 DEF Next

(***************************************************************************)
(* Deletions.  The sidecar of a victim is deleted when no data object of   *)
(* it is left, and a sidecar that was not listed is not there.             *)
(***************************************************************************)
OnlyMissingData(p) ==
    \A u \in todo[p], v \in Procs : Victim(p, u, v) =>
        /\ pc[p] = "del_meta" => data[v] = "none"
        /\ pc[p] = "del_data" /\ job[p] = "cleanup" /\ ~held[p] => v \notin sidecar

(* What a cleanup selected is gone or still planned, unless a failure is   *)
(* noted for its report.                                                   *)
Accounted(p) ==
    /\ bad[p] => pc[p] \in Deleting
    /\ job[p] = "cleanup" /\ pc[p] \in Deleting \cup {"done"} /\ ~bad[p] /\ ~dirty[p] =>
         \A b \in picked[p] : Gone(b) \/ InPlan(p, b)

CleanupInv ==
    /\ SettleInv /\ NoInvisibleLeftovers
    /\ \A p \in Procs : OnlyMissingData(p) /\ Accounted(p)

LEMMA CleanupInit == Init => CleanupInv
  BY SettleInit DEF Init, CleanupInv, OnlyMissingData, Accounted, NoInvisibleLeftovers, Succeeded,
     NoMeta, Deleting

(* A step leaves alone what q does.                                        *)
Same(q) ==
    /\ pc'[q] = pc[q] /\ job'[q] = job[q] /\ todo'[q] = todo[q] /\ held'[q] = held[q]
    /\ bad'[q] = bad[q] /\ dirty'[q] = dirty[q] /\ picked'[q] = picked[q]

(* q is not in the middle of a deletion.                                   *)
Fresh(q) ==
    /\ pc[q] \notin {"del_data", "del_meta"} /\ ~bad[q]
    /\ pc[q] \in Deleting \cup {"done"} /\ job[q] = "cleanup" /\ ~dirty[q] =>
         \A b \in picked[q] : InPlan(q, b)

LEMMA GoneStays ==
    ASSUME SettleInv, DataStaysDeleted, SidecarsWritten, NEW p \in Procs, NEW b \in picked[p],
           Gone(b)
    PROVE  Gone(b)'
<1>1. b \in Settled /\ b \notin late /\ b \in Procs
  BY DEF SettleInv, ShownAreSettled, OnceShown, Settled, Prepared
<1>2. QED
  BY <1>1 DEF Gone, DataStaysDeleted, SidecarsWritten, Settled

LEMMA SameKeeps ==
    ASSUME SettleInv, Grows, DataStaysDeleted, SidecarsWritten,
           NEW q \in Procs, OnlyMissingData(q), Accounted(q), Same(q)
    PROVE  OnlyMissingData(q)' /\ Accounted(q)'
<1>1. TypeOK /\ ShownAreSettled /\ OnceShown /\ PlansAreOwn
  BY DEF SettleInv, OrderInv
<1>2. ASSUME NEW u \in todo'[q], NEW v \in Procs, Victim(q, u, v)'
      PROVE  u \in todo[q] /\ Victim(q, u, v)
  <2>1. todo'[q] = todo[q] /\ u \in todo[q] /\ u.before \subseteq Procs /\ u.last \in Procs
    BY <1>1 DEF Same, TypeOK, Unit
  <2>2. \A w \in todo[q] : meta'[w.last] = meta[w.last]
    BY <1>1 DEF ShownAreSettled, InPlan, Settled, Grows, TypeOK, Unit
  <2>3. \A b \in u.before : meta'[b] = meta[b]
    BY <1>1, <2>1 DEF ShownAreSettled, InPlan, Settled, Grows
  <2>4. \A w \in todo[q] : meta[w.last].ts <= meta[u.last].ts
    BY <1>2, <2>1, <2>2 DEF Victim
  <2>5. CASE u.before = {}
    BY <1>2, <2>1, <2>4, <2>5 DEF Victim
  <2>6. CASE u.before # {}
    <3>1. v \in u.before /\ Newer(meta', u.before, v) = {}
      BY <1>2, <2>6 DEF Victim, Newer
    <3>2. Newer(meta, u.before, v) = {}
      BY <2>3, <3>1 DEF Newer
    <3>3. QED
      BY <2>1, <2>4, <2>6, <3>1, <3>2 DEF Victim
  <2>7. QED
    BY <2>5, <2>6
<1>3. OnlyMissingData(q)'
  <2> SUFFICES ASSUME NEW u \in todo'[q], NEW v \in Procs, Victim(q, u, v)'
               PROVE  /\ pc'[q] = "del_meta" => data'[v] = "none"
                      /\ pc'[q] = "del_data" /\ job'[q] = "cleanup" /\ ~held'[q] => v \notin sidecar'
    BY DEF OnlyMissingData
  <2>1. u \in todo[q] /\ Victim(q, u, v)
    BY <1>2
  <2>2. v \in Settled /\ (job[q] = "cleanup" => v \in picked[q] /\ v \notin late)
    BY <1>1, <2>1, VictimInPlan DEF OnceShown
  <2>3. pc'[q] = "del_meta" => data'[v] = "none"
    BY <2>1, <2>2 DEF Same, OnlyMissingData, DataStaysDeleted
  <2>4. pc'[q] = "del_data" /\ job'[q] = "cleanup" /\ ~held'[q] => v \notin sidecar'
    BY <2>1, <2>2 DEF Same, OnlyMissingData, SidecarsWritten, Settled
  <2>5. QED
    BY <2>3, <2>4
<1>4. Accounted(q)'
  <2>1. ASSUME NEW b \in picked[q], Gone(b) PROVE Gone(b)'
    BY <2>1, GoneStays
  <2>2. \A b : InPlan(q, b) => InPlan(q, b)'
    BY DEF InPlan, Same
  <2>3. QED
    BY <2>1, <2>2 DEF Accounted, Same
<1>5. QED
  BY <1>3, <1>4

(* The steps that are not a deletion disturb no deletion, and leave their  *)
(* invocation before its first deletion or after the last.                 *)
LEMMA QuietSteps ==
    ASSUME CleanupInv, [Next]_vars,
           \A p \in Procs : ~DeleteList(p) /\ ~DeleteData(p) /\ ~DeleteMeta(p) /\ ~DeleteFails(p)
    PROVE  \A q \in Procs : Same(q) \/ Fresh(q)'
<1>0. /\ TypeOK /\ TypeOK' /\ Stages /\ PlansAreOwn
      /\ \A p \in Procs : bad[p] => pc[p] \in Deleting
  BY TypeStep DEF CleanupInv, SettleInv, OrderInv, Accounted
<1> DEFINE Q == \A q \in Procs : Same(q) \/ Fresh(q)'
<1> USE DEF local, bucket, GoTo, Fault
<1>1. CASE UNCHANGED vars
  BY <1>1 DEF vars, Same
<1>2. ASSUME NEW p \in Procs, StartBackup(p) PROVE Q
  BY <1>0, <1>2 DEF StartBackup, TypeOK, Stages, PlansAreOwn,
     Deleting, Reading, Running, Over, Same, Fresh
<1>3. ASSUME NEW p \in Procs, StartCleanup(p) PROVE Q
  BY <1>0, <1>3 DEF StartCleanup, TypeOK, Stages, PlansAreOwn,
     Deleting, Reading, Running, Over, Same, Fresh
<1>4. ASSUME NEW p \in Procs, Guard(p) PROVE Q
  BY <1>0, <1>4 DEF Guard, TypeOK, Stages, PlansAreOwn,
     Deleting, Reading, Running, Over, Same, Fresh
<1>5. ASSUME NEW p \in Procs, ListFulls(p) PROVE Q
  BY <1>0, <1>5 DEF ListFulls, Listed, TypeOK, Stages, PlansAreOwn,
     Deleting, Reading, Running, Over, Same, Fresh
<1>6. ASSUME NEW p \in Procs, ListIncrementals(p) PROVE Q
  BY <1>0, <1>6 DEF ListIncrementals, Listed, TypeOK, Stages, PlansAreOwn,
     Deleting, Reading, Running, Over, Same, Fresh
<1>7. ASSUME NEW p \in Procs, Decide(p) PROVE Q
  BY <1>0, <1>7 DEF Decide, Now, DecideKind, TypeOK, Stages, PlansAreOwn,
     Deleting, Reading, Running, Over, Same, Fresh
<1>8. ASSUME NEW p \in Procs, Submit(p) PROVE Q
  <2>1. pc' = [pc EXCEPT ![p] = "poll"] /\ UNCHANGED local /\ pc[p] = "submit"
    BY <1>8 DEF Submit
  <2>2. QED
    BY <1>0, <2>1 DEF TypeOK, PlansAreOwn, Deleting, Over, Same, Fresh
<1>9. ASSUME NEW p \in Procs, SubmitFails(p) PROVE Q
  BY <1>0, <1>9 DEF SubmitFails, ServerAccepts, ServerAnswers, TypeOK, Stages, PlansAreOwn,
     Deleting, Reading, Running, Over, Same, Fresh
<1>10. ASSUME NEW p \in Procs, PollCompleted(p) PROVE Q
  BY <1>0, <1>10 DEF PollCompleted, Finished, TypeOK, Stages, PlansAreOwn,
     Deleting, Reading, Running, Over, Same, Fresh
<1>11. ASSUME NEW p \in Procs, PollFailed(p) PROVE Q
  BY <1>0, <1>11 DEF PollFailed, TypeOK, Stages, PlansAreOwn,
     Deleting, Reading, Running, Over, Same, Fresh
<1>12. ASSUME NEW p \in Procs, PollGivesUp(p) PROVE Q
  BY <1>0, <1>12 DEF PollGivesUp, TypeOK, Stages, PlansAreOwn,
     Deleting, Reading, Running, Over, Same, Fresh
<1>13. ASSUME NEW p \in Procs, PollLost(p) PROVE Q
  BY <1>0, <1>13 DEF PollLost, Rollback, TypeOK, Stages, PlansAreOwn,
     Deleting, Reading, Running, Over, Same, Fresh
<1>14. ASSUME NEW p \in Procs, WriteMetadata(p) PROVE Q
  BY <1>0, <1>14 DEF WriteMetadata, TypeOK, Stages, PlansAreOwn,
     Deleting, Reading, Running, Over, Same, Fresh
<1>15. ASSUME NEW p \in Procs, WriteMetadataFails(p) PROVE Q
  BY <1>0, <1>15 DEF WriteMetadataFails, Rollback, TypeOK, Stages, PlansAreOwn,
     Deleting, Reading, Running, Over, Same, Fresh
<1>16. ASSUME NEW p \in Procs, LatePut(p) PROVE Q
  BY <1>0, <1>16 DEF LatePut, TypeOK, Stages, PlansAreOwn,
     Deleting, Reading, Running, Over, Same, Fresh
<1>17. ASSUME NEW p \in Procs, Select(p) PROVE Q
  <2>1. \A b \in picked'[p] : InPlan(p, b)'
    BY <1>17, SelectOwn DEF CleanupInv
  <2>2. /\ UNCHANGED <<job, bad, dirty, held>> /\ pc[p] = "select"
        /\ \E t : todo' = [todo EXCEPT ![p] = t]
        /\ \E s : picked' = [picked EXCEPT ![p] = s]
        /\ \E label \in {"done", "del_list"} : pc' = [pc EXCEPT ![p] = label]
    BY <1>17 DEF Select, AfterSelect
  <2>3. \A q \in Procs \ {p} : Same(q)
    BY <1>0, <2>2 DEF TypeOK, Same
  <2>4. Fresh(p)'
    BY <1>0, <2>1, <2>2 DEF TypeOK, Fresh, Deleting
  <2>5. QED
    BY <2>3, <2>4
<1>18. ASSUME NEW p \in Procs, DeleteSome(p) PROVE Q
  BY <1>0, <1>18 DEF DeleteSome, TypeOK, Stages, PlansAreOwn,
     Deleting, Reading, Running, Over, Same, Fresh
<1>19. ASSUME NEW p \in Procs, ReadFails(p) PROVE Q
  BY <1>0, <1>19 DEF ReadFails, Exit, TypeOK, Stages, PlansAreOwn,
     Deleting, Reading, Running, Over, Same, Fresh
<1>20. ASSUME NEW p \in Procs, Crash(p) PROVE Q
  <2>1. /\ pc' = [pc EXCEPT ![p] = "crashed"] /\ UNCHANGED <<job, dirty, picked>>
        /\ todo' = [todo EXCEPT ![p] = {}]
        /\ bad' = [bad EXCEPT ![p] = FALSE] /\ held' = [held EXCEPT ![p] = FALSE]
    BY <1>20 DEF Crash
  <2>2. \A q \in Procs \ {p} : Same(q)
    BY <1>0, <2>1 DEF TypeOK, Same
  <2>3. pc'[p] = "crashed" /\ ~bad'[p]
    BY <1>0, <2>1 DEF TypeOK
  <2>4. Fresh(p)'
    BY <2>3 DEF Fresh, Deleting
  <2>5. QED
    BY <2>2, <2>4
<1>21. ASSUME NEW p \in Procs, ServerCompletes(p) PROVE Q
  BY <1>0, <1>21 DEF ServerCompletes, TypeOK, Stages, PlansAreOwn,
     Deleting, Reading, Running, Over, Same, Fresh
<1>22. ASSUME NEW p \in Procs, ServerFails(p) PROVE Q
  BY <1>0, <1>22 DEF ServerFails, TypeOK, Stages, PlansAreOwn,
     Deleting, Reading, Running, Over, Same, Fresh
<1>23. CASE ServerRestarts
  BY <1>0, <1>23 DEF ServerRestarts, TypeOK, Stages, PlansAreOwn,
     Deleting, Reading, Running, Over, Same, Fresh
<1>24. CASE Tick
  BY <1>0, <1>24 DEF Tick, TypeOK, Stages, PlansAreOwn,
     Deleting, Reading, Running, Over, Same, Fresh
<1>25. QED
  BY <1>1, <1>2, <1>3, <1>4, <1>5, <1>6, <1>7, <1>8, <1>9, <1>10, <1>11, <1>12, <1>13, <1>14, <1>15, <1>16, <1>17, <1>18, <1>19, <1>20, <1>21, <1>22, <1>23, <1>24 DEF Next

(* A deletion of p that moves on: every other invocation keeps what it     *)
(* has, and p either deleted its victim or notes a failure.                *)
LEMMA AdvanceKeeps ==
    ASSUME CleanupInv, Grows, DataStaysDeleted, SidecarsWritten,
           NEW p \in Procs, pc[p] \in Deleting, UNCHANGED <<job, picked>>,
           NEW u \in todo[p], NEW v \in Procs, Victim(p, u, v),
           NEW complete \in BOOLEAN, Advance(p, u, v, complete),
           complete /\ job[p] = "cleanup" => Gone(v)'
    PROVE  \A q \in Procs : OnlyMissingData(q)' /\ Accounted(q)'
<1> DEFINE failures == bad[p] \/ ~complete
           rest     == [before |-> u.before \ {v}, last |-> u.last]
           unitOver == v = u.last \/ KeepsFull(u.before \ {v}, failures)
           todoLeft == (todo[p] \ {u}) \cup IF unitOver THEN {} ELSE {rest}
           report   == Report(p, unitOver, failures)
<1>1. SettleInv /\ TypeOK /\ PlansAreOwn /\ OnlyMissingData(p) /\ Accounted(p)
  BY DEF CleanupInv, SettleInv, OrderInv
<1>2. /\ todo' = [todo EXCEPT ![p] = todoLeft]
      /\ bad' = [bad EXCEPT ![p] = failures /\ ~unitOver]
      /\ dirty' = [dirty EXCEPT ![p] = report]
      /\ held' = [held EXCEPT ![p] = FALSE]
      /\ pc' = [pc EXCEPT ![p] = IF todoLeft # {} THEN "del_list" ELSE Exit(p, report)]
  BY DEF Advance, GoTo
<1>3. Exit(p, report) \in {"done", "failed"}
  BY DEF Exit
<1>4. /\ failures \in BOOLEAN /\ unitOver \in BOOLEAN /\ report \in BOOLEAN
      /\ failures /\ unitOver => report
      /\ ~report => ~dirty[p]
      /\ unitOver => v = u.last \/ failures
      /\ ~failures => ~bad[p] /\ complete
      /\ ~unitOver => rest \in todoLeft
      /\ \A w \in todo[p] : w # u => w \in todoLeft
  BY <1>1 DEF TypeOK, KeepsFull, Report
<1>5. rest.before = u.before \ {v} /\ rest.last = u.last
  OBVIOUS
<1> HIDE DEF failures, unitOver, todoLeft, report, rest
<1>6. /\ todo'[p] = todoLeft /\ dirty'[p] = report /\ bad'[p] = (failures /\ ~unitOver)
      /\ pc'[p] \in {"del_list", "done", "failed"}
      /\ todoLeft # {} => pc'[p] = "del_list"
  BY <1>1, <1>2, <1>3 DEF TypeOK
<1>7. ASSUME NEW q \in Procs \ {p} PROVE OnlyMissingData(q)' /\ Accounted(q)'
  <2>1. Same(q)
    BY <1>1, <1>2 DEF TypeOK, Same
  <2>2. QED
    BY <1>1, <2>1, SameKeeps DEF CleanupInv
<1>8. OnlyMissingData(p)'
  BY <1>6 DEF OnlyMissingData
<1>9. bad'[p] => pc'[p] \in Deleting
  BY <1>4, <1>6 DEF Deleting
<1>10. ASSUME job[p] = "cleanup", ~bad'[p], ~dirty'[p], NEW b \in picked[p]
       PROVE  Gone(b)' \/ InPlan(p, b)'
  <2>1. ~failures
    BY <1>4, <1>6, <1>10
  <2>2. /\ ~bad[p] /\ ~dirty[p] /\ Gone(v)'
        /\ unitOver => v = u.last
    BY <1>4, <1>6, <1>10, <2>1
  <2>3. Gone(b) \/ InPlan(p, b)
    BY <1>1, <1>10, <2>2 DEF Accounted
  <2>4. CASE Gone(b)
    BY <1>1, <2>4, GoneStays
  <2>5. CASE InPlan(p, b)
    <3>1. PICK w \in todo[p] : b \in w.before \cup {w.last}
      BY <2>5 DEF InPlan
    <3>2. CASE w # u
      BY <1>4, <1>6, <3>1, <3>2 DEF InPlan
    <3>3. CASE w = u /\ b # v
      <4>1. v = u.last => u.before = {}
        BY <1>1 DEF Victim, PlansAreOwn
      <4>2. ~unitOver /\ b \in rest.before \cup {rest.last}
        BY <1>5, <2>2, <3>1, <3>3, <4>1
      <4>3. QED
        BY <1>4, <1>6, <4>2 DEF InPlan
    <3>4. CASE b = v
      BY <2>2, <3>4
    <3>5. QED
      BY <3>2, <3>3, <3>4
  <2>6. QED
    BY <2>3, <2>4, <2>5
<1>11. Accounted(p)'
  BY <1>9, <1>10 DEF Accounted
<1>12. QED
  BY <1>7, <1>8, <1>11

LEMMA CleanupStep == CleanupInv /\ [Next]_vars => CleanupInv'
<1> SUFFICES ASSUME CleanupInv, [Next]_vars PROVE CleanupInv'
  OBVIOUS
<1>1. /\ SettleInv /\ SettleInv' /\ Grows /\ TypeOK
      /\ DataStaysDeleted /\ SidecarsWritten /\ SidecarsDeleted /\ ReportedAreWritten
  BY SettleStep, OrderStep, BucketEffects DEF CleanupInv, SettleInv, OrderInv
<1>2. NoInvisibleLeftovers'
  <2> SUFFICES ASSUME NEW b \in Succeeded', b \notin sidecar' PROVE data'[b] = "none"
    BY DEF NoInvisibleLeftovers
  <2>1. b \in Succeeded /\ b \in Settled
    BY <1>1 DEF ReportedAreWritten, SettleInv, ShownAreSettled
  <2>2. data[b] = "none"
    <3>1. CASE b \in sidecar
      <4>1. PICK p \in Procs : pc[p] = "del_meta" /\ \E u \in todo[p] : Victim(p, u, b)
        BY <1>1, <3>1 DEF SidecarsDeleted
      <4>2. QED
        BY <2>1, <4>1 DEF CleanupInv, OnlyMissingData, Settled, Prepared
    <3>2. CASE b \notin sidecar
      BY <2>1, <3>2 DEF CleanupInv, NoInvisibleLeftovers
    <3>3. QED
      BY <3>1, <3>2
  <2>3. QED
    BY <1>1, <2>1, <2>2 DEF DataStaysDeleted
<1> DEFINE A == \A q \in Procs : OnlyMissingData(q)' /\ Accounted(q)'
<1> USE DEF local, bucket, GoTo, Fault
<1>3. ASSUME NEW p \in Procs, DeleteList(p) PROVE A
  <2>1. PICK u \in todo[p], v \in Procs : Victim(p, u, v) /\ held' = [held EXCEPT ![p] = v \in sidecar]
    BY <1>3 DEF DeleteList
  <2>2. /\ pc[p] = "del_list" /\ pc' = [pc EXCEPT ![p] = "del_data"]
        /\ UNCHANGED <<job, todo, bad, dirty, picked, meta, bucket>>
    BY <1>3 DEF DeleteList
  <2>3. \A q \in Procs \ {p} : Same(q)
    BY <1>1, <2>1, <2>2 DEF TypeOK, Same
  <2>4. OnlyMissingData(p)'
    <3> SUFFICES ASSUME NEW w \in todo'[p], NEW x \in Procs, Victim(p, w, x)'
                 PROVE  /\ pc'[p] # "del_meta"
                        /\ ~held'[p] => x \notin sidecar'
      BY DEF OnlyMissingData
    <3>1. w \in todo[p] /\ Victim(p, w, x)
      BY <2>2 DEF Victim, Newer
    <3>2. x = v
      BY <1>1, <2>1, <3>1, VictimUnique
    <3>3. pc'[p] = "del_data" /\ held'[p] = (v \in sidecar)
      BY <1>1, <2>1, <2>2 DEF TypeOK
    <3>4. QED
      BY <2>2, <3>2, <3>3
  <2>5. Accounted(p)'
    <3>1. pc'[p] = "del_data"
      BY <1>1, <2>2 DEF TypeOK
    <3>2. \A b : InPlan(p, b) => InPlan(p, b)'
      BY <2>2 DEF InPlan
    <3>3. \A b : Gone(b) => Gone(b)'
      BY <2>2 DEF Gone
    <3>4. QED
      BY <2>2, <3>1, <3>2, <3>3 DEF CleanupInv, Accounted, Deleting
  <2>6. QED
    BY <1>1, <2>3, <2>4, <2>5, SameKeeps DEF CleanupInv
<1>4. ASSUME NEW p \in Procs, DeleteData(p) PROVE A
  <2>1. PICK u \in todo[p], v \in Procs :
           /\ Victim(p, u, v) /\ data' = [data EXCEPT ![v] = "none"]
           /\ IF held[p]
                THEN GoTo(p, "del_meta") /\ UNCHANGED <<todo, bad, dirty, held>>
                ELSE Advance(p, u, v, TRUE)
    BY <1>4 DEF DeleteData
  <2>2. pc[p] = "del_data" /\ UNCHANGED <<job, picked, meta, sidecar>>
    BY <1>4 DEF DeleteData
  <2>3. data'[v] = "none"
    BY <1>1, <2>1 DEF TypeOK
  <2>4. CASE ~held[p]
    <3>1. job[p] = "cleanup" => Gone(v)'
      BY <2>1, <2>2, <2>3, <2>4 DEF CleanupInv, OnlyMissingData, Gone
    <3>2. QED
      BY <1>1, <2>1, <2>2, <2>4, <3>1, AdvanceKeeps DEF Deleting
  <2>5. CASE held[p]
    <3>1. pc' = [pc EXCEPT ![p] = "del_meta"] /\ UNCHANGED <<todo, bad, dirty, held>>
      BY <2>1, <2>5
    <3>2. \A q \in Procs \ {p} : Same(q)
      BY <1>1, <2>2, <3>1 DEF TypeOK, Same
    <3>3. pc'[p] = "del_meta"
      BY <1>1, <3>1 DEF TypeOK
    <3>4. OnlyMissingData(p)'
      <4> SUFFICES ASSUME NEW w \in todo'[p], NEW x \in Procs, Victim(p, w, x)'
                   PROVE  data'[x] = "none"
        BY <3>3 DEF OnlyMissingData
      <4>1. w \in todo[p] /\ Victim(p, w, x)
        BY <2>2, <3>1 DEF Victim, Newer
      <4>2. x = v
        BY <1>1, <2>1, <4>1, VictimUnique
      <4>3. QED
        BY <2>3, <4>2
    <3>5. Accounted(p)'
      <4>1. \A b : InPlan(p, b) => InPlan(p, b)'
        BY <3>1 DEF InPlan
      <4>2. ASSUME NEW b \in picked[p], Gone(b) PROVE Gone(b)'
        BY <1>1, <4>2, GoneStays
      <4>3. QED
        BY <2>2, <3>1, <3>3, <4>1, <4>2 DEF CleanupInv, Accounted, Deleting
    <3>6. QED
      BY <1>1, <3>2, <3>4, <3>5, SameKeeps DEF CleanupInv
  <2>6. QED
    BY <2>4, <2>5
<1>5. ASSUME NEW p \in Procs, DeleteMeta(p) PROVE A
  <2>1. PICK u \in todo[p], v \in Procs :
           Victim(p, u, v) /\ sidecar' = sidecar \ {v} /\ Advance(p, u, v, TRUE)
    BY <1>5 DEF DeleteMeta
  <2>2. pc[p] = "del_meta" /\ UNCHANGED <<job, picked, meta, data>>
    BY <1>5 DEF DeleteMeta
  <2>3. Gone(v)'
    BY <2>1, <2>2 DEF CleanupInv, OnlyMissingData, Gone
  <2>4. QED
    BY <1>1, <2>1, <2>2, <2>3, AdvanceKeeps DEF Deleting
<1>6. ASSUME NEW p \in Procs, DeleteFails(p) PROVE A
  <2>1. PICK u \in todo[p], v \in Procs : Victim(p, u, v) /\ Advance(p, u, v, FALSE)
    BY <1>6 DEF DeleteFails
  <2>2. pc[p] \in Deleting /\ UNCHANGED <<job, picked, meta>>
    BY <1>6 DEF DeleteFails
  <2>3. QED
    BY <1>1, <2>1, <2>2, AdvanceKeeps
<1>7. ASSUME \A p \in Procs : /\ ~DeleteList(p) /\ ~DeleteData(p)
                              /\ ~DeleteMeta(p) /\ ~DeleteFails(p)
      PROVE  A
  <2>1. \A q \in Procs : Same(q) \/ Fresh(q)'
    BY <1>7, QuietSteps
  <2>2. ASSUME NEW q \in Procs, Fresh(q)' PROVE OnlyMissingData(q)' /\ Accounted(q)'
    BY <2>2 DEF Fresh, OnlyMissingData, Accounted
  <2>3. QED
    BY <1>1, <2>1, <2>2, SameKeeps DEF CleanupInv
<1>8. QED
  BY <1>1, <1>2, <1>3, <1>4, <1>5, <1>6, <1>7 DEF CleanupInv

(* A backup a run reported is visible, or no object of it is left: every   *)
(* deletion takes the sidecar last, whatever crashes, fails or overlaps.   *)
THEOREM NothingLeftInvisible == Spec => []NoInvisibleLeftovers
<1>1. CleanupInv => NoInvisibleLeftovers
  BY DEF CleanupInv
<1>2. QED
  BY CleanupInit, CleanupStep, <1>1, PTL DEF Spec

(* A cleanup that ends with no failure in its report has deleted every     *)
(* backup it selected, objects and sidecar, and none of them comes back.   *)
THEOREM CleanupHonest == Spec => []CleanupIsHonest
<1>1. CleanupInv => CleanupIsHonest
  <2> SUFFICES ASSUME CleanupInv, NEW p \in Procs, pc[p] = "done", ~dirty[p], NEW b \in picked[p]
               PROVE  Gone(b)
    BY DEF CleanupIsHonest
  <2>1. PlansAreOwn /\ Accounted(p)
    BY DEF CleanupInv, SettleInv
  <2>2. job[p] = "cleanup" /\ todo[p] = {} /\ ~bad[p]
    BY <2>1 DEF CleanupInv, SettleInv, OrderInv, TypeOK, PlansAreOwn, Accounted, Deleting
  <2>3. QED
    BY <2>1, <2>2 DEF Accounted, InPlan
<1>2. QED
  BY CleanupInit, CleanupStep, <1>1, PTL DEF Spec

(***************************************************************************)
(* Chains.  Every backup a run reported belongs to a chain of reported     *)
(* backups, and stays in that chain.                                       *)
(***************************************************************************)
ReportedRoot(b) == GroupChains(meta, Succeeded)[b]

BasesReported ==
    \A b \in Prepared : meta[b].kind = "incremental" => meta[b].base \in Succeeded

LEMMA ReportedTimed ==
    ASSUME OrderInv, NEW V, V \subseteq Succeeded
    PROVE  Timed(meta, V) /\ OlderBases(meta, V)
<1>1. IsFiniteSet(V) /\ V \subseteq Procs
  BY SucceededPrepared, FS_Subset DEF OrderInv, Succeeded
<1>2. QED
  BY <1>1, ProcsAssumption DEF OrderInv, TypeOK, BasesAreOlder, Timed, OlderBases, Incrementals

LEMMA ReportedKind ==
    ASSUME OrderInv, BasesReported, NEW b \in Succeeded
    PROVE  meta[b].kind = "full" \/ (meta[b].kind = "incremental" /\ meta[b].base \in Succeeded)
  BY DEF OrderInv, TypeOK, BasesReported, Succeeded, Prepared

LEMMA RootsResolve ==
    ASSUME OrderInv, BasesReported, NEW b \in Succeeded
    PROVE  /\ b \in DOMAIN GroupChains(meta, Succeeded)
           /\ ReportedRoot(b) \in Fulls(meta, Succeeded)
           /\ meta[b].kind = "full" => ReportedRoot(b) = b
           /\ meta[b].kind = "incremental" => ReportedRoot(b) = ReportedRoot(meta[b].base)
<1>1. Timed(meta, Succeeded) /\ OlderBases(meta, Succeeded)
  BY ReportedTimed
<1>2. ResolvesIn(meta, Succeeded, Incrementals(meta, Succeeded), GroupChains(meta, Succeeded))
  BY <1>1, ChainsResolved
<1>3. b \in DOMAIN GroupChains(meta, Succeeded)
  BY <1>1, ReportedKind, ClosedInChains
<1>4. QED
  BY <1>2, <1>3 DEF ResolvesIn, ReportedRoot, Fulls, Incrementals

LEMMA ViewRoots ==
    ASSUME OrderInv, NEW V, V \subseteq Succeeded, NEW x \in DOMAIN GroupChains(meta, V)
    PROVE  GroupChains(meta, V)[x] = ReportedRoot(x)
  BY ReportedTimed, ChainsAgree DEF ReportedRoot

LEMMA RootsStay ==
    ASSUME OrderInv, OrderInv', Grows, BasesReported, NEW b \in Succeeded
    PROVE  ReportedRoot(b)' = ReportedRoot(b)
<1>1. Timed(meta, Succeeded) /\ OlderBases(meta, Succeeded)
  BY ReportedTimed
<1>2. Timed(meta', Succeeded') /\ OlderBases(meta', Succeeded')
  <2>1. Succeeded' \subseteq Procs /\ IsFiniteSet(Succeeded')
    BY ProcsAssumption, FS_Subset DEF Succeeded
  <2>2. QED
    BY <2>1, ProcsAssumption DEF OrderInv, TypeOK, BasesAreOlder, Timed, OlderBases, Incrementals
<1>3. Succeeded \subseteq Succeeded' /\ \A c \in Succeeded : meta'[c] = meta[c]
  BY DEF Grows, Succeeded, Prepared
<1>4. b \in DOMAIN GroupChains(meta, Succeeded)
  BY RootsResolve
<1>5. GroupChains(meta', Succeeded')[b] = GroupChains(meta, Succeeded)[b]
  BY <1>1, <1>2, <1>3, <1>4, ChainsAgree
<1>6. QED
  BY <1>5 DEF ReportedRoot

(***************************************************************************)
(* What a step does to a cleanup's plan: it is kept, given up or finished, *)
(* made by Select, or carried on by one deletion.                          *)
(***************************************************************************)
KeepsPlan(q) ==
    /\ job[q] = "cleanup"
    /\ todo'[q] = todo[q] /\ bad'[q] = bad[q] /\ picked'[q] = picked[q]

Deletes(q, u, v, complete) ==
    /\ pc[q] \in Deleting /\ job[q] = "cleanup" /\ UNCHANGED <<job, picked, meta>>
    /\ Victim(q, u, v) /\ Advance(q, u, v, complete)
    /\ complete => v \notin sidecar'
    /\ complete \/ "delete" \in Faults

PlanMoves(q) ==
    \/ KeepsPlan(q) \/ todo'[q] = {} \/ Select(q)
    \/ \E u \in todo[q], v \in Procs, complete \in BOOLEAN : Deletes(q, u, v, complete)

PickedGrows(q) == picked[q] \subseteq picked'[q] /\ picked'[q] \subseteq picked[q] \cup view[q]

NewBase(b) ==
    b \in Prepared' =>
        b \in Prepared \/ (meta'[b].kind = "incremental" => meta'[b].base \in view[b])

LEMMA PlanEffects ==
    ASSUME CleanupInv, [Next]_vars
    PROVE  \A q \in Procs : /\ job'[q] = "cleanup" => PlanMoves(q)
                            /\ PickedGrows(q) /\ NewBase(q)
<1>0. SettleInv /\ TypeOK /\ Stages /\ PlansAreOwn
  BY DEF CleanupInv, SettleInv, OrderInv
<1> DEFINE M == \A q \in Procs : /\ job'[q] = "cleanup" => PlanMoves(q)
                                 /\ PickedGrows(q) /\ NewBase(q)
<1> USE DEF local, bucket, GoTo, Fault
<1>1. CASE UNCHANGED vars
  BY <1>0, <1>1 DEF vars, PlanMoves, KeepsPlan, PickedGrows, NewBase, Prepared
<1>2. ASSUME NEW p \in Procs, StartBackup(p) PROVE M
  BY <1>0, <1>2 DEF StartBackup, TypeOK, Stages, PlansAreOwn, Prepared,
     Deleting, Reading, Running, Over, PlanMoves, KeepsPlan, PickedGrows, NewBase
<1>3. ASSUME NEW p \in Procs, StartCleanup(p) PROVE M
  BY <1>0, <1>3 DEF StartCleanup, TypeOK, Stages, PlansAreOwn, Prepared,
     Deleting, Reading, Running, Over, PlanMoves, KeepsPlan, PickedGrows, NewBase
<1>4. ASSUME NEW p \in Procs, Guard(p) PROVE M
  BY <1>0, <1>4 DEF Guard, TypeOK, Stages, PlansAreOwn, Prepared,
     Deleting, Reading, Running, Over, PlanMoves, KeepsPlan, PickedGrows, NewBase
<1>5. ASSUME NEW p \in Procs, ListFulls(p) PROVE M
  BY <1>0, <1>5 DEF ListFulls, Listed, TypeOK, Stages, PlansAreOwn, Prepared,
     Deleting, Reading, Running, Over, PlanMoves, KeepsPlan, PickedGrows, NewBase
<1>6. ASSUME NEW p \in Procs, ListIncrementals(p) PROVE M
  BY <1>0, <1>6 DEF ListIncrementals, Listed, TypeOK, Stages, PlansAreOwn, Prepared,
     Deleting, Reading, Running, Over, PlanMoves, KeepsPlan, PickedGrows, NewBase
<1>7. ASSUME NEW p \in Procs, Decide(p) PROVE M
  BY <1>0, <1>7 DEF Decide, Now, DecideKind, TypeOK, Stages, PlansAreOwn, Prepared,
     Deleting, Reading, Running, Over, PlanMoves, KeepsPlan, PickedGrows, NewBase
<1>8. ASSUME NEW p \in Procs, Submit(p) PROVE M
  BY <1>0, <1>8 DEF Submit, ServerAccepts, ServerAnswers, TypeOK, Stages, PlansAreOwn, Prepared,
     Deleting, Reading, Running, Over, PlanMoves, KeepsPlan, PickedGrows, NewBase
<1>9. ASSUME NEW p \in Procs, SubmitFails(p) PROVE M
  BY <1>0, <1>9 DEF SubmitFails, ServerAccepts, ServerAnswers, TypeOK, Stages, PlansAreOwn, Prepared,
     Deleting, Reading, Running, Over, PlanMoves, KeepsPlan, PickedGrows, NewBase
<1>10. ASSUME NEW p \in Procs, PollCompleted(p) PROVE M
  BY <1>0, <1>10 DEF PollCompleted, Finished, TypeOK, Stages, PlansAreOwn, Prepared,
     Deleting, Reading, Running, Over, PlanMoves, KeepsPlan, PickedGrows, NewBase
<1>11. ASSUME NEW p \in Procs, PollFailed(p) PROVE M
  BY <1>0, <1>11 DEF PollFailed, TypeOK, Stages, PlansAreOwn, Prepared,
     Deleting, Reading, Running, Over, PlanMoves, KeepsPlan, PickedGrows, NewBase
<1>12. ASSUME NEW p \in Procs, PollGivesUp(p) PROVE M
  BY <1>0, <1>12 DEF PollGivesUp, TypeOK, Stages, PlansAreOwn, Prepared,
     Deleting, Reading, Running, Over, PlanMoves, KeepsPlan, PickedGrows, NewBase
<1>13. ASSUME NEW p \in Procs, PollLost(p) PROVE M
  BY <1>0, <1>13 DEF PollLost, Rollback, TypeOK, Stages, PlansAreOwn, Prepared,
     Deleting, Reading, Running, Over, PlanMoves, KeepsPlan, PickedGrows, NewBase
<1>14. ASSUME NEW p \in Procs, WriteMetadata(p) PROVE M
  BY <1>0, <1>14 DEF WriteMetadata, TypeOK, Stages, PlansAreOwn, Prepared,
     Deleting, Reading, Running, Over, PlanMoves, KeepsPlan, PickedGrows, NewBase
<1>15. ASSUME NEW p \in Procs, WriteMetadataFails(p) PROVE M
  BY <1>0, <1>15 DEF WriteMetadataFails, Rollback, TypeOK, Stages, PlansAreOwn, Prepared,
     Deleting, Reading, Running, Over, PlanMoves, KeepsPlan, PickedGrows, NewBase
<1>16. ASSUME NEW p \in Procs, LatePut(p) PROVE M
  BY <1>0, <1>16 DEF LatePut, TypeOK, Stages, PlansAreOwn, Prepared,
     Deleting, Reading, Running, Over, PlanMoves, KeepsPlan, PickedGrows, NewBase
<1>17. ASSUME NEW p \in Procs, Select(p) PROVE M
  <2>1. /\ \E t : todo' = [todo EXCEPT ![p] = t]
        /\ \E s : picked' = [picked EXCEPT ![p] = s]
        /\ pc[p] = "select" /\ UNCHANGED <<job, bad, meta>>
    BY <1>17 DEF Select
  <2>2. picked[p] = {} /\ picked'[p] \subseteq picked[p] \cup view[p]
    BY <1>0, <2>1, <1>17, SelectOwn DEF PlansAreOwn, Deleting, Over
  <2>3. \A q \in Procs : PickedGrows(q) /\ NewBase(q)
    BY <1>0, <2>1, <2>2 DEF TypeOK, PickedGrows, NewBase, Prepared
  <2>4. \A q \in Procs \ {p} : job'[q] = "cleanup" => KeepsPlan(q)
    BY <1>0, <2>1 DEF TypeOK, KeepsPlan
  <2>5. QED
    BY <2>3, <2>4, <1>17 DEF PlanMoves
<1>18. ASSUME NEW p \in Procs, DeleteList(p) PROVE M
  BY <1>0, <1>18 DEF DeleteList, TypeOK, Stages, PlansAreOwn, Prepared,
     Deleting, Reading, Running, Over, PlanMoves, KeepsPlan, PickedGrows, NewBase
<1>19. ASSUME NEW p \in Procs, DeleteSome(p) PROVE M
  BY <1>0, <1>19 DEF DeleteSome, TypeOK, Stages, PlansAreOwn, Prepared,
     Deleting, Reading, Running, Over, PlanMoves, KeepsPlan, PickedGrows, NewBase
<1>20. ASSUME NEW p \in Procs, DeleteData(p) PROVE M
  <2>1. PICK u \in todo[p], v \in Procs :
           /\ Victim(p, u, v)
           /\ IF held[p]
                THEN GoTo(p, "del_meta") /\ UNCHANGED <<todo, bad, dirty, held>>
                ELSE Advance(p, u, v, TRUE)
    BY <1>20 DEF DeleteData
  <2>2. pc[p] \in Deleting /\ pc[p] = "del_data" /\ UNCHANGED <<job, picked, meta, sidecar>>
    BY <1>20 DEF DeleteData, Deleting
  <2>3. job[p] = "cleanup" /\ ~held[p] => v \notin sidecar'
    BY <2>1, <2>2 DEF CleanupInv, OnlyMissingData
  <2>4. QED
    <3>1. \A q \in Procs \ {p} : todo'[q] = todo[q] /\ bad'[q] = bad[q]
      BY <1>0, <2>1 DEF Advance, TypeOK
    <3>2. \A q \in Procs : PickedGrows(q) /\ NewBase(q)
      BY <2>2 DEF PickedGrows, NewBase, Prepared
    <3>3. \A q \in Procs \ {p} : job'[q] = "cleanup" => PlanMoves(q)
      BY <2>2, <3>1 DEF PlanMoves, KeepsPlan
    <3>4. job'[p] = "cleanup" => PlanMoves(p)
      BY <2>1, <2>2, <2>3 DEF PlanMoves, KeepsPlan, Deletes
    <3>5. QED
      BY <3>2, <3>3, <3>4
<1>21. ASSUME NEW p \in Procs, DeleteMeta(p) PROVE M
  <2>1. PICK u \in todo[p], v \in Procs :
           Victim(p, u, v) /\ sidecar' = sidecar \ {v} /\ Advance(p, u, v, TRUE)
    BY <1>21 DEF DeleteMeta
  <2>2. pc[p] \in Deleting /\ UNCHANGED <<job, picked, meta>>
    BY <1>21 DEF DeleteMeta, Deleting
  <2>3. v \notin sidecar'
    BY <2>1
  <2>4. QED
    <3>1. \A q \in Procs \ {p} : todo'[q] = todo[q] /\ bad'[q] = bad[q]
      BY <1>0, <2>1 DEF Advance, TypeOK
    <3>2. \A q \in Procs : PickedGrows(q) /\ NewBase(q)
      BY <2>2 DEF PickedGrows, NewBase, Prepared
    <3>3. \A q \in Procs \ {p} : job'[q] = "cleanup" => PlanMoves(q)
      BY <2>2, <3>1 DEF PlanMoves, KeepsPlan
    <3>4. job'[p] = "cleanup" => PlanMoves(p)
      BY <2>1, <2>2, <2>3 DEF PlanMoves, KeepsPlan, Deletes
    <3>5. QED
      BY <3>2, <3>3, <3>4
<1>22. ASSUME NEW p \in Procs, DeleteFails(p) PROVE M
  <2>1. PICK u \in todo[p], v \in Procs : Victim(p, u, v) /\ Advance(p, u, v, FALSE)
    BY <1>22 DEF DeleteFails
  <2>2. pc[p] \in Deleting /\ UNCHANGED <<job, picked, meta>> /\ "delete" \in Faults
    BY <1>22 DEF DeleteFails
  <2>3. QED
    <3>1. \A q \in Procs \ {p} : todo'[q] = todo[q] /\ bad'[q] = bad[q]
      BY <1>0, <2>1 DEF Advance, TypeOK
    <3>2. \A q \in Procs : PickedGrows(q) /\ NewBase(q)
      BY <2>2 DEF PickedGrows, NewBase, Prepared
    <3>3. \A q \in Procs \ {p} : job'[q] = "cleanup" => PlanMoves(q)
      BY <2>2, <3>1 DEF PlanMoves, KeepsPlan
    <3>4. job'[p] = "cleanup" => PlanMoves(p)
      BY <2>1, <2>2 DEF PlanMoves, KeepsPlan, Deletes
    <3>5. QED
      BY <3>2, <3>3, <3>4
<1>23. ASSUME NEW p \in Procs, ReadFails(p) PROVE M
  BY <1>0, <1>23 DEF ReadFails, Exit, TypeOK, Stages, PlansAreOwn, Prepared,
     Deleting, Reading, Running, Over, PlanMoves, KeepsPlan, PickedGrows, NewBase
<1>24. ASSUME NEW p \in Procs, Crash(p) PROVE M
  <2>1. /\ todo' = [todo EXCEPT ![p] = {}] /\ bad' = [bad EXCEPT ![p] = FALSE]
        /\ UNCHANGED <<job, picked, meta>>
    BY <1>24 DEF Crash
  <2>2. \A q \in Procs : PickedGrows(q) /\ NewBase(q)
    BY <2>1 DEF PickedGrows, NewBase, Prepared
  <2>3. \A q \in Procs \ {p} : job'[q] = "cleanup" => KeepsPlan(q)
    BY <1>0, <2>1 DEF TypeOK, KeepsPlan
  <2>4. todo'[p] = {}
    BY <1>0, <2>1 DEF TypeOK
  <2>5. QED
    BY <2>2, <2>3, <2>4 DEF PlanMoves
<1>25. ASSUME NEW p \in Procs, ServerCompletes(p) PROVE M
  BY <1>0, <1>25 DEF ServerCompletes, TypeOK, Stages, PlansAreOwn, Prepared,
     Deleting, Reading, Running, Over, PlanMoves, KeepsPlan, PickedGrows, NewBase
<1>26. ASSUME NEW p \in Procs, ServerFails(p) PROVE M
  BY <1>0, <1>26 DEF ServerFails, TypeOK, Stages, PlansAreOwn, Prepared,
     Deleting, Reading, Running, Over, PlanMoves, KeepsPlan, PickedGrows, NewBase
<1>27. CASE ServerRestarts
  BY <1>0, <1>27 DEF ServerRestarts, TypeOK, Stages, PlansAreOwn, Prepared,
     Deleting, Reading, Running, Over, PlanMoves, KeepsPlan, PickedGrows, NewBase
<1>28. CASE Tick
  BY <1>0, <1>28 DEF Tick, TypeOK, Stages, PlansAreOwn, Prepared,
     Deleting, Reading, Running, Over, PlanMoves, KeepsPlan, PickedGrows, NewBase
<1>29. QED
  BY <1>1, <1>2, <1>3, <1>4, <1>5, <1>6, <1>7, <1>8, <1>9, <1>10, <1>11, <1>12, <1>13, <1>14, <1>15, <1>16, <1>17, <1>18, <1>19, <1>20, <1>21, <1>22, <1>23, <1>24, <1>25, <1>26, <1>27, <1>28 DEF Next

(***************************************************************************)
(* What a cleanup selected was reported, and its plan is made of chains:   *)
(* in each unit the full backup, after incrementals of its own chain.      *)
(***************************************************************************)
PickedReported == \A p \in Procs : picked[p] \subseteq Succeeded

ChainUnit(u) ==
    /\ u.last \in Fulls(meta, Succeeded)
    /\ \A b \in u.before : b \in Incrementals(meta, Succeeded) /\ ReportedRoot(b) = u.last

PlanRoots == \A p \in Procs : job[p] = "cleanup" => \A u \in todo[p] : ChainUnit(u)

(* The full backup of u is behind every visible incremental of its chain   *)
(* that p selected; after a failure it is not deleted while p is at u.     *)
Behind(p, u) ==
    \A b \in picked[p] :
        meta[b].kind = "incremental" /\ ReportedRoot(b) = u.last => b \in u.before \/ b \notin sidecar

Current(p, u) == \A w \in todo[p] : meta[w.last].ts <= meta[u.last].ts

FullsLast ==
    \A p \in Procs : job[p] = "cleanup" =>
        \A u \in todo[p] : Behind(p, u) \/ (bad[p] /\ u.before # {} /\ Current(p, u))

(* A chain is kept whole until its full backup has expired.                *)
ChainKept ==
    \A b \in Succeeded : Expired(ReportedRoot(b)) \/ (b \in sidecar /\ data[b] = "complete")

ChainInv ==
    /\ CleanupInv /\ RetainInv
    /\ BasesReported /\ PickedReported /\ PlanRoots /\ FullsLast /\ ChainKept
    /\ VisibleIsIntact

LEMMA ChainInit == Init => ChainInv
<1> SUFFICES ASSUME Init PROVE ChainInv
  OBVIOUS
<1>1. Succeeded = {} /\ Prepared = {}
  BY DEF Init, Succeeded, Prepared, NoMeta
<1>2. QED
  BY <1>1, CleanupInit, RetainInit DEF Init, ChainInv, BasesReported, PickedReported, PlanRoots,
     FullsLast, ChainKept, VisibleIsIntact

(* A deletion of a reported backup is a cleanup's, of an expired chain.    *)
LEMMA VictimExpired ==
    ASSUME ChainInv, NEW p \in Procs, pc[p] \in Deleting, NEW u \in todo[p],
           NEW v \in Succeeded, Victim(p, u, v)
    PROVE  v \in picked[p] /\ Expired(ReportedRoot(v))
<1>1. TypeOK /\ SettleInv /\ OrderInv /\ PlansAreSafe /\ v \in Procs
  BY DEF ChainInv, RetainInv, CleanupInv, OrderInv, Succeeded
<1>2. job[p] = "cleanup"
  <2>1. job[p] = "backup" => v = p
    BY <1>1, VictimSafe
  <2>2. QED
    BY <1>1, <2>1 DEF Succeeded, Deleting, TypeOK
<1>3. v \in picked[p]
  BY <1>1, <1>2, VictimInPlan
<1>4. ChainUnit(u) /\ Expired(u.last)
  BY <1>1, <1>2 DEF ChainInv, PlanRoots, PlansAreSafe
<1>5. ReportedRoot(v) = u.last
  <2>1. CASE v = u.last
    BY <1>1, <1>4, <2>1, RootsResolve DEF ChainInv, ChainUnit, Fulls
  <2>2. CASE v # u.last
    BY <1>4, <2>2 DEF Victim, ChainUnit
  <2>3. QED
    BY <2>1, <2>2
<1>6. QED
  BY <1>3, <1>4, <1>5

LEMMA SelectRoots ==
    ASSUME ChainInv, NEW p \in Procs, Select(p)
    PROVE  \A u \in todo'[p] :
              /\ ChainUnit(u)
              /\ \A b \in picked'[p] :
                    meta[b].kind = "incremental" /\ ReportedRoot(b) = u.last => b \in u.before
<1> DEFINE V == view[p]
           fulls == SelectForDeletion(meta, V, Keep, KeepDays, clock)
<1>1. TypeOK /\ OrderInv /\ V \subseteq Succeeded
  BY DEF ChainInv, RetainInv, OrderInv, ShownSucceeded
<1>2. /\ todo' = [todo EXCEPT ![p] = Units(V, fulls)]
      /\ picked' = [picked EXCEPT ![p] = UNION {Chain(meta, V, f) : f \in fulls}]
  BY DEF Select
<1>3. fulls \subseteq Fulls(meta, V)
  BY DEF SelectForDeletion
<1>4. ASSUME NEW f \in fulls, NEW b \in ChainIncrementals(meta, V, f)
      PROVE  b \in Incrementals(meta, Succeeded) /\ ReportedRoot(b) = f
  BY <1>1, <1>4, ViewRoots DEF ChainIncrementals, Incrementals
<1> HIDE DEF V, fulls
<1>5. SUFFICES ASSUME NEW f \in fulls
               PROVE  /\ ChainUnit([before |-> ChainIncrementals(meta, V, f), last |-> f])
                      /\ \A b \in picked'[p] :
                            meta[b].kind = "incremental" /\ ReportedRoot(b) = f
                               => b \in ChainIncrementals(meta, V, f)
  BY <1>1, <1>2 DEF Units, TypeOK
<1>6. f \in Fulls(meta, Succeeded)
  BY <1>1, <1>3 DEF Fulls
<1>7. ASSUME NEW b \in picked'[p], meta[b].kind = "incremental", ReportedRoot(b) = f
      PROVE  b \in ChainIncrementals(meta, V, f)
  <2>1. PICK g \in fulls : b \in Chain(meta, V, g)
    BY <1>1, <1>2 DEF TypeOK
  <2>2. b \in ChainIncrementals(meta, V, g)
    BY <1>3, <1>7, <2>1 DEF Chain, Fulls
  <2>3. QED
    BY <1>4, <1>7, <2>2
<1>8. QED
  BY <1>4, <1>6, <1>7 DEF ChainUnit

(* After a failure, what remains of a unit is more than its full backup.   *)
LEMMA AdvanceRest ==
    ASSUME SettleInv, NEW p \in Procs, NEW u \in todo[p], NEW v \in Procs,
           NEW complete \in BOOLEAN, Advance(p, u, v, complete),
           bad[p] \/ ~complete,
           [before |-> u.before \ {v}, last |-> u.last] \in todo'[p]
    PROVE  bad'[p] /\ u.before \ {v} # {}
<1> DEFINE rest     == [before |-> u.before \ {v}, last |-> u.last]
           unitOver == v = u.last \/ KeepsFull(u.before \ {v}, bad[p] \/ ~complete)
           todoLeft == (todo[p] \ {u}) \cup IF unitOver THEN {} ELSE {rest}
<1>1. TypeOK /\ PlansAreOwn
  BY DEF SettleInv, OrderInv
<1>2. /\ todo' = [todo EXCEPT ![p] = todoLeft]
      /\ bad' = [bad EXCEPT ![p] = (bad[p] \/ ~complete) /\ ~unitOver]
  BY DEF Advance
<1>3. rest \notin todo[p] \ {u} /\ rest \in todoLeft
  <2>1. rest.last = u.last
    OBVIOUS
  <2>2. todo'[p] = todoLeft
    BY <1>1, <1>2 DEF TypeOK
  <2> HIDE DEF rest, todoLeft
  <2>3. rest \notin todo[p] \ {u}
    BY <1>1, <2>1 DEF PlansAreOwn
  <2>4. QED
    BY <2>2, <2>3 DEF rest
<1>4. ~unitOver
  BY <1>3
<1>5. u.before \ {v} # {}
  BY <1>4 DEF KeepsFull
<1>6. bad'[p]
  <2> HIDE DEF unitOver, rest, todoLeft
  <2>1. QED
    BY <1>1, <1>2, <1>4 DEF TypeOK
<1>7. QED
  BY <1>5, <1>6

(* A deletion keeps the plan in chains, and their full backups behind.     *)
LEMMA DeletesChains ==
    ASSUME ChainInv, DistinctTimes,
           \A b \in Succeeded : ReportedRoot(b)' = ReportedRoot(b) /\ b \in Succeeded',
           NEW p \in Procs, \A b \in picked[p] : b \notin sidecar => b \notin sidecar',
           NEW u \in todo[p], NEW v \in Procs, NEW complete \in BOOLEAN, Deletes(p, u, v, complete),
           NEW w \in todo'[p]
    PROVE  /\ ChainUnit(w)'
           /\ Behind(p, w)' \/ (bad'[p] /\ w.before # {} /\ Current(p, w)')
<1> DEFINE rest == [before |-> u.before \ {v}, last |-> u.last]
<1>1. SettleInv /\ TypeOK /\ PlansAreOwn
  BY DEF ChainInv, CleanupInv, SettleInv, OrderInv
<1>2. /\ pc[p] \in Deleting /\ job[p] = "cleanup" /\ UNCHANGED <<job, picked, meta>>
      /\ Victim(p, u, v) /\ Advance(p, u, v, complete)
      /\ complete => v \notin sidecar'
  BY DEF Deletes
<1>3. \A x \in todo'[p] : x \in todo[p] \ {u} \/ x = rest
  BY <1>1, <1>2, AdvanceLeaves
<1>4. rest.before = u.before \ {v} /\ rest.last = u.last
  OBVIOUS
<1>5. ASSUME rest \in todo'[p], bad[p] \/ ~complete
      PROVE  bad'[p] /\ rest.before # {}
  BY <1>1, <1>2, <1>5, AdvanceRest
<1> HIDE DEF rest
<1>6. \A x \in todo[p] : ChainUnit(x) /\ x.last \in Prepared
  BY <1>2, SucceededPrepared, <1>1 DEF ChainInv, PlanRoots, ChainUnit, Fulls
<1>7. picked[p] \subseteq Succeeded
  BY DEF ChainInv, PickedReported
<1>8. ChainUnit(w)'
  <2>1. ChainUnit(w)
    BY <1>3, <1>4, <1>6 DEF ChainUnit
  <2>2. QED
    BY <1>2, <2>1 DEF ChainUnit, Fulls, Incrementals
<1>9. CASE w \in todo[p] \ {u}
  <2>1. ~Current(p, w)
    <3>1. w.last # u.last
      BY <1>1, <1>9 DEF PlansAreOwn
    <3>2. meta[w.last].ts <= meta[u.last].ts
      BY <1>2, <1>9 DEF Victim
    <3>3. meta[w.last].ts # meta[u.last].ts
      BY <1>6, <1>9, <3>1 DEF DistinctTimes
    <3>4. meta[w.last].ts \in Nat /\ meta[u.last].ts \in Nat
      BY <1>1, <1>6, <1>9 DEF TypeOK, Prepared
    <3>5. QED
      BY <3>2, <3>3, <3>4 DEF Current
  <2>2. Behind(p, w)
    BY <1>2, <1>9, <2>1 DEF ChainInv, FullsLast
  <2>3. Behind(p, w)'
    BY <1>2, <1>7, <2>2 DEF Behind
  <2>4. QED
    BY <1>8, <2>3
<1>10. CASE w = rest
  <2>1. CASE bad[p] \/ ~complete
    <3>1. bad'[p] /\ w.before # {}
      BY <1>5, <1>10, <2>1
    <3>2. \A x \in todo'[p] : meta[x.last].ts <= meta[u.last].ts
      BY <1>1, <1>2, <1>3, <1>4, <1>6 DEF Victim, TypeOK, Prepared
    <3>3. Current(p, w)'
      BY <1>2, <1>4, <1>10, <3>2 DEF Current
    <3>4. QED
      BY <1>8, <3>1, <3>3
  <2>2. CASE ~bad[p] /\ complete
    <3>1. Behind(p, u) /\ v \notin sidecar'
      BY <1>2, <2>2 DEF ChainInv, FullsLast
    <3>2. Behind(p, w)'
      <4> SUFFICES ASSUME NEW b \in picked[p], meta[b].kind = "incremental",
                          ReportedRoot(b) = u.last, b \notin w.before
                   PROVE  b \notin sidecar'
        BY <1>2, <1>4, <1>7, <1>10 DEF Behind
      <4>1. b \in u.before \/ b \notin sidecar
        BY <3>1 DEF Behind
      <4>2. b \in u.before => b = v
        BY <1>4, <1>10
      <4>3. QED
        BY <3>1, <4>1, <4>2
    <3>3. QED
      BY <1>8, <3>2
  <2>3. QED
    BY <2>1, <2>2
<1>11. QED
  BY <1>3, <1>9, <1>10

LEMMA ChainStep ==
    ASSUME "late" \notin Faults, ChainInv, [Next]_vars
    PROVE  ChainInv'
<1>1. /\ CleanupInv /\ CleanupInv' /\ RetainInv /\ RetainInv' /\ SettleInv /\ SettleInv'
      /\ OrderInv /\ OrderInv' /\ TypeOK /\ TypeOK' /\ Grows
  BY CleanupStep, RetainStep, OrderStep DEF ChainInv, CleanupInv, SettleInv, OrderInv
<1>2. DataDamaged /\ SidecarsWritten /\ SidecarsDeleted /\ ReportedAreWritten
  BY <1>1, BucketEffects
<1>3. \A q \in Procs : /\ job'[q] = "cleanup" => PlanMoves(q)
                       /\ PickedGrows(q) /\ NewBase(q)
  BY <1>1, PlanEffects
<1>4. /\ late = {} /\ sidecar \subseteq Succeeded
      /\ \A p \in Procs : view[p] \subseteq Succeeded /\ picked[p] \subseteq Succeeded
      /\ Succeeded \subseteq Settled /\ Succeeded \subseteq Prepared /\ Succeeded \subseteq Procs
      /\ \A b \in Succeeded : pc[b] # "write"
  BY <1>1, SucceededPrepared DEF RetainInv, ShownSucceeded, ChainInv, PickedReported, SettleInv,
     ShownAreSettled, Settled, Prepared
<1>5. \A b \in Succeeded : /\ b \in Succeeded' /\ meta'[b] = meta[b]
                           /\ ReportedRoot(b)' = ReportedRoot(b)
  BY <1>1, <1>4, RootsStay DEF Grows, ChainInv
<1>6. ASSUME NEW b \in Succeeded, b \notin sidecar PROVE b \notin sidecar'
  BY <1>2, <1>4, <1>6 DEF SidecarsWritten
<1>7. \A f : Expired(f) => Expired(f)'
  BY <1>1, ExpiredStays
<1>8. BasesReported'
  <2> SUFFICES ASSUME NEW b \in Prepared', meta'[b].kind = "incremental"
               PROVE  meta'[b].base \in Succeeded'
    BY DEF BasesReported
  <2>1. CASE b \in Prepared
    BY <1>1, <1>5, <2>1 DEF Grows, ChainInv, BasesReported
  <2>2. CASE b \notin Prepared
    <3>1. b \in Procs /\ meta'[b].base \in view[b]
      BY <1>3, <2>2 DEF NewBase, Prepared
    <3>2. QED
      BY <1>4, <1>5, <3>1
  <2>3. QED
    BY <2>1, <2>2
<1>9. PickedReported'
  BY <1>3, <1>4, <1>5 DEF PickedReported, PickedGrows
<1>10. ASSUME NEW b \in sidecar', b \notin sidecar PROVE data'[b] = "complete"
  BY <1>1, <1>2, <1>4, <1>10 DEF SidecarsWritten, RetainInv, WrittenAreComplete, TypeOK
<1>11. ASSUME NEW b \in sidecar, data[b] = "complete", b \notin sidecar' \/ data'[b] # "complete"
       PROVE  /\ \E p \in Procs : b \in picked[p] /\ b \in picked'[p]
              /\ Expired(ReportedRoot(b))
  <2>1. PICK p \in Procs : pc[p] \in Deleting /\ \E u \in todo[p] : Victim(p, u, b)
    BY <1>2, <1>4, <1>11 DEF DataDamaged, SidecarsDeleted, Deleting
  <2>2. b \in picked[p] /\ Expired(ReportedRoot(b))
    BY <1>4, <2>1, VictimExpired
  <2>3. QED
    BY <1>3, <2>2 DEF PickedGrows
<1>12. VisibleIsIntact'
  <2> SUFFICES ASSUME NEW b \in sidecar'
               PROVE  data'[b] = "complete" \/ \E p \in Procs : b \in picked'[p]
    BY DEF VisibleIsIntact
  <2>1. CASE b \notin sidecar
    BY <1>10, <2>1
  <2>2. CASE b \in sidecar /\ data[b] = "complete"
    BY <1>11, <2>2
  <2>3. CASE b \in sidecar /\ \E p \in Procs : b \in picked[p]
    BY <1>3, <2>3 DEF PickedGrows
  <2>4. QED
    BY <2>1, <2>2, <2>3 DEF ChainInv, VisibleIsIntact
<1>13. ChainKept'
  <2> SUFFICES ASSUME NEW b \in Succeeded', ~Expired(ReportedRoot(b))'
               PROVE  b \in sidecar' /\ data'[b] = "complete"
    BY DEF ChainKept
  <2>1. CASE b \in Succeeded
    <3>1. ~Expired(ReportedRoot(b))
      <4>1. PICK r : r = ReportedRoot(b) /\ r = ReportedRoot(b)'
        BY <1>5, <2>1
      <4>2. ~Expired(r)'
        BY <4>1 DEF Expired
      <4>3. QED
        BY <1>7, <4>1, <4>2
    <3>2. b \in sidecar /\ data[b] = "complete"
      BY <2>1, <3>1 DEF ChainInv, ChainKept
    <3>3. QED
      BY <1>11, <3>1, <3>2
  <2>2. CASE b \notin Succeeded
    BY <1>2, <1>4, <1>10, <2>2 DEF ReportedAreWritten
  <2>3. QED
    BY <2>1, <2>2
<1>14. ASSUME NEW p \in Procs, job'[p] = "cleanup", NEW w \in todo'[p]
       PROVE  /\ ChainUnit(w)'
              /\ Behind(p, w)' \/ (bad'[p] /\ w.before # {} /\ Current(p, w)')
  <2>1. CASE KeepsPlan(p)
    <3>1. /\ w \in todo[p] /\ todo'[p] = todo[p] /\ bad'[p] = bad[p] /\ picked'[p] = picked[p]
          /\ ChainUnit(w) /\ (Behind(p, w) \/ (bad[p] /\ w.before # {} /\ Current(p, w)))
          /\ \A x \in todo[p] : x.last \in Succeeded
      BY <1>14, <2>1 DEF KeepsPlan, ChainInv, PlanRoots, FullsLast, ChainUnit, Fulls
    <3>2. ChainUnit(w)'
      BY <1>5, <3>1 DEF ChainUnit, Fulls, Incrementals
    <3>3. Behind(p, w) => Behind(p, w)'
      BY <1>4, <1>5, <1>6, <3>1 DEF Behind
    <3>4. Current(p, w) => Current(p, w)'
      BY <1>5, <3>1 DEF Current
    <3>5. QED
      BY <3>1, <3>2, <3>3, <3>4
  <2>2. CASE Select(p)
    <3>1. /\ ChainUnit(w)
          /\ \A b \in picked'[p] :
                meta[b].kind = "incremental" /\ ReportedRoot(b) = w.last => b \in w.before
      BY <2>2, SelectRoots
    <3>2. picked'[p] \subseteq Succeeded
      BY <1>3, <1>4 DEF PickedGrows
    <3>3. ChainUnit(w)'
      BY <1>5, <3>1 DEF ChainUnit, Fulls, Incrementals
    <3>4. Behind(p, w)'
      BY <1>5, <3>1, <3>2 DEF Behind
    <3>5. QED
      BY <3>3, <3>4
  <2>3. ASSUME NEW u \in todo[p], NEW v \in Procs, NEW complete \in BOOLEAN,
               Deletes(p, u, v, complete)
        PROVE  /\ ChainUnit(w)'
               /\ Behind(p, w)' \/ (bad'[p] /\ w.before # {} /\ Current(p, w)')
    <3>1. DistinctTimes
      BY <1>1 DEF SettleInv
    <3>2. \A b \in picked[p] : b \notin sidecar => b \notin sidecar'
      BY <1>4, <1>6
    <3>3. QED
      BY <1>5, <2>3, <3>1, <3>2, DeletesChains
  <2>4. QED
    BY <1>3, <1>14, <2>1, <2>2, <2>3 DEF PlanMoves
<1>15. PlanRoots' /\ FullsLast'
  BY <1>14 DEF PlanRoots, FullsLast
<1>16. QED
  BY <1>1, <1>8, <1>9, <1>12, <1>13, <1>15 DEF ChainInv

(* When no PUT is applied after its run gave up, a backup discovery shows  *)
(* has all its objects unless a cleanup selected it: no rollback, lost     *)
(* backup or race of two cleanups leaves a sidecar over missing data.      *)
THEOREM VisibleIntact ==
    ASSUME "late" \notin Faults
    PROVE  Spec => []VisibleIsIntact
<1>1. ChainInv => VisibleIsIntact
  BY DEF ChainInv
<1>2. ChainInv /\ [Next]_vars => ChainInv'
  BY ChainStep
<1>3. QED
  BY ChainInit, <1>1, <1>2, PTL DEF Spec

(* Retention keeps whole chains: every backup a run reported, in a chain   *)
(* with fewer than keep_full_backups newer ones, is visible and restorable *)
(* with all its bases, whatever overlaps, crashes or fails to delete.      *)
THEOREM ChainsRetained ==
    ASSUME "late" \notin Faults
    PROVE  Spec => []RetentionKept
<1>1. ChainInv => RetentionKept
  <2> SUFFICES ASSUME ChainInv PROVE RetentionKept
    OBVIOUS
  <2>1. OrderInv /\ TypeOK /\ BasesReported /\ ChainKept
    BY DEF ChainInv, RetainInv, OrderInv
  <2>2. \A b \in Succeeded : b \in DOMAIN GroupChains(meta, Succeeded)
    BY <2>1, RootsResolve
  <2>3. ASSUME NEW b \in Succeeded,
               Cardinality(Newer(meta, Fulls(meta, Succeeded), ReportedRoot(b))) < Keep
        PROVE  b \in RestorePoints
    <3> DEFINE intact == {c \in sidecar : data[c] = "complete"}
               chain  == {c \in Succeeded : ReportedRoot(c) = ReportedRoot(b)}
    <3>1. ~Expired(ReportedRoot(b))
      <4>1. Cardinality(Newer(meta, Fulls(meta, Succeeded), ReportedRoot(b))) \in Nat
        BY <2>1, NewerFinite, FS_CardinalityType
      <4>2. QED
        BY <2>3, <4>1, KeepAssumption DEF Expired
    <3>2. chain \subseteq intact
      BY <2>1, <3>1 DEF ChainKept
    <3>3. intact \subseteq Succeeded
      BY DEF ChainInv, RetainInv, ShownSucceeded
    <3>4. Timed(meta, intact) /\ OlderBases(meta, intact)
      BY <2>1, <3>3, ReportedTimed
    <3>5. \A c \in chain : meta[c].kind = "full" \/ (meta[c].kind = "incremental" /\ meta[c].base \in chain)
      BY <2>1, RootsResolve, ReportedKind
    <3>6. chain \subseteq DOMAIN GroupChains(meta, intact)
      <4> HIDE DEF intact, chain
      <4>1. QED
        BY <3>2, <3>4, <3>5, ClosedInChains
    <3>7. QED
      BY <3>6 DEF RestorePoints
  <2>4. QED
    BY <2>2, <2>3 DEF RetentionKept, ReportedRoot
<1>2. ChainInv /\ [Next]_vars => ChainInv'
  BY ChainStep
<1>3. QED
  BY ChainInit, <1>1, <1>2, PTL DEF Spec

(* A cleanup removes a chain's full backup only after every incremental it *)
(* selected with it is gone, even when deletions fail or several cleanups  *)
(* delete the same chain.                                                  *)
THEOREM FullsGoLast ==
    ASSUME "late" \notin Faults
    PROVE  Spec => FullGoesLast
<1> DEFINE FullStep ==
             \A p \in Procs : \A f \in Fulls(meta, picked[p]) :
                pc'[p] # pc[p] /\ f \in sidecar /\ f \notin sidecar'
                   => \A b \in picked[p] :
                         b \in ChainIncrementals(meta, Succeeded, f) => b \notin sidecar'
<1>1. ChainInv /\ [Next]_vars => FullStep
  <2> SUFFICES ASSUME ChainInv, [Next]_vars,
                      NEW p \in Procs, NEW f \in Fulls(meta, picked[p]),
                      pc'[p] # pc[p], f \in sidecar, f \notin sidecar',
                      NEW b \in picked[p], b \in ChainIncrementals(meta, Succeeded, f)
               PROVE  b \notin sidecar'
    OBVIOUS
  <2>1. /\ SettleInv /\ TypeOK /\ PlansAreOwn /\ SidecarsDeleted /\ SidecarsWritten
        /\ late = {} /\ b \in Settled
    BY BucketEffects DEF ChainInv, RetainInv, ShownSucceeded, CleanupInv, SettleInv, OrderInv,
       ShownAreSettled
  <2>2. pc[p] = "del_meta" /\ \E u \in todo[p] : Victim(p, u, f)
    BY <2>1 DEF SidecarsDeleted
  <2>3. PICK u \in todo[p] : Victim(p, u, f)
    BY <2>2
  <2>4. job[p] = "cleanup"
    BY <2>1 DEF PlansAreOwn, Fulls, TypeOK
  <2>5. ChainUnit(u) /\ (Behind(p, u) \/ u.before # {})
    BY <2>4 DEF ChainInv, PlanRoots, FullsLast
  <2>6. f \notin u.before
    BY <2>5 DEF ChainUnit, Incrementals, Fulls
  <2>7. u.before = {} /\ f = u.last
    BY <2>3, <2>6 DEF Victim
  <2>8. meta[b].kind = "incremental" /\ ReportedRoot(b) = f
    BY DEF ChainIncrementals, Incrementals, ReportedRoot
  <2>9. b \notin sidecar
    BY <2>5, <2>7, <2>8 DEF Behind
  <2>10. QED
    BY <2>1, <2>9 DEF SidecarsWritten, Settled, Prepared
<1>2. ChainInv /\ [Next]_vars => ChainInv'
  BY ChainStep
<1>3. Spec => [][FullStep]_vars
  BY ChainInit, <1>1, <1>2, PTL DEF Spec
<1>4. QED
  BY <1>3 DEF FullGoesLast
====
