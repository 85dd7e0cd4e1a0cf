------------------------------- MODULE Vault --------------------------------
(***************************************************************************)
(* Concurrent invocations of `clickvault backup' and `clickvault cleanup'  *)
(* over one bucket and one ClickHouse server: the guard, discovery, the    *)
(* decision, the submit, the poll, the metadata sidecar, the rollback, and *)
(* retention cleanup, alone or after a successful backup.                  *)
(*                                                                         *)
(* A process is one invocation of the program and takes at most one        *)
(* backup, so the process also stands for that backup's path, its          *)
(* system.backups row and its objects.                                     *)
(***************************************************************************)
EXTENDS BackupChains

CONSTANTS
    Procs,        \* the invocations, and the paths of their backups
    NoPath,       \* base_backup_path of a full backup
    Keep,         \* retention.keep_full_backups
    KeepDays,     \* retention.keep_days, 0 when unset
    Interval,     \* schedule.full_backup_interval_days
    AutoCleanup,  \* retention.auto_cleanup
    Forced,       \* the values --force takes: {FALSE} or BOOLEAN
    Faults,       \* the classes of fault that may happen
    MaxFaults,    \* bound: how many faults happen
    MaxActive,    \* bound: how many invocations overlap
    MaxTime       \* bound: the last instant of the clock

FaultClasses ==
    {"crash",    \* the process dies
     "error",    \* a read (guard query, listing, sidecar) fails the run
     "skip",     \* lenient discovery cannot read one sidecar and skips it
     "submit",   \* the BACKUP request fails without telling whether it started
     "poll",     \* polling times out or fails
     "server",   \* the server's BACKUP fails
     "restart",  \* the server restarts and forgets its backups
     "put",      \* writing the sidecar fails after its retries
     "late",     \* ... and a PUT that was given up on is applied afterwards
     "delete"}   \* a deletion leaves objects behind

ASSUME ProcsAssumption == IsFiniteSet(Procs) /\ NoPath \notin Procs
ASSUME KeepAssumption == Keep \in Nat \ {0}  \* Config::validate
ASSUME BoundsAssumption ==
    /\ KeepDays \in Nat /\ Interval \in Nat /\ AutoCleanup \in BOOLEAN
    /\ Forced \subseteq BOOLEAN
    /\ Faults \subseteq FaultClasses
    /\ MaxFaults \in Nat /\ MaxActive \in Nat /\ MaxTime \in Nat

VARIABLES
    pc,       \* where each invocation is
    job,      \* "backup" or "cleanup": what it is executing
    view,     \* the paths its discovery has read so far
    todo,     \* what it still deletes: records [before, last], see Victim
    bad,      \* chain_failures > 0 for the chain being deleted
    dirty,    \* its cleanup report has failures
    held,     \* delete_prefix listed a sidecar under the current path
    picked,   \* history: the paths its cleanup selected
    meta,     \* the metadata of each backup, fixed when it is prepared
    row,      \* its status in system.backups
    data,     \* its data objects in the bucket
    sidecar,  \* the paths that have a sidecar in the bucket
    late,     \* its sidecar PUT is still in flight after the run gave up
    clock,
    faults    \* how many faults have happened

local == <<job, view, todo, bad, dirty, held, picked>>
bucket == <<data, sidecar, late>>
vars == <<pc, local, meta, row, bucket, clock, faults>>

NoMeta == [kind |-> "none", ts |-> 0, base |-> NoPath]
Reading == {"guard", "fulls", "incrementals"}
Deleting == {"del_list", "del_data", "del_meta"}
Running == Reading \cup Deleting \cup {"decide", "submit", "poll", "write", "select"}
Over == {"done", "failed", "crashed"}

(* One deletion unit: the paths of `before' newest first, then `last'.     *)
Unit == [before : SUBSET Procs, last : Procs]

TypeOK ==
    /\ pc \in [Procs -> {"idle"} \cup Running \cup Over]
    /\ job \in [Procs -> {"backup", "cleanup"}]
    /\ view \in [Procs -> SUBSET Procs]
    /\ todo \in [Procs -> SUBSET Unit]
    /\ \A p \in Procs : pc[p] \in Deleting => todo[p] # {}
    /\ bad \in [Procs -> BOOLEAN]
    /\ dirty \in [Procs -> BOOLEAN]
    /\ held \in [Procs -> BOOLEAN]
    /\ picked \in [Procs -> SUBSET Procs]
    /\ meta \in [Procs -> [kind : {"none", "full", "incremental"}, ts : Nat,
                           base : Procs \cup {NoPath}]]
    /\ row \in [Procs -> {"none", "creating", "created", "failed"}]
    /\ data \in [Procs -> {"none", "partial", "complete"}]
    /\ sidecar \subseteq Procs
    /\ late \subseteq Procs
    /\ clock \in Nat
    /\ faults \in Nat

Init ==
    /\ pc = [p \in Procs |-> "idle"]
    /\ job = [p \in Procs |-> "backup"]
    /\ view = [p \in Procs |-> {}]
    /\ todo = [p \in Procs |-> {}]
    /\ bad = [p \in Procs |-> FALSE]
    /\ dirty = [p \in Procs |-> FALSE]
    /\ held = [p \in Procs |-> FALSE]
    /\ picked = [p \in Procs |-> {}]
    /\ meta = [p \in Procs |-> NoMeta]
    /\ row = [p \in Procs |-> "none"]
    /\ data = [p \in Procs |-> "none"]
    /\ sidecar = {}
    /\ late = {}
    /\ clock = 1
    /\ faults = 0

Fault(class) == class \in Faults /\ faults < MaxFaults /\ faults' = faults + 1
NoFault == UNCHANGED faults

GoTo(p, label) == pc' = [pc EXCEPT ![p] = label]

(***************************************************************************)
(* Backup runs                                                             *)
(***************************************************************************)
Active == {p \in Procs : pc[p] \in Running}

(* main: the backup and the cleanup command.                               *)
StartBackup(p) ==
    /\ pc[p] = "idle" /\ Cardinality(Active) < MaxActive
    /\ GoTo(p, "guard")
    /\ UNCHANGED <<local, meta, row, bucket, clock, faults>>

StartCleanup(p) ==
    /\ pc[p] = "idle" /\ Cardinality(Active) < MaxActive
    /\ job' = [job EXCEPT ![p] = "cleanup"]
    /\ GoTo(p, "fulls")
    /\ UNCHANGED <<view, todo, bad, dirty, held, picked, meta, row, bucket, clock, faults>>

InProgress == {q \in Procs : row[q] = "creating"}

(* check_no_backup_in_progress; --force skips it.                          *)
Guard(p) ==
    /\ pc[p] = "guard"
    /\ \E force \in Forced :
          GoTo(p, IF force \/ InProgress = {} THEN "fulls" ELSE "failed")
    /\ UNCHANGED <<local, meta, row, bucket, clock, faults>>

(* What one lenient or strict listing returns of the sidecars in S.  Only  *)
(* lenient discovery, the backup's, skips a sidecar it cannot read.        *)
Listed(p, S, read) ==
    \/ read = S /\ NoFault
    \/ /\ job[p] = "backup" /\ Fault("skip")
       /\ \E b \in S : read = S \ {b}

(* discover_chains_with, first listing: the full backups.                  *)
ListFulls(p) ==
    /\ pc[p] = "fulls"
    /\ \E read \in SUBSET sidecar :
          /\ Listed(p, Fulls(meta, sidecar), read)
          /\ view' = [view EXCEPT ![p] = read]
    /\ GoTo(p, "incrementals")
    /\ UNCHANGED <<job, todo, bad, dirty, held, picked, meta, row, bucket, clock>>

(* discover_chains_with, second listing: the incrementals.                 *)
ListIncrementals(p) ==
    /\ pc[p] = "incrementals"
    /\ \E read \in SUBSET sidecar :
          /\ Listed(p, Incrementals(meta, sidecar), read)
          /\ view' = [view EXCEPT ![p] = @ \cup read]
    /\ GoTo(p, IF job[p] = "backup" THEN "decide" ELSE "select")
    /\ UNCHANGED <<job, todo, bad, dirty, held, picked, meta, row, bucket, clock>>

(* Utc::now() in execute_backup, after discovery.                          *)
TruncatedNow ==  \* faulty variant: a coarser clock
    3 * (clock \div 3)

Now == clock

(* decide_kind (--full forces a full backup), and the base and timestamp   *)
(* of execute_backup.  NoBaseBackup cannot happen: without a full backup   *)
(* the decision is a full backup.                                          *)
BaseOnAnyLatest(V, base) ==  \* faulty variant: any chain's latest
    \E f \in Fulls(meta, V) : IsLatest(meta, V, f, base)

ChooseBase(V, base) ==
    \E f \in V : IsNewestFull(meta, V, f) /\ IsLatest(meta, V, f, base)

Decide(p) ==
    /\ pc[p] = "decide" /\ clock < MaxTime
    /\ \E forceFull \in BOOLEAN :
          LET kind == DecideKind(forceFull, meta, view[p], clock, Interval)
          IN  \E base \in IF kind = "full" THEN {NoPath} ELSE view[p] :
                 /\ kind = "incremental" => ChooseBase(view[p], base)
                 /\ meta' = [meta EXCEPT ![p] = [kind |-> kind, ts |-> Now, base |-> base]]
    /\ view' = [view EXCEPT ![p] = {}]
    /\ clock' = clock + 1
    /\ GoTo(p, "submit")
    /\ UNCHANGED <<job, todo, bad, dirty, held, picked, row, bucket, faults>>

(* The server opens the base when it accepts a BACKUP; whether it notices  *)
(* that a partly deleted base misses objects is left open.                 *)
ServerAnswers(p) ==
    LET base == meta[p].base
    IN  IF base = NoPath \/ data[base] = "complete" THEN {"creating"}
        ELSE IF data[base] = "partial" THEN {"creating", "failed"}
        ELSE {"failed"}

ServerAccepts(p) ==
    \E status \in ServerAnswers(p) :
        /\ row' = [row EXCEPT ![p] = status]
        /\ data' = [data EXCEPT ![p] = IF status = "creating" THEN "partial" ELSE @]

(* BACKUP ... ASYNC returns the id, an error row is found by the poll.     *)
Submit(p) ==
    /\ pc[p] = "submit"
    /\ ServerAccepts(p)
    /\ GoTo(p, "poll")
    /\ UNCHANGED <<local, meta, sidecar, late, clock, faults>>

(* The request fails or times out: never retried, and the server may or    *)
(* may not have started the backup.                                        *)
SubmitFails(p) ==
    /\ pc[p] = "submit" /\ Fault("submit")
    /\ ServerAccepts(p) \/ UNCHANGED <<row, data>>
    /\ GoTo(p, "failed")
    /\ UNCHANGED <<local, meta, sidecar, late, clock>>

(* classify_status: the only status that completes a run.                  *)
FinishedEarly(p) ==  \* faulty variant: a running backup counts
    row[p] \in {"creating", "created"}

Finished(p) == row[p] = "created"

PollCompleted(p) ==
    /\ pc[p] = "poll" /\ Finished(p)
    /\ GoTo(p, "write")
    /\ UNCHANGED <<local, meta, row, bucket, clock, faults>>

PollFailed(p) ==
    /\ pc[p] = "poll" /\ row[p] = "failed"
    /\ GoTo(p, "failed")
    /\ UNCHANGED <<local, meta, row, bucket, clock, faults>>

(* TIMEOUT, a status that stays unrecognised, or a query error: the data   *)
(* is left alone.                                                          *)
PollGivesUp(p) ==
    /\ pc[p] = "poll" /\ Fault("poll")
    /\ GoTo(p, "failed")
    /\ UNCHANGED <<local, meta, row, bucket, clock>>

(* rollback_orphaned_backup is delete_prefix on the run's own path.        *)
Rollback(p) ==
    /\ GoTo(p, "del_list")
    /\ todo' = [todo EXCEPT ![p] = {[before |-> {}, last |-> p]}]

(* BackupStateLost: the row is gone for MAX_MISSING_POLLS polls.           *)
PollLost(p) ==
    /\ pc[p] = "poll" /\ row[p] = "none"
    /\ Rollback(p)
    /\ UNCHANGED <<job, view, bad, dirty, held, picked, meta, row, bucket, clock, faults>>

(* write_metadata succeeds; main reports the run and, with auto_cleanup,   *)
(* goes on to cleanup.                                                     *)
WriteMetadata(p) ==
    /\ pc[p] = "write"
    /\ sidecar' = sidecar \cup {p}
    /\ job' = [job EXCEPT ![p] = IF AutoCleanup THEN "cleanup" ELSE @]
    /\ GoTo(p, IF AutoCleanup THEN "fulls" ELSE "done")
    /\ UNCHANGED <<view, todo, bad, dirty, held, picked, meta, row, data, late, clock, faults>>

(* write_metadata fails after its retries.  A PUT that timed out may still *)
(* be applied by the store.                                                *)
WriteMetadataFails(p) ==
    /\ pc[p] = "write" /\ Fault("put")
    /\ late' \in {late} \cup IF "late" \in Faults THEN {late \cup {p}} ELSE {}
    /\ Rollback(p)
    /\ UNCHANGED <<job, view, bad, dirty, held, picked, meta, row, data, sidecar, clock>>

LatePut(p) ==
    /\ p \in late
    /\ late' = late \ {p}
    /\ sidecar' = sidecar \cup {p}
    /\ UNCHANGED <<pc, local, meta, row, data, clock, faults>>

(***************************************************************************)
(* Cleanup                                                                 *)
(***************************************************************************)
(* How an invocation ends: a run that rolled back has failed, a standalone *)
(* cleanup fails when its report has failures, and the auto cleanup of a   *)
(* backup only logs them.                                                  *)
Exit(p, failures) ==
    IF job[p] = "backup" \/ (failures /\ meta[p].kind = "none") THEN "failed" ELSE "done"

Units(V, fulls) ==
    {[before |-> ChainIncrementals(meta, V, f), last |-> f] : f \in fulls}

(* cleanup returns early when nothing is selected.                         *)
NoEarlyReturn(fulls) ==  \* faulty variant: deletes without looking
    "del_list"

AfterSelect(fulls) == IF fulls = {} THEN "done" ELSE "del_list"

(* select_chains_for_deletion on the view.                                 *)
Select(p) ==
    /\ pc[p] = "select"
    /\ LET V == view[p]
           fulls == SelectForDeletion(meta, V, Keep, KeepDays, clock)
       IN  /\ todo' = [todo EXCEPT ![p] = Units(V, fulls)]
           /\ picked' = [picked EXCEPT ![p] = UNION {Chain(meta, V, f) : f \in fulls}]
           /\ GoTo(p, AfterSelect(fulls))
    /\ view' = [view EXCEPT ![p] = {}]
    /\ UNCHANGED <<job, bad, dirty, held, meta, row, bucket, clock, faults>>

(* The order of deletion: chains newest first, in a chain the incrementals *)
(* newest first and the full backup last.                                  *)
VictimOldestFirst(p, u, v) ==  \* faulty variant: the iterator is not reversed
    /\ u \in todo[p] /\ \A w \in todo[p] : meta[w.last].ts <= meta[u.last].ts
    /\ IF u.before = {} THEN v = u.last
       ELSE v \in u.before /\ \A w \in u.before : meta[w].ts >= meta[v].ts

VictimFullFirst(p, u, v) ==  \* faulty variant: the full before its incrementals
    /\ u \in todo[p] /\ \A w \in todo[p] : meta[w.last].ts <= meta[u.last].ts
    /\ v = u.last

Victim(p, u, v) ==
    /\ u \in todo[p] /\ \A w \in todo[p] : meta[w.last].ts <= meta[u.last].ts
    /\ IF u.before = {} THEN v = u.last
       ELSE v \in u.before /\ Newer(meta, u.before, v) = {}

(* Whether a chain's full backup is left in place: one of its incrementals *)
(* could not be fully deleted.                                             *)
DeletesFullAnyway(rest, failures) ==  \* faulty variant: the check is missing
    FALSE

KeepsFull(rest, failures) == rest = {} /\ failures

(* The failures a cleanup report has after a unit.                         *)
LastUnitOnly(p, unitOver, failures) ==  \* faulty variant: overwritten, not added
    unitOver /\ failures

Report(p, unitOver, failures) == dirty[p] \/ (unitOver /\ failures)

(* The loop of cleanup, and the end of rollback, after the deletion of v   *)
(* in unit u.                                                              *)
Advance(p, u, v, complete) ==
    LET failures == bad[p] \/ ~complete
        rest     == u.before \ {v}
        unitOver == v = u.last \/ KeepsFull(rest, failures)
        todoLeft == (todo[p] \ {u}) \cup
                        IF unitOver THEN {} ELSE {[before |-> rest, last |-> u.last]}
        report   == Report(p, unitOver, failures)
    IN  /\ todo' = [todo EXCEPT ![p] = todoLeft]
        /\ bad' = [bad EXCEPT ![p] = failures /\ ~unitOver]
        /\ dirty' = [dirty EXCEPT ![p] = report]
        /\ held' = [held EXCEPT ![p] = FALSE]
        /\ GoTo(p, IF todoLeft # {} THEN "del_list" ELSE Exit(p, report))

(* delete_prefix lists the objects, deletes the data objects and then,     *)
(* when all are gone, the sidecar it listed.                               *)
DeleteList(p) ==
    /\ pc[p] = "del_list"
    /\ \E u \in todo[p], v \in Procs :
          /\ Victim(p, u, v)
          /\ held' = [held EXCEPT ![p] = v \in sidecar]
    /\ GoTo(p, "del_data")
    /\ UNCHANGED <<job, view, todo, bad, dirty, picked, meta, row, bucket, clock, faults>>

(* Some of the data objects are gone.                                      *)
DeleteSome(p) ==
    /\ pc[p] = "del_data"
    /\ \E u \in todo[p], v \in Procs :
          /\ Victim(p, u, v)
          /\ data[v] = "complete"
          /\ data' = [data EXCEPT ![v] = "partial"]
    /\ UNCHANGED <<pc, local, meta, row, sidecar, late, clock, faults>>

DeleteData(p) ==
    /\ pc[p] = "del_data"
    /\ \E u \in todo[p], v \in Procs :
          /\ Victim(p, u, v)
          /\ data' = [data EXCEPT ![v] = "none"]
          /\ IF held[p]
               THEN GoTo(p, "del_meta") /\ UNCHANGED <<todo, bad, dirty, held>>
               ELSE Advance(p, u, v, TRUE)
    /\ UNCHANGED <<job, view, picked, meta, row, sidecar, late, clock, faults>>

DeleteMeta(p) ==
    /\ pc[p] = "del_meta"
    /\ \E u \in todo[p], v \in Procs :
          /\ Victim(p, u, v)
          /\ sidecar' = sidecar \ {v}
          /\ Advance(p, u, v, TRUE)
    /\ UNCHANGED <<job, view, picked, meta, row, data, late, clock, faults>>

(* The listing fails, or a batch does: objects are left, or their state is *)
(* unknown because a failed request was applied.  The sidecar is only      *)
(* touched when every data object was deleted.                             *)
DataAfter(p, v) ==
    {data} \cup IF pc[p] = "del_data" THEN {[data EXCEPT ![v] = "none"]} ELSE {}

SidecarDeletedAnyway(p, v) ==  \* faulty variant: whatever happened to the data
    {sidecar \ {v}}

SidecarAfter(p, v) ==
    {sidecar} \cup IF pc[p] = "del_meta" THEN {sidecar \ {v}} ELSE {}

DeleteFails(p) ==
    /\ pc[p] \in Deleting /\ Fault("delete")
    /\ \E u \in todo[p], v \in Procs :
          /\ Victim(p, u, v)
          /\ data' \in DataAfter(p, v)
          /\ sidecar' \in SidecarAfter(p, v)
          /\ Advance(p, u, v, FALSE)
    /\ UNCHANGED <<job, view, picked, meta, row, late, clock>>

(***************************************************************************)
(* Failures of the process, the server, and time                           *)
(***************************************************************************)
(* A read fails the run before it has changed anything; so does a sidecar  *)
(* that strict discovery cannot read.  Auto cleanup's error is only logged. *)
ReadFails(p) ==
    /\ pc[p] \in Reading /\ Fault("error")
    /\ dirty' = [dirty EXCEPT ![p] = job[p] = "cleanup"]
    /\ GoTo(p, Exit(p, TRUE))
    /\ view' = [view EXCEPT ![p] = {}]
    /\ UNCHANGED <<job, todo, bad, held, picked, meta, row, bucket, clock>>

Crash(p) ==
    /\ pc[p] \in Running /\ Fault("crash")
    /\ GoTo(p, "crashed")
    /\ view' = [view EXCEPT ![p] = {}]
    /\ todo' = [todo EXCEPT ![p] = {}]
    /\ bad' = [bad EXCEPT ![p] = FALSE]
    /\ held' = [held EXCEPT ![p] = FALSE]
    /\ UNCHANGED <<job, dirty, picked, meta, row, bucket, clock>>

ServerCompletes(p) ==
    /\ row[p] = "creating"
    /\ row' = [row EXCEPT ![p] = "created"]
    /\ data' = [data EXCEPT ![p] = "complete"]
    /\ UNCHANGED <<pc, local, meta, sidecar, late, clock, faults>>

(* A failed BACKUP removes its files or leaves some of them.               *)
ServerFails(p) ==
    /\ row[p] = "creating" /\ Fault("server")
    /\ row' = [row EXCEPT ![p] = "failed"]
    /\ \E left \in {"none", "partial"} : data' = [data EXCEPT ![p] = left]
    /\ UNCHANGED <<pc, local, meta, sidecar, late, clock>>

(* system.backups is in memory: its rows vanish and its backups stop.      *)
ServerRestarts ==
    /\ \E p \in Procs : row[p] # "none"
    /\ Fault("restart")
    /\ row' = [p \in Procs |-> "none"]
    /\ UNCHANGED <<pc, local, meta, bucket, clock>>

Tick ==
    /\ clock < MaxTime
    /\ clock' = clock + 1
    /\ UNCHANGED <<pc, local, meta, row, bucket, faults>>

Next ==
    \/ \E p \in Procs :
          \/ StartBackup(p) \/ StartCleanup(p)
          \/ Guard(p) \/ ListFulls(p) \/ ListIncrementals(p) \/ Decide(p)
          \/ Submit(p) \/ SubmitFails(p)
          \/ PollCompleted(p) \/ PollFailed(p) \/ PollGivesUp(p) \/ PollLost(p)
          \/ WriteMetadata(p) \/ WriteMetadataFails(p) \/ LatePut(p)
          \/ Select(p) \/ DeleteList(p) \/ DeleteSome(p) \/ DeleteData(p)
          \/ DeleteMeta(p) \/ DeleteFails(p)
          \/ ReadFails(p) \/ Crash(p)
          \/ ServerCompletes(p) \/ ServerFails(p)
    \/ ServerRestarts
    \/ Tick

Spec == Init /\ [][Next]_vars

(***************************************************************************)
(* Properties                                                              *)
(***************************************************************************)
(* The backups whose run has reported success, kept or since deleted.      *)
Succeeded ==
    {p \in Procs : meta[p].kind # "none" /\ (pc[p] = "done" \/ job[p] = "cleanup")}

(* The visible backups that can be restored: they and every backup they    *)
(* are based on have a sidecar and all their objects.                      *)
RestorePoints ==
    DOMAIN GroupChains(meta, {b \in sidecar : data[b] = "complete"})

Gone(b) == data[b] = "none" /\ b \notin sidecar

(* group_chains resolves every incremental with one look-up because a base *)
(* is always older than the backups taken on it.                           *)
BaseOlder ==
    \A b \in Procs : meta[b].base # NoPath => meta[meta[b].base].ts < meta[b].ts

(* What retention promises whatever runs overlap, crash or fail to delete: *)
(* a full backup a run reported is in the bucket, sidecar and objects, as  *)
(* long as fewer than Keep newer ones have been reported.                  *)
FullsRetained ==
    LET fulls == Fulls(meta, Succeeded)
    IN  \A f \in fulls : Cardinality(Newer(meta, fulls, f)) < Keep
                             => f \in sidecar /\ data[f] = "complete"

(* The same of whole chains: every backup a run reported, in a chain with  *)
(* fewer than Keep newer ones, is visible and restorable with all its      *)
(* bases.                                                                  *)
RetentionKept ==
    LET rootOf == GroupChains(meta, Succeeded)
    IN  \A b \in Succeeded :
           /\ b \in DOMAIN rootOf
           /\ Cardinality(Newer(meta, Fulls(meta, Succeeded), rootOf[b])) < Keep
                => b \in RestorePoints

(* A backup discovery shows has all its objects unless a cleanup selected  *)
(* it: rollbacks, races of two cleanups and lost backups never leave a     *)
(* sidecar over missing data.                                              *)
VisibleIsIntact ==
    \A b \in sidecar : data[b] = "complete" \/ \E p \in Procs : b \in picked[p]

(* delete_prefix deletes the sidecar last: a backup that was reported and  *)
(* is no longer visible has left no object behind, whatever was            *)
(* interrupted or failed.                                                  *)
NoInvisibleLeftovers ==
    \A b \in Succeeded : b \notin sidecar => data[b] = "none"

(* A cleanup whose report has no failures deleted everything it selected.  *)
CleanupIsHonest ==
    \A p \in Procs : pc[p] = "done" /\ ~dirty[p] => \A b \in picked[p] : Gone(b)

(* A cleanup removes a chain's full backup only after every incremental it *)
(* selected with it is gone.                                               *)
FullGoesLast ==
    [][\A p \in Procs : \A f \in Fulls(meta, picked[p]) :
          pc'[p] # pc[p] /\ f \in sidecar /\ f \notin sidecar'
             => \A b \in picked[p] :
                   b \in ChainIncrementals(meta, Succeeded, f) => b \notin sidecar']_vars

(* Every visible backup belongs to a chain, so that retention reaches it.  *)
NoneStranded == sidecar \subseteq DOMAIN GroupChains(meta, sidecar)

(* `clickvault check' looks at the latest backup of the newest chain only: *)
(* it is the most recent visible backup.                                   *)
NewestIsReported ==
    \A b \in sidecar :
        (\A c \in sidecar : meta[c].ts <= meta[b].ts) => IsReported(meta, sidecar, b)

(* A run reports success only for a backup that can be restored.           *)
SuccessIsRestorable ==
    [][\A p \in Procs : p \in Succeeded' \ Succeeded => p \in RestorePoints']_vars

(* A cleanup that ends without failures has also finished what every       *)
(* earlier, interrupted or failed cleanup selected and left.               *)
NextCleanupFinishes ==
    [][\A p \in Procs :
          /\ job[p] = "cleanup" /\ pc[p] # "done" /\ pc'[p] = "done" /\ ~dirty'[p]
          => \A q \in Procs : \A b \in picked'[q] : Gone(b)']_vars

(* keep_days: no object of a chain is deleted while the newest visible     *)
(* backup of the chain is younger than KeepDays.                           *)
YoungChainsKept ==
    [][LET rootOf == GroupChains(meta, sidecar)
       IN  \A b, c \in DOMAIN rootOf :
              rootOf[b] = rootOf[c] /\ clock - meta[c].ts < KeepDays
                 => data'[b] = data[b] /\ b \in sidecar']_vars
=============================================================================
