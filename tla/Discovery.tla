----------------------------- MODULE Discovery ------------------------------
(***************************************************************************)
(* One run of discovery, request by request, for `clickvault check' and    *)
(* for cleanup, while other invocations change the bucket: one backup run  *)
(* after another writes, and one cleanup at a time deletes.  Vault is      *)
(* about what overlapping invocations do to the bucket; this module is     *)
(* about what a reader makes of a bucket that changes under its hands.     *)
(*                                                                         *)
(* The paths of a directory are in the order of their timestamps.  The     *)
(* pages of a listing need no step of their own: a path that only an early *)
(* page shows is gone at the last one, and its sidecar reads as Missing.   *)
(***************************************************************************)
EXTENDS BackupChains

CONSTANTS
    Backups,    \* the paths of backups
    NoPath,     \* base_backup_path of a full backup, and "no path"
    Keep,       \* retention.keep_full_backups
    KeepDays,   \* retention.keep_days, 0 when unset
    Requests,   \* what --max-age is given: records [value, unit]
    Word,       \* the number of values of a u64
    Behind,     \* how far the reader's clock is behind the writer's
    MaxFaults,  \* bound: how many sidecars cannot be read
    MaxTime     \* bound: the last instant of the clock

ASSUME PathsAssumption == IsFiniteSet(Backups) /\ NoPath \notin Backups
ASSUME RetentionAssumption == Keep \in Nat \ {0} /\ KeepDays \in Nat
ASSUME RequestsAssumption ==  \* parse_max_age refuses 0 and unknown units
    Requests \subseteq [value : Nat \ {0}, unit : Nat \ {0}] /\ Word \in Nat \ {0}
ASSUME TimeAssumption == Behind \in Nat /\ MaxFaults \in Nat /\ MaxTime \in Nat

VARIABLES
    clock,
    meta,      \* the metadata of each backup, fixed when it is submitted
    root,      \* history: the full backup it depends on
    dirs,      \* the paths with objects under them
    sidecar,   \* the paths with a sidecar
    pending,   \* the backup that runs and has no sidecar yet
    doomed,    \* what the cleanup in progress has selected and not deleted
    once,      \* history: the backups that have had a sidecar
    pc,        \* where the reader is
    command,   \* "check" or "cleanup", which discovers strictly
    request,   \* its --max-age
    listed,    \* the paths of the listing whose sidecar it has not read
    view,      \* the backups it has read
    skipped,   \* history: those whose sidecar it could not read
    steady,    \* history: the backups visible since the reader started
    chainOf,   \* chain_of in group_chains
    todo,      \* the incrementals that are not attached yet
    verdict,   \* what check reports
    selected,  \* the chains cleanup is about to delete
    endedAt,   \* history: when the reader decided
    faults

world == <<clock, meta, root, dirs, sidecar, pending, doomed, once>>
result == <<verdict, selected, endedAt>>
reader == <<pc, command, request, listed, view, skipped, chainOf, todo, result, faults>>
vars == <<world, reader, steady>>

Reading == {"read fulls", "read incrementals"}
NoRequest == [value |-> 0, unit |-> 0]

TypeOK ==
    /\ clock \in Nat
    /\ meta \in [Backups -> [kind : {"none", "full", "incremental"}, ts : Nat, base : Backups \cup {NoPath}]]
    /\ root \in [Backups -> Backups]
    /\ dirs \subseteq Backups /\ sidecar \subseteq dirs /\ doomed \subseteq sidecar
    /\ pending \in Backups \cup {NoPath} /\ once \subseteq Backups
    /\ pc \in {"start", "group", "done", "failed"} \cup Reading
    /\ command \in {"check", "cleanup"} /\ request \in Requests \cup {NoRequest}
    /\ listed \subseteq Backups /\ view \subseteq once /\ skipped \subseteq Backups
    /\ steady \subseteq sidecar
    /\ DOMAIN chainOf \subseteq view /\ todo \subseteq view
    /\ verdict \in {"none", "ok", "stale", "missing"} /\ selected \subseteq view
    /\ endedAt \in Nat /\ faults \in Nat

Init ==
    /\ clock = 1
    /\ meta = [b \in Backups |-> [kind |-> "none", ts |-> 0, base |-> NoPath]]
    /\ root = [b \in Backups |-> b]
    /\ dirs = {} /\ sidecar = {} /\ doomed = {} /\ once = {}
    /\ pending = NoPath
    /\ pc = "start"
    /\ command \in {"check", "cleanup"} /\ request = NoRequest
    /\ listed = {} /\ view = {} /\ skipped = {} /\ steady = {}
    /\ chainOf = [b \in {} |-> b] /\ todo = {}
    /\ verdict = "none" /\ selected = {} /\ endedAt = 0
    /\ faults = 0

(***************************************************************************)
(* The other invocations                                                   *)
(***************************************************************************)
(* execute_backup on the bucket as it is: a full backup, or an incremental *)
(* on the latest backup of the newest chain.                               *)
Submit(b, base) ==
    /\ pending = NoPath /\ meta[b].kind = "none" /\ clock < MaxTime
    /\ base = NoPath \/ IsReported(meta, sidecar, base)
    /\ meta' = [meta EXCEPT ![b] =
                   [kind |-> IF base = NoPath THEN "full" ELSE "incremental",
                    ts |-> clock, base |-> base]]
    /\ root' = [root EXCEPT ![b] = IF base = NoPath THEN b ELSE root[base]]
    /\ dirs' = dirs \cup {b} /\ pending' = b
    /\ clock' = clock + 1
    /\ UNCHANGED <<sidecar, doomed, once, reader, steady>>

WriteMetadata ==
    /\ pending # NoPath
    /\ sidecar' = sidecar \cup {pending} /\ once' = once \cup {pending}
    /\ pending' = NoPath
    /\ UNCHANGED <<clock, meta, root, dirs, doomed, reader, steady>>

(* The backup fails, and leaves data or is rolled back.                    *)
BackupFails ==
    /\ pending # NoPath
    /\ dirs' \in {dirs, dirs \ {pending}}
    /\ pending' = NoPath
    /\ UNCHANGED <<clock, meta, root, sidecar, doomed, once, reader, steady>>

(* Another cleanup selects a chain on the bucket as it is, and deletes it  *)
(* newest to oldest.                                                       *)
CleanupSelects(f) ==
    /\ doomed = {} /\ f \in SelectForDeletion(meta, sidecar, Keep, KeepDays, clock)
    /\ doomed' = Chain(meta, sidecar, f)
    /\ UNCHANGED <<clock, meta, root, dirs, sidecar, pending, once, reader, steady>>

IsNext(b) == b \in doomed /\ Newer(meta, doomed, b) = {}

CleanupDeletes(b) ==
    /\ IsNext(b)
    /\ doomed' = doomed \ {b}
    /\ sidecar' = sidecar \ {b} /\ dirs' = dirs \ {b}
    /\ steady' = steady \ {b}
    /\ UNCHANGED <<clock, meta, root, pending, once, reader>>

(* delete_prefix fails, and has deleted nothing of it, or all of it with   *)
(* the answer lost.  The loop goes on with the older incrementals; the     *)
(* full backup is kept.                                                    *)
CleanupFails(b) ==
    /\ IsNext(b)
    /\ doomed' = doomed \ {b, root[b]}
    /\ \E gone \in SUBSET {b} :
          sidecar' = sidecar \ gone /\ dirs' = dirs \ gone /\ steady' = steady \ gone
    /\ UNCHANGED <<clock, meta, root, pending, once, reader>>

(* The process that cleans up is killed.                                   *)
CleanupStops ==
    /\ doomed # {} /\ doomed' = {}
    /\ UNCHANGED <<clock, meta, root, dirs, sidecar, pending, once, reader, steady>>

Tick ==
    /\ clock < MaxTime /\ clock' = clock + 1
    /\ UNCHANGED <<meta, root, dirs, sidecar, pending, doomed, once, reader, steady>>

(***************************************************************************)
(* Discovery                                                               *)
(***************************************************************************)
Fault == faults < MaxFaults /\ faults' = faults + 1

(* list_prefixes, of full/ and, when its sidecars are read, of             *)
(* incremental/.                                                           *)
Directory(kind) == {b \in dirs : meta[b].kind = kind}

ListFulls ==
    /\ pc = "start" /\ pc' = "read fulls"
    /\ listed' = Directory("full")
    /\ steady' = sidecar
    /\ UNCHANGED <<world, command, request, view, skipped, chainOf, todo, result, faults>>

ListIncrementals ==
    /\ pc = "read fulls" /\ listed = {} /\ pc' = "read incrementals"
    /\ listed' = Directory("incremental")
    /\ UNCHANGED <<world, command, request, view, skipped, chainOf, todo, result, faults, steady>>

(* A listing that fails after its retries fails either discovery.          *)
ListFails ==
    /\ pc = "start" \/ (pc = "read fulls" /\ listed = {})
    /\ Fault
    /\ pc' = "failed"
    /\ UNCHANGED <<world, command, request, listed, view, skipped, chainOf, todo, result, steady>>

(* read_metadata in list_backups: the sidecar, Missing (a 404), or another *)
(* error, which only strict discovery, cleanup's, does not survive.        *)
TakesDirectory(b) ==  \* faulty variant: what is listed counts as a backup
    TRUE

HasMetadata(b) == b \in sidecar

RefusesNothing ==  \* faulty variant: cleanup discovers leniently
    FALSE

IsStrict == command = "cleanup"

ReadMetadata(b) ==
    /\ pc \in Reading
    /\ b \in listed /\ \A c \in listed : meta[b].ts <= meta[c].ts
    /\ listed' = listed \ {b}
    /\ \/ /\ view' = IF HasMetadata(b) THEN view \cup {b} ELSE view
          /\ UNCHANGED <<pc, skipped, faults>>
       \/ /\ Fault
          /\ skipped' = skipped \cup {b}
          /\ pc' = IF IsStrict THEN "failed" ELSE pc
          /\ UNCHANGED view
    /\ UNCHANGED <<world, command, request, chainOf, todo, result, steady>>

(* group_chains starts with the full backups, and attaches the             *)
(* incrementals oldest first.                                              *)
GroupChainsOf ==
    /\ pc = "read incrementals" /\ listed = {}
    /\ pc' = "group"
    /\ chainOf' = [f \in Fulls(meta, view) |-> f]
    /\ todo' = Incrementals(meta, view)
    /\ UNCHANGED <<world, command, request, listed, view, skipped, result, faults, steady>>

AttachOldest(b) ==
    /\ pc = "group" /\ b \in todo /\ \A c \in todo : meta[b].ts <= meta[c].ts
    /\ chainOf' = Attach(meta, chainOf, b)
    /\ todo' = todo \ {b}
    /\ UNCHANGED <<world, pc, command, request, listed, view, skipped, result, faults, steady>>

(***************************************************************************)
(* The consumers                                                           *)
(***************************************************************************)
Attached(f) == {b \in DOMAIN chainOf : chainOf[b] = f}

(* chains.first() and BackupChain::latest, of the chains as grouped.       *)
First(f) == f \in Fulls(meta, view) /\ Newer(meta, Fulls(meta, view), f) = {}

LatestOf(f, b) ==
    IF Attached(f) = {f} THEN b = f
    ELSE b \in Attached(f) \ {f} /\ Newer(meta, Attached(f) \ {f}, b) = {}

OfFirstChain(b) == \E f \in view : First(f) /\ LatestOf(f, b)

(* parse_max_age: the product is not checked and wraps.                    *)
MaxAge(r) == (r.value * r.unit) % Word

(* Utc::now() of the reader, and the age, in seconds: a negative one is 0. *)
ReaderNow == clock - Behind

AgeUnclamped(b) ==  \* faulty variant: num_seconds() as u64
    (ReaderNow - meta[b].ts) % Word

Age(b) == IF ReaderNow >= meta[b].ts THEN ReaderNow - meta[b].ts ELSE 0

(* check::evaluate                                                         *)
Evaluate ==
    /\ pc = "group" /\ todo = {} /\ command = "check"
    /\ \E r \in Requests :
          /\ request' = r
          /\ \/ Fulls(meta, view) = {} /\ verdict' = "missing"
             \/ \E b \in view :
                   OfFirstChain(b) /\ verdict' = IF Age(b) <= MaxAge(r) THEN "ok" ELSE "stale"
    /\ pc' = "done" /\ endedAt' = clock
    /\ UNCHANGED <<world, command, listed, view, skipped, chainOf, todo, selected, faults, steady>>

(* select_chains_for_deletion                                              *)
SkipTooFew(f) ==  \* faulty variant: skip(keep - 1)
    /\ Cardinality(Newer(meta, Fulls(meta, view), f)) >= Keep - 1
    /\ \E b \in view : LatestOf(f, b) /\ ReaderNow - meta[b].ts >= KeepDays

FilterByFull(f) ==  \* faulty variant: the age of the full, not of the latest
    /\ Cardinality(Newer(meta, Fulls(meta, view), f)) >= Keep
    /\ ReaderNow - meta[f].ts >= KeepDays

Selects(f) ==
    /\ Cardinality(Newer(meta, Fulls(meta, view), f)) >= Keep
    /\ \E b \in view : LatestOf(f, b) /\ ReaderNow - meta[b].ts >= KeepDays

Select ==
    /\ pc = "group" /\ todo = {} /\ command = "cleanup"
    /\ selected' = {f \in Fulls(meta, view) : Selects(f)}
    /\ pc' = "done" /\ endedAt' = clock
    /\ UNCHANGED <<world, command, request, listed, view, skipped, chainOf, todo, verdict, faults, steady>>

Others ==
    \/ \E b \in Backups, base \in Backups \cup {NoPath} : Submit(b, base)
    \/ WriteMetadata \/ BackupFails
    \/ \E b \in Backups : CleanupSelects(b) \/ CleanupDeletes(b) \/ CleanupFails(b)
    \/ CleanupStops \/ Tick

Reader ==
    \/ ListFulls \/ ListIncrementals \/ ListFails
    \/ \E b \in Backups : ReadMetadata(b) \/ AttachOldest(b)
    \/ GroupChainsOf \/ Evaluate \/ Select

Next == Others \/ Reader

Spec == Init /\ [][Next]_vars

(***************************************************************************)
(* Properties                                                              *)
(***************************************************************************)
(* Those of the set S that can be restored from S alone: the bases they    *)
(* need are in it.                                                         *)
Restorable(m, S) ==
    UNION {C \in SUBSET S : \A c \in C : m[c].kind = "incremental" => m[c].base \in C}

(* What discovery reads is complete although it takes many requests: a     *)
(* backup that was visible all the time is in the view, or its sidecar     *)
(* could not be read; cleanup decides nothing on a view that misses one.   *)
CompleteView ==
    pc \in {"group", "done"} =>
        /\ steady \subseteq view \cup skipped
        /\ command = "cleanup" => skipped = {}

(* One look-up for each incremental is enough: each backup is attached to  *)
(* the full backup it depends on, and to no other, and with no sidecar     *)
(* skipped, a backup is attached when it was visible all the time and so   *)
(* were the bases it needs.  (A failed deletion leaves incrementals whose  *)
(* base is gone; these are dropped.)                                       *)
GroupingComplete ==
    pc \in {"group", "done"} =>
        /\ \A b \in DOMAIN chainOf : chainOf[b] = root[b]
        /\ todo = {} /\ skipped = {} => Restorable(meta, steady) \subseteq DOMAIN chainOf

(* `check' says OK only when it read a backup that is, or was, visible and *)
(* no older than what the user asked for.                                  *)
OkMeansFresh ==
    verdict = "ok" =>
        \E b \in once \cap view :
            endedAt - Behind - meta[b].ts <= request.value * request.unit

(* `check' raises no false alarm: when every sidecar was read, it reports  *)
(* MISSING only if no backup could be restored from what was visible all   *)
(* the time, and STALE only if each that could is older than what the user *)
(* asked for, also when the clock of the writer is ahead.  A --max-age     *)
(* whose product wraps is excluded: check is then too strict.              *)
Wraps(r) == r.value * r.unit >= Word

FreshMeansOk ==
    skipped = {} =>
        /\ verdict = "missing" => Restorable(meta, steady) = {}
        /\ verdict = "stale" /\ ~Wraps(request) =>
              \A b \in Restorable(meta, steady) : endedAt - meta[b].ts > request.value * request.unit

(* A cleanup that selected a chain leaves Keep newer ones, whatever        *)
(* another cleanup has deleted since it read them.                         *)
SelectedHaveExpired ==
    \A f \in selected : Cardinality(Newer(meta, Fulls(meta, sidecar), f)) >= Keep

(* A cleanup selects no chain that still has a backup younger than         *)
(* keep_days, the backups that were visible all the time considered.       *)
SelectedAreOld ==
    \A f \in selected : \A b \in steady :
        root[b] = f => endedAt - meta[b].ts >= KeepDays
=============================================================================
