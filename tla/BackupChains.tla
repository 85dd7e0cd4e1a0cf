---------------------------- MODULE BackupChains ----------------------------
(***************************************************************************)
(* The pure part of discovery, retention and the health check: how the     *)
(* visible backups of a bucket are grouped into chains, which chain and    *)
(* which backup are the newest, whether a run takes a full backup, and     *)
(* which chains retention selects.                                         *)
(*                                                                         *)
(* A backup is an opaque path.  m[b] is its metadata sidecar, a record     *)
(* [kind, ts, base]; V is the set of paths whose sidecar discovery read.   *)
(* Sorting a list by timestamp and taking an end of it is a predicate here *)
(* ("no other is newer"), so that neither TLC nor a proof has to build the *)
(* list.                                                                   *)
(***************************************************************************)
EXTENDS Integers, FiniteSets, Folds

(* The two listings of discover_chains_with: the full/ and incremental/    *)
(* directories.                                                            *)
Fulls(m, V)        == {b \in V : m[b].kind = "full"}
Incrementals(m, V) == {b \in V : m[b].kind = "incremental"}

Newer(m, V, b) == {c \in V : m[c].ts > m[b].ts}

(* One iteration of the attach loop of group_chains: an incremental joins  *)
(* the chain its base was attached to, and is dropped when the base is not *)
(* in the map.                                                             *)
AttachToFullsOnly(m, chainOf, b) ==  \* faulty variant: an incremental is never a base
    LET base == m[b].base
    IN  IF base \in DOMAIN chainOf /\ m[base].kind = "full"
          THEN [x \in DOMAIN chainOf \cup {b} |-> IF x = b THEN chainOf[base] ELSE chainOf[x]]
          ELSE chainOf

Attach(m, chainOf, b) ==
    LET base == m[b].base
    IN  IF base \in DOMAIN chainOf
          THEN [x \in DOMAIN chainOf \cup {b} |-> IF x = b THEN chainOf[base] ELSE chainOf[x]]
          ELSE chainOf

(* group_chains: the map from every backup that resolves to a full backup  *)
(* to that full backup.  Incrementals are attached oldest first (the fold  *)
(* applies the element it chooses last, hence the choice of the newest).   *)
GroupChains(m, V) ==
    MapThenFoldSet(LAMBDA b, chainOf : Attach(m, chainOf, b),
                   [f \in Fulls(m, V) |-> f],
                   LAMBDA b : b,
                   LAMBDA S : CHOOSE b \in S : Newer(m, S, b) = {},
                   Incrementals(m, V))

ChainIncrementals(m, V, f) ==
    LET chainOf == GroupChains(m, V)
    IN  {b \in Incrementals(m, V) : b \in DOMAIN chainOf /\ chainOf[b] = f}

Chain(m, V, f) == {f} \cup ChainIncrementals(m, V, f)

(* chains.first(): chains are sorted newest first by their full backup.    *)
IsNewestFull(m, V, f) == f \in Fulls(m, V) /\ Newer(m, Fulls(m, V), f) = {}

(* BackupChain::latest: the newest incremental, or the full if none.       *)
IsLatest(m, V, f, b) ==
    LET incrementals == ChainIncrementals(m, V, f)
    IN  IF incrementals = {} THEN b = f
        ELSE b \in incrementals /\ Newer(m, incrementals, b) = {}

(* should_do_full_backup: without a full backup, or when the newest one is *)
(* at least interval old.                                                  *)
ShouldDoFull(m, V, now, interval) ==
    \A f \in Fulls(m, V) : IsNewestFull(m, V, f) => now - m[f].ts >= interval

DecideKind(forceFull, m, V, now, interval) ==
    IF forceFull \/ ShouldDoFull(m, V, now, interval) THEN "full" ELSE "incremental"

(* select_chains_for_deletion: skip the keep newest chains, then filter by *)
(* the age of the latest restore point.  keepDays = 0 stands for an unset  *)
(* keep_days: every age passes, and Config::validate refuses a 0.          *)
SelectOneTooMany(m, V, keep, keepDays, now) ==  \* faulty variant: skip(keep - 1)
    {f \in Fulls(m, V) :
        /\ Cardinality(Newer(m, Fulls(m, V), f)) >= keep - 1
        /\ \E l \in V : IsLatest(m, V, f, l) /\ now - m[l].ts >= keepDays}

SelectByFullAge(m, V, keep, keepDays, now) ==  \* faulty variant: the full's age, not the latest's
    {f \in Fulls(m, V) :
        /\ Cardinality(Newer(m, Fulls(m, V), f)) >= keep
        /\ now - m[f].ts >= keepDays}

SelectForDeletion(m, V, keep, keepDays, now) ==
    {f \in Fulls(m, V) :
        /\ Cardinality(Newer(m, Fulls(m, V), f)) >= keep
        /\ \E l \in V : IsLatest(m, V, f, l) /\ now - m[l].ts >= keepDays}

(* check::evaluate: the backup the health check reports is the latest of   *)
(* the newest chain.                                                       *)
IsReported(m, V, b) == \E f \in V : IsNewestFull(m, V, f) /\ IsLatest(m, V, f, b)
=============================================================================
