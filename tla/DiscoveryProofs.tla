--------------------------- MODULE DiscoveryProofs --------------------------
(***************************************************************************)
(* Theorems about Discovery, for any set of backups, any retention, any    *)
(* --max-age and any change the other invocations make to the bucket while *)
(* it is read.                                                             *)
(***************************************************************************)
EXTENDS Discovery, BackupChainsProofs

(***************************************************************************)
(* The bucket                                                              *)
(***************************************************************************)
WorldTyped ==
    /\ clock \in Nat
    /\ meta \in [Backups -> [kind : {"none", "full", "incremental"}, ts : Nat,
                             base : Backups \cup {NoPath}]]
    /\ root \in [Backups -> Backups]
    /\ dirs \subseteq Backups /\ sidecar \subseteq dirs
    /\ sidecar \subseteq once /\ once \subseteq Backups
    /\ doomed \subseteq sidecar
    /\ pending \in Backups \cup {NoPath}

(* Timestamps are distinct, a base is older than what is based on it, and  *)
(* the backup that runs is the newest of all.                              *)
MetaInv ==
    /\ \A b \in dirs \cup once : meta[b].kind # "none"
    /\ \A b \in Backups : meta[b].kind # "none" => meta[b].ts < clock
    /\ \A b \in Backups : meta[b].kind = "full" => root[b] = b
    /\ \A b \in Backups : meta[b].kind = "incremental" =>
          /\ meta[b].base \in once /\ root[b] \in once
          /\ meta[meta[b].base].ts < meta[b].ts /\ meta[root[b]].ts < meta[b].ts
          /\ root[b] = root[meta[b].base] /\ meta[root[b]].kind = "full"
    /\ \A b, c \in Backups :
          b # c /\ meta[b].kind # "none" /\ meta[c].kind # "none" => meta[b].ts # meta[c].ts
    /\ pending \in Backups =>
          /\ pending \notin once /\ pending \in dirs
          /\ \A b \in Backups \ {pending} :
                meta[b].kind # "none" => meta[b].ts < meta[pending].ts

NewerFulls(f) == Newer(meta, Fulls(meta, sidecar), f)

(* The backup that runs extends the newest chain.                          *)
RunInv ==
    pending \in Backups /\ meta[pending].kind = "incremental" =>
        meta[pending].base \in sidecar /\ IsNewestFull(meta, sidecar, root[pending])

(* A chain retention may select, whatever part of it is still visible.     *)
Spent(f) ==
    /\ Cardinality(NewerFulls(f)) >= Keep
    /\ \A b \in once : root[b] = f => clock - meta[b].ts >= KeepDays

(* Only backups of such chains are deleted.                                *)
RetainInv ==
    \A b \in doomed \cup (once \ sidecar) : Spent(root[b])

(* Chains do not overlap in time.                                          *)
ChainsInv ==
    \A f \in Fulls(meta, once), b \in once :
        meta[f].ts > meta[root[b]].ts => meta[f].ts > meta[b].ts

WorldInv == WorldTyped /\ MetaInv /\ RunInv /\ RetainInv /\ ChainsInv

LEMMA InitWorld == Init => WorldInv
<1>. SUFFICES ASSUME Init PROVE WorldInv
  OBVIOUS
<1>1. WorldTyped
  BY DEF Init, WorldTyped
<1>2. MetaInv
  BY PathsAssumption DEF Init, MetaInv
<1>3. RunInv /\ RetainInv /\ ChainsInv
  BY PathsAssumption DEF Init, RunInv, RetainInv, ChainsInv, Fulls
<1>. QED  BY <1>1, <1>2, <1>3 DEF WorldInv

(***************************************************************************)
(* Counting the newer full backups                                         *)
(***************************************************************************)
LEMMA NewerFinite ==
  ASSUME WorldTyped, NEW f
  PROVE  IsFiniteSet(NewerFulls(f)) /\ Cardinality(NewerFulls(f)) \in Nat
<1>1. NewerFulls(f) \in SUBSET Backups
  BY DEF WorldTyped, NewerFulls, Newer, Fulls
<1>. QED  BY <1>1, PathsAssumption, FS_Subset, FS_CardinalityType

(* A set that includes the newer full backups of one that has expired.     *)
LEMMA Enough ==
  ASSUME WorldTyped, NEW f, Cardinality(NewerFulls(f)) >= Keep,
         NEW S \in SUBSET Backups, NewerFulls(f) \subseteq S
  PROVE  Cardinality(S) >= Keep
<1>1. IsFiniteSet(S) /\ Cardinality(S) \in Nat
  BY PathsAssumption, FS_Subset, FS_CardinalityType
<1>2. Cardinality(NewerFulls(f)) <= Cardinality(S)
  BY <1>1, FS_Subset
<1>. QED  BY <1>1, <1>2, NewerFinite, RetentionAssumption

LEMMA SomeNewer ==
  ASSUME WorldTyped, NEW f, Cardinality(NewerFulls(f)) >= Keep
  PROVE  \E g \in Fulls(meta, sidecar) : meta[g].ts > meta[f].ts
<1>1. NewerFulls(f) # {}
  BY RetentionAssumption, FS_EmptySet
<1>. QED  BY <1>1 DEF NewerFulls, Newer

(* Deleting a backup of a spent chain takes no other one below Keep.       *)
LEMMA DeleteKeeps ==
  ASSUME WorldInv, NEW b \in doomed, NEW gone \in SUBSET {b},
         meta' = meta, sidecar' = sidecar \ gone,
         NEW f \in Backups, Cardinality(NewerFulls(f)) >= Keep
  PROVE  Cardinality(NewerFulls(f)') >= Keep
<1>. USE DEF WorldInv
<1>1. NewerFulls(f)' = NewerFulls(f) \ gone
  BY DEF NewerFulls, Newer, Fulls
<1>2. b \in Backups /\ NewerFulls(f)' \in SUBSET Backups
  BY <1>1 DEF WorldTyped, NewerFulls, Newer, Fulls
<1>3. CASE b \notin NewerFulls(f)
  BY <1>1, <1>2, <1>3, Enough
<1>4. CASE b \in NewerFulls(f)
  <2>1. meta[b].kind = "full" /\ meta[b].ts > meta[f].ts
    BY <1>4 DEF NewerFulls, Newer, Fulls
  <2>2. Cardinality(NewerFulls(b)) >= Keep
    BY <1>2, <2>1 DEF RetainInv, Spent, MetaInv
  <2>3. NewerFulls(b) \subseteq NewerFulls(f) \ {b}
    BY <1>2, <2>1 DEF NewerFulls, Newer, Fulls, WorldTyped
  <2>. QED  BY <1>1, <1>2, <2>2, <2>3, Enough
<1>. QED  BY <1>3, <1>4

(***************************************************************************)
(* What the other cleanup selects is spent                                 *)
(***************************************************************************)
LEMMA SidecarChains ==
  ASSUME WorldInv
  PROVE  /\ Timed(meta, sidecar) /\ OlderBases(meta, sidecar)
         /\ ResolvesIn(meta, sidecar, Incrementals(meta, sidecar), GroupChains(meta, sidecar))
         /\ DOMAIN GroupChains(meta, sidecar) \subseteq sidecar
<1>1. IsFiniteSet(sidecar) /\ sidecar \subseteq Backups
  BY PathsAssumption, FS_Subset DEF WorldInv, WorldTyped
<1>2. Timed(meta, sidecar) /\ OlderBases(meta, sidecar)
  BY <1>1 DEF Timed, OlderBases, Incrementals, WorldInv, WorldTyped, MetaInv
<1>3. ResolvesIn(meta, sidecar, Incrementals(meta, sidecar), GroupChains(meta, sidecar))
  BY <1>2, ChainsResolved
<1>. QED  BY <1>2, <1>3 DEF ResolvesIn, Fulls, Incrementals

LEMMA SidecarRoots ==
  ASSUME WorldInv, NEW b \in DOMAIN GroupChains(meta, sidecar)
  PROVE  GroupChains(meta, sidecar)[b] = root[b]
<1>. DEFINE g == GroupChains(meta, sidecar)
            wrong == {c \in DOMAIN g : g[c] # root[c]}
<1>. SUFFICES ASSUME wrong # {} PROVE FALSE
  OBVIOUS
<1>1. /\ Timed(meta, sidecar) /\ ResolvesIn(meta, sidecar, Incrementals(meta, sidecar), g)
      /\ DOMAIN g \subseteq sidecar /\ sidecar \subseteq once /\ once \subseteq Backups
  BY SidecarChains DEF WorldInv, WorldTyped
<1>. HIDE DEF g
<1>2. wrong \in SUBSET sidecar
  BY <1>1
<1>3. PICK c \in wrong : \A d \in wrong : meta[c].ts <= meta[d].ts
  BY <1>1, <1>2, HasOldest
<1>4. c \in DOMAIN g /\ c \in sidecar /\ c \in Backups /\ g[c] # root[c] /\ meta[c].ts \in Nat
  BY <1>1 DEF WorldInv, WorldTyped
<1>5. c \in Fulls(meta, sidecar) \/ c \in Incrementals(meta, sidecar)
  BY <1>1, <1>4 DEF ResolvesIn
<1>6. CASE c \in Fulls(meta, sidecar)
  BY <1>1, <1>4, <1>6 DEF ResolvesIn, WorldInv, MetaInv, Fulls
<1>7. CASE c \in Incrementals(meta, sidecar)
  <2>1. meta[c].base \in DOMAIN g /\ g[c] = g[meta[c].base]
    BY <1>1, <1>4, <1>7 DEF ResolvesIn
  <2>2. /\ root[c] = root[meta[c].base] /\ meta[meta[c].base].ts < meta[c].ts
        /\ meta[c].base \in Backups
    BY <1>1, <1>4, <1>7 DEF WorldInv, MetaInv, Incrementals
  <2>3. meta[meta[c].base].ts \in Nat
    BY <2>2 DEF WorldInv, WorldTyped
  <2>4. meta[c].base \in wrong
    BY <1>4, <2>1, <2>2
  <2>. QED  BY <1>3, <1>4, <2>2, <2>3, <2>4
<1>. QED  BY <1>5, <1>6, <1>7

(* The latest of a chain that is wholly visible is the newest of it; of a  *)
(* chain that is not, something has been deleted.                          *)
LEMMA SelectedSpent ==
  ASSUME WorldInv, NEW f \in SelectForDeletion(meta, sidecar, Keep, KeepDays, clock)
  PROVE  Spent(f) /\ \A b \in Chain(meta, sidecar, f) : b \in sidecar /\ root[b] = f
<1>. DEFINE g == GroupChains(meta, sidecar)
<1>1. /\ Timed(meta, sidecar) /\ OlderBases(meta, sidecar) /\ DOMAIN g \subseteq sidecar
      /\ sidecar \subseteq once /\ once \subseteq Backups
      /\ clock \in Nat /\ \A b \in Backups : meta[b].ts \in Nat
  BY SidecarChains DEF WorldInv, WorldTyped
<1>2. \A b \in DOMAIN g : g[b] = root[b]
  BY SidecarRoots
<1>3. /\ f \in sidecar /\ meta[f].kind = "full" /\ Cardinality(NewerFulls(f)) >= Keep
      /\ \E l \in sidecar : IsLatest(meta, sidecar, f, l) /\ clock - meta[l].ts >= KeepDays
  BY DEF SelectForDeletion, Fulls, NewerFulls
<1>4. root[f] = f
  BY <1>1, <1>3 DEF WorldInv, MetaInv
<1>5. \A b : b \in ChainIncrementals(meta, sidecar, f) <=>
               b \in sidecar /\ meta[b].kind = "incremental" /\ b \in DOMAIN g /\ root[b] = f
  BY <1>1, <1>2 DEF ChainIncrementals, Incrementals
<1>6. \A b \in Chain(meta, sidecar, f) : b \in sidecar /\ root[b] = f
  BY <1>3, <1>4, <1>5 DEF Chain
<1>. HIDE DEF g
<1>7. ASSUME NEW b \in once, root[b] = f PROVE clock - meta[b].ts >= KeepDays
  <2>. DEFINE X == {c \in once : root[c] = f}
  <2>1. CASE X \subseteq sidecar
    <3>1. \A c \in X : meta[c].kind = "full" \/ (meta[c].kind = "incremental" /\ meta[c].base \in X)
      BY <1>1 DEF WorldInv, WorldTyped, MetaInv
    <3>2. b \in DOMAIN g
      <4>. HIDE DEF X
      <4>1. X \subseteq DOMAIN g
        BY <1>1, <2>1, <3>1, ClosedInChains DEF g
      <4>2. b \in X
        BY <1>7 DEF X
      <4>. QED  BY <4>1, <4>2
    <3>3. PICK l \in sidecar : IsLatest(meta, sidecar, f, l) /\ clock - meta[l].ts >= KeepDays
      BY <1>3
    <3>4. b = f \/ b \in ChainIncrementals(meta, sidecar, f)
      <4>1. b \in sidecar /\ b \in Backups
        BY <1>1, <1>7, <2>1
      <4>2. meta[b].kind = "full" \/ meta[b].kind = "incremental"
        BY <1>7, <3>1
      <4>. QED  BY <1>5, <1>7, <3>2, <4>1, <4>2 DEF WorldInv, MetaInv
    <3>5. meta[b].ts <= meta[l].ts
      <4>1. CASE ChainIncrementals(meta, sidecar, f) = {}
        BY <1>1, <3>3, <3>4, <4>1 DEF IsLatest
      <4>2. CASE ChainIncrementals(meta, sidecar, f) # {}
        <5>1. /\ l \in ChainIncrementals(meta, sidecar, f)
              /\ Newer(meta, ChainIncrementals(meta, sidecar, f), l) = {}
          BY <3>3, <4>2 DEF IsLatest
        <5>2. meta[l].kind = "incremental" /\ root[l] = f /\ l \in Backups
          BY <1>1, <1>5, <5>1
        <5>3. meta[f].ts < meta[l].ts
          BY <5>2 DEF WorldInv, MetaInv
        <5>. QED  BY <1>1, <3>4, <5>1, <5>2, <5>3 DEF Newer
      <4>. QED  BY <4>1, <4>2
    <3>. QED  BY <1>1, <1>7, <3>3, <3>5, RetentionAssumption
  <2>2. CASE \E c \in X : c \notin sidecar
    BY <1>7, <2>2 DEF WorldInv, RetainInv, Spent
  <2>. QED  BY <2>1, <2>2
<1>. QED  BY <1>3, <1>6, <1>7 DEF Spent

(***************************************************************************)
(* Every action of the others keeps it                                     *)
(***************************************************************************)
(* What is spent stays spent while the newer full backups stay.            *)
LEMMA StaysSpent ==
  ASSUME WorldTyped, NEW f \in Backups, Spent(f), once' = once, UNCHANGED <<meta, root>>,
         clock' \in Nat, clock' >= clock, Cardinality(NewerFulls(f)') >= Keep
  PROVE  Spent(f)'
<1>1. \A b \in once : meta[b].ts \in Nat /\ clock \in Nat
  BY DEF WorldTyped
<1>2. \A b \in once : root[b] = f => clock' - meta[b].ts >= KeepDays
  BY <1>1, RetentionAssumption DEF Spent
<1>. QED  BY <1>2 DEF Spent

(* The actions that change neither the sidecars nor the metadata.          *)
LEMMA CalmWorld ==
  ASSUME WorldInv, UNCHANGED <<meta, root, sidecar, once>>,
         clock' \in Nat, clock' >= clock, dirs' \subseteq Backups, sidecar \subseteq dirs',
         dirs' \subseteq dirs,
         (pending' = pending /\ dirs' = dirs) \/ pending' = NoPath,
         doomed' \subseteq sidecar, \A b \in doomed' : b \in doomed \/ Spent(root[b])
  PROVE  WorldInv'
<1>. USE DEF WorldInv
<1>1. \A f : NewerFulls(f)' = NewerFulls(f)
  BY DEF NewerFulls, Newer, Fulls
<1>2. WorldTyped'
  BY DEF WorldTyped
<1>3. MetaInv'
  <2>1. \A b \in Backups : meta[b].ts \in Nat /\ clock \in Nat
    BY DEF WorldTyped
  <2>. QED  BY <2>1, PathsAssumption DEF MetaInv, WorldTyped
<1>4. RunInv'
  BY PathsAssumption DEF RunInv, IsNewestFull, Newer, Fulls
<1>5. RetainInv'
  <2>. SUFFICES ASSUME NEW b \in doomed' \cup (once \ sidecar), NEW f \in Backups, f = root[b]
                PROVE  Spent(f)'
    BY DEF RetainInv, Spent, WorldTyped, NewerFulls
  <2>1. Spent(f)
    BY DEF RetainInv
  <2>. QED  BY <1>1, <2>1, StaysSpent DEF Spent
<1>6. ChainsInv'
  BY DEF ChainsInv, Fulls
<1>. QED  BY <1>2, <1>3, <1>4, <1>5, <1>6

(* A chain that is spent is not the one the running backup extends.        *)
LEMMA SpentIsOld ==
  ASSUME WorldInv, NEW f \in Backups, Spent(f)
  PROVE  ~IsNewestFull(meta, sidecar, f)
<1>1. \E g \in Fulls(meta, sidecar) : meta[g].ts > meta[f].ts
  BY SomeNewer DEF WorldInv, Spent
<1>. QED  BY <1>1 DEF IsNewestFull, Newer

LEMMA DeleteWorld ==
  ASSUME WorldInv, NEW b \in doomed, NEW gone \in SUBSET {b},
         doomed' \subseteq doomed \ {b}, sidecar' = sidecar \ gone, dirs' = dirs \ gone,
         UNCHANGED <<clock, meta, root, pending, once>>
  PROVE  WorldInv'
<1>. USE DEF WorldInv
<1>1. /\ b \in sidecar /\ b \in once /\ b \in Backups /\ root[b] \in Backups /\ clock \in Nat
      /\ \A c \in Backups : meta[c].ts \in Nat
  BY DEF WorldTyped
<1>2. WorldTyped'
  BY DEF WorldTyped
<1>3. MetaInv'
  BY <1>1 DEF MetaInv
<1>4. RunInv'
  <2>. SUFFICES ASSUME pending \in Backups, meta[pending].kind = "incremental"
                PROVE  meta[pending].base \in sidecar' /\ IsNewestFull(meta, sidecar', root[pending])
    BY DEF RunInv
  <2>1. meta[pending].base \in sidecar /\ IsNewestFull(meta, sidecar, root[pending])
    BY DEF RunInv
  <2>2. root[pending] # root[b]
    BY <1>1, <2>1, SpentIsOld DEF RetainInv
  <2>3. root[pending] = root[meta[pending].base] /\ root[root[pending]] = root[pending]
    BY <2>1 DEF IsNewestFull, Fulls, MetaInv, WorldTyped
  <2>. QED  BY <2>1, <2>2, <2>3 DEF IsNewestFull, Newer, Fulls
<1>5. RetainInv'
  <2>. SUFFICES ASSUME NEW c \in doomed' \cup (once' \ sidecar')
                PROVE  Spent(root[c])'
    BY DEF RetainInv
  <2>. PICK f \in Backups : f = root[c] /\ f = root'[c]
    BY <1>1 DEF WorldTyped
  <2>0. c \in doomed \cup (once \ sidecar)
    BY <1>1
  <2>1. Spent(f)
    BY <2>0 DEF RetainInv
  <2>2. Cardinality(NewerFulls(f)') >= Keep
    BY <2>1, DeleteKeeps DEF Spent
  <2>3. Spent(f)'
    BY <1>1, <2>1, <2>2, StaysSpent
  <2>. QED  BY <2>3 DEF Spent, NewerFulls
<1>6. ChainsInv'
  BY DEF ChainsInv, Fulls
<1>. QED  BY <1>2, <1>3, <1>4, <1>5, <1>6

LEMMA WriteWorld == ASSUME WorldInv, WriteMetadata PROVE WorldInv'
<1>. USE DEF WorldInv
<1>. DEFINE p == pending
<1>1. /\ p \in Backups /\ p \notin once /\ p \in dirs
      /\ sidecar' = sidecar \cup {p} /\ once' = once \cup {p} /\ pending' = NoPath
      /\ UNCHANGED <<clock, meta, root, dirs, doomed>>
  BY DEF WriteMetadata, WorldTyped, MetaInv
<1>2. \A c \in Backups : meta[c].ts \in Nat /\ root[c] \in Backups
  BY DEF WorldTyped
<1>3. meta[p].kind \in {"full", "incremental"}
  BY <1>1 DEF MetaInv, WorldTyped
<1>4. meta[p].kind = "full" => root[p] = p
  BY <1>1 DEF MetaInv
<1>5. meta[p].kind = "incremental" =>
        /\ IsNewestFull(meta, sidecar, root[p])
        /\ ~\E g \in Fulls(meta, sidecar) : meta[g].ts > meta[root[p]].ts
  BY <1>1 DEF RunInv, IsNewestFull, Newer
<1>6. WorldTyped'
  BY <1>1 DEF WorldTyped
<1>. HIDE DEF p
<1>7. MetaInv'
  BY <1>1, PathsAssumption DEF MetaInv
<1>8. RunInv'
  BY <1>1, PathsAssumption DEF RunInv
<1>9. \A c \in once : root[c] \in once
  BY DEF MetaInv, WorldTyped
<1>10. RetainInv'
  <2>. SUFFICES ASSUME NEW c \in doomed' \cup (once' \ sidecar')
                PROVE  Spent(root[c])'
    BY DEF RetainInv
  <2>. PICK f \in Backups : f = root[c] /\ f = root'[c]
    BY <1>1 DEF WorldTyped
  <2>0. c \in doomed \cup (once \ sidecar)
    BY <1>1
  <2>1. Spent(f) /\ f \in once
    BY <1>9, <2>0 DEF RetainInv, WorldTyped
  <2>2. Cardinality(NewerFulls(f)') >= Keep
    <3>1. NewerFulls(f)' \in SUBSET Backups
      BY <1>6 DEF WorldTyped, NewerFulls, Newer, Fulls
    <3>2. NewerFulls(f) \subseteq NewerFulls(f)'
      BY <1>1 DEF NewerFulls, Newer, Fulls
    <3>. QED  BY <2>1, <3>1, <3>2, Enough DEF Spent
  <2>3. root[p] # f
    BY <1>1, <1>3, <1>4, <1>5, <2>1, SpentIsOld
  <2>4. Spent(f)'
    BY <1>1, <2>1, <2>2, <2>3 DEF Spent
  <2>. QED  BY <2>4 DEF Spent, NewerFulls
<1>11. ChainsInv'
  <2>. SUFFICES ASSUME NEW f \in Fulls(meta, once'), NEW b \in once',
                       meta[f].ts > meta[root[b]].ts
                PROVE  meta[f].ts > meta[b].ts
    BY <1>1 DEF ChainsInv, Fulls
  <2>1. f \in Backups /\ b \in Backups /\ meta[f].kind = "full"
    BY <1>1 DEF Fulls, WorldTyped
  <2>2. CASE f = p /\ b = p
    BY <1>2, <1>4, <2>1, <2>2
  <2>3. CASE f = p /\ b # p
    <3>1. meta[b].kind # "none"
      BY <1>1, <2>3 DEF MetaInv
    <3>. QED  BY <1>1, <1>2, <2>1, <2>3, <3>1 DEF MetaInv, p
  <2>4. CASE f # p /\ b = p /\ meta[p].kind = "full"
    BY <1>4, <2>4
  <2>5. CASE f # p /\ b = p /\ meta[p].kind = "incremental"
    <3>1. f \in Fulls(meta, once)
      BY <1>1, <2>1, <2>5 DEF Fulls
    <3>2. CASE f \in sidecar
      BY <1>5, <2>1, <2>5, <3>2 DEF Fulls
    <3>3. CASE f \notin sidecar
      <4>1. PICK g \in Fulls(meta, sidecar) : meta[g].ts > meta[f].ts
        <5>1. Spent(f)
          BY <2>1, <3>1, <3>3 DEF RetainInv, MetaInv, Fulls
        <5>. QED  BY <5>1, SomeNewer DEF Spent
      <4>2. g \in Backups
        BY DEF Fulls, WorldTyped
      <4>. QED  BY <1>1, <1>2, <1>5, <2>1, <2>5, <4>1, <4>2
    <3>. QED  BY <3>2, <3>3
  <2>6. CASE f # p /\ b # p
    BY <1>1, <2>1, <2>6 DEF ChainsInv, Fulls
  <2>. QED  BY <1>3, <2>2, <2>3, <2>4, <2>5, <2>6
<1>. QED  BY <1>6, <1>7, <1>8, <1>10, <1>11

LEMMA SubmitWorld ==
  ASSUME WorldInv, NEW b \in Backups, NEW base \in Backups \cup {NoPath}, Submit(b, base)
  PROVE  /\ WorldInv'
         /\ b \notin once
         /\ \A c \in Backups \ {b} : meta'[c] = meta[c] /\ root'[c] = root[c]
<1>. USE DEF WorldInv
<1>1. /\ pending = NoPath /\ meta[b].kind = "none"
      /\ dirs' = dirs \cup {b} /\ pending' = b /\ clock' = clock + 1
      /\ UNCHANGED <<sidecar, doomed, once>>
  BY DEF Submit
<1>2. b \notin dirs /\ b \notin once /\ b \notin sidecar
  BY <1>1 DEF MetaInv, WorldTyped
<1>3. \A c \in Backups \ {b} : meta'[c] = meta[c] /\ root'[c] = root[c]
  BY DEF Submit, WorldTyped
<1>4. base \in Backups => base \in sidecar /\ IsNewestFull(meta, sidecar, root[base])
  <2>. SUFFICES ASSUME base \in Backups
                PROVE  base \in sidecar /\ IsNewestFull(meta, sidecar, root[base])
    OBVIOUS
  <2>1. PICK f \in sidecar : IsNewestFull(meta, sidecar, f) /\ IsLatest(meta, sidecar, f, base)
    BY PathsAssumption DEF Submit, IsReported
  <2>2. base = f \/ base \in ChainIncrementals(meta, sidecar, f)
    BY <2>1 DEF IsLatest
  <2>3. base = f => root[base] = f
    BY <2>1 DEF IsNewestFull, Fulls, MetaInv
  <2>4. base \in ChainIncrementals(meta, sidecar, f) => base \in sidecar /\ root[base] = f
    BY SidecarRoots DEF ChainIncrementals, Incrementals
  <2>. QED  BY <2>1, <2>2, <2>3, <2>4
<1>5. /\ meta'[b].ts = clock /\ meta'[b].base = base
      /\ meta'[b].kind = IF base = NoPath THEN "full" ELSE "incremental"
      /\ root'[b] = IF base = NoPath THEN b ELSE root[base]
      /\ meta'[b] \in [kind : {"none", "full", "incremental"}, ts : Nat, base : Backups \cup {NoPath}]
  BY DEF Submit, WorldTyped
<1>6. WorldTyped'
  BY <1>1, <1>5 DEF Submit, WorldTyped
<1>7. \A c \in Backups : meta[c].ts \in Nat /\ root[c] \in Backups
  BY DEF WorldTyped
<1>8. \A f \in Backups \ {b} : NewerFulls(f)' = NewerFulls(f)
  BY <1>1, <1>2, <1>3 DEF NewerFulls, Newer, Fulls, WorldTyped
<1>9. MetaInv'
  <2>1. \A c \in dirs' \cup once : meta'[c].kind # "none"
    BY <1>1, <1>3, <1>5 DEF MetaInv, WorldTyped
  <2>2. \A c \in Backups : meta'[c].kind # "none" => meta'[c].ts < clock'
    <3>1. clock \in Nat
      BY DEF WorldTyped
    <3>. QED  BY <1>1, <1>3, <1>5, <1>7, <3>1 DEF MetaInv
  <2>3. \A c \in Backups : meta'[c].kind = "full" => root'[c] = c
    BY <1>3, <1>5 DEF MetaInv
  <2>4. ASSUME NEW c \in Backups, meta'[c].kind = "incremental"
        PROVE  /\ meta'[c].base \in once /\ root'[c] \in once
               /\ meta'[meta'[c].base].ts < meta'[c].ts /\ meta'[root'[c]].ts < meta'[c].ts
               /\ root'[c] = root'[meta'[c].base] /\ meta'[root'[c]].kind = "full"
    <3>1. CASE c = b
      <4>1. base \in Backups /\ base # NoPath
        BY <1>5, <2>4, <3>1
      <4>2. base \in sidecar /\ root[base] \in sidecar /\ meta[root[base]].kind = "full"
        BY <1>4, <4>1 DEF IsNewestFull, Fulls
      <4>3. base # b /\ root[base] # b /\ base \in once /\ root[base] \in once
        BY <1>2, <4>2 DEF WorldTyped
      <4>4. meta[base].ts < clock /\ meta[root[base]].ts < clock
        BY <4>3 DEF MetaInv, WorldTyped
      <4>. QED  BY <1>3, <1>5, <1>7, <3>1, <4>1, <4>2, <4>3, <4>4
    <3>2. CASE c # b
      <4>1. /\ meta[c].base \in once /\ root[c] \in once
            /\ meta[meta[c].base].ts < meta[c].ts /\ meta[root[c]].ts < meta[c].ts
            /\ root[c] = root[meta[c].base] /\ meta[root[c]].kind = "full"
        BY <1>3, <2>4, <3>2 DEF MetaInv
      <4>2. meta[c].base \in Backups \ {b} /\ root[c] \in Backups \ {b}
        BY <1>2, <4>1 DEF WorldTyped
      <4>. QED  BY <1>3, <3>2, <4>1, <4>2
    <3>. QED  BY <3>1, <3>2
  <2>5. \A c \in Backups \ {b} : meta[c].kind # "none" => meta[c].ts < meta'[b].ts
    BY <1>5 DEF MetaInv
  <2>6. \A c, d \in Backups :
          c # d /\ meta'[c].kind # "none" /\ meta'[d].kind # "none" => meta'[c].ts # meta'[d].ts
    BY <1>3, <1>5, <1>7, <2>5 DEF MetaInv
  <2>. QED  BY <1>1, <1>2, <1>3, <1>5, <2>1, <2>2, <2>3, <2>4, <2>5, <2>6 DEF MetaInv
<1>10. \A c \in once : /\ c \in Backups \ {b} /\ root[c] \in Backups \ {b}
                        /\ meta'[c] = meta[c] /\ root'[c] = root[c]
  <2>. SUFFICES ASSUME NEW c \in once PROVE c \in Backups \ {b} /\ root[c] \in Backups \ {b}
    BY <1>3
  <2>. QED  BY <1>2 DEF MetaInv, WorldTyped
<1>11. sidecar \subseteq once /\ doomed \subseteq once
  BY DEF WorldTyped
<1>12. RunInv'
  <2>. SUFFICES ASSUME meta'[b].kind = "incremental"
                PROVE  meta'[b].base \in sidecar /\ IsNewestFull(meta', sidecar, root'[b])
    BY <1>1 DEF RunInv
  <2>1. base \in sidecar /\ IsNewestFull(meta, sidecar, root[base]) /\ root'[b] = root[base]
    BY <1>4, <1>5
  <2>. QED  BY <1>5, <1>10, <1>11, <2>1 DEF IsNewestFull, Newer, Fulls
<1>13. RetainInv'
  <2>. SUFFICES ASSUME NEW c \in doomed \cup (once \ sidecar), NEW f \in Backups \ {b}, f = root[c]
                PROVE  Spent(f)'
    BY <1>1, <1>10, <1>11 DEF RetainInv, Spent, NewerFulls
  <2>1. Spent(f)
    BY DEF RetainInv
  <2>2. Cardinality(NewerFulls(f)') >= Keep
    BY <1>8, <2>1 DEF Spent
  <2>3. ASSUME NEW d \in once, root'[d] = f PROVE clock' - meta'[d].ts >= KeepDays
    <3>1. clock - meta[d].ts >= KeepDays /\ meta[d].ts \in Nat /\ clock \in Nat
      BY <1>7, <1>10, <2>1, <2>3 DEF Spent, WorldTyped
    <3>. QED  BY <1>1, <1>10, <3>1, RetentionAssumption
  <2>. QED  BY <1>1, <2>2, <2>3 DEF Spent
<1>14. ChainsInv'
  <2>1. Fulls(meta', once) = Fulls(meta, once) /\ Fulls(meta, once) \subseteq once
    BY <1>10 DEF Fulls
  <2>. SUFFICES ASSUME NEW f \in Fulls(meta, once), NEW c \in once, meta'[f].ts > meta'[root'[c]].ts
                PROVE  meta'[f].ts > meta'[c].ts
    BY <1>1, <2>1 DEF ChainsInv
  <2>2. meta[f].ts > meta[root[c]].ts
    BY <1>3, <1>10, <2>1
  <2>3. meta[f].ts > meta[c].ts
    BY <2>2 DEF ChainsInv
  <2>. QED  BY <1>10, <2>1, <2>3
<1>. QED  BY <1>2, <1>3, <1>6, <1>9, <1>12, <1>13, <1>14

LEMMA StepWorld == ASSUME WorldInv, [Next]_vars PROVE WorldInv'
<1>1. clock \in Nat
  BY DEF WorldInv, WorldTyped
<1>2. CASE Reader \/ UNCHANGED vars
  <2>1. UNCHANGED world
    BY <1>2 DEF Reader, vars, ListFulls, ListIncrementals, ListFails, ReadMetadata, GroupChainsOf,
                AttachOldest, Evaluate, Select
  <2>2. UNCHANGED <<clock, meta, root, dirs, sidecar, pending, doomed, once>>
    BY <2>1 DEF world
  <2>3. sidecar \subseteq dirs /\ dirs \subseteq Backups /\ doomed \subseteq sidecar
    BY DEF WorldInv, WorldTyped
  <2>. QED  BY <1>1, <2>2, <2>3, CalmWorld
<1>3. CASE \E b \in Backups, base \in Backups \cup {NoPath} : Submit(b, base)
  BY <1>3, SubmitWorld
<1>4. CASE WriteMetadata
  BY <1>4, WriteWorld
<1>5. ASSUME NEW b \in Backups, CleanupDeletes(b) PROVE WorldInv'
  BY <1>5, DeleteWorld DEF CleanupDeletes, IsNext
<1>6. ASSUME NEW b \in Backups, CleanupFails(b) PROVE WorldInv'
  <2>1. PICK gone \in SUBSET {b} :
          sidecar' = sidecar \ gone /\ dirs' = dirs \ gone /\ steady' = steady \ gone
    BY <1>6 DEF CleanupFails
  <2>2. /\ b \in doomed /\ doomed' \subseteq doomed \ {b}
        /\ UNCHANGED <<clock, meta, root, pending, once>>
    BY <1>6 DEF CleanupFails, IsNext
  <2>. QED  BY <2>1, <2>2, DeleteWorld
<1>7. CASE BackupFails \/ (\E b \in Backups : CleanupSelects(b)) \/ CleanupStops \/ Tick
  <2>1. /\ UNCHANGED <<meta, root, sidecar, once>>
        /\ dirs' \subseteq dirs /\ dirs \ {pending} \subseteq dirs'
        /\ (pending' = pending /\ dirs' = dirs) \/ pending' = NoPath
        /\ clock' = clock \/ clock' = clock + 1
        /\ \/ doomed' = doomed \/ doomed' = {}
           \/ \E f \in SelectForDeletion(meta, sidecar, Keep, KeepDays, clock) :
                 doomed' = Chain(meta, sidecar, f)
    BY <1>7 DEF BackupFails, CleanupSelects, CleanupStops, Tick
  <2>2. pending \notin sidecar /\ sidecar \subseteq dirs /\ dirs \subseteq Backups /\ doomed \subseteq sidecar
    BY PathsAssumption DEF WorldInv, WorldTyped, MetaInv
  <2>3. clock' \in Nat /\ clock' >= clock
    BY <1>1, <2>1
  <2>4. doomed' \subseteq sidecar /\ \A b \in doomed' : b \in doomed \/ Spent(root[b])
    BY <2>1, <2>2, SelectedSpent
  <2>. QED  BY <2>1, <2>2, <2>3, <2>4, CalmWorld
<1>. QED  BY <1>2, <1>3, <1>4, <1>5, <1>6, <1>7 DEF Next, Others

(***************************************************************************)
(* The reader                                                              *)
(***************************************************************************)
ReaderTyped ==
    /\ pc \in {"start", "group", "done", "failed"} \cup Reading
    /\ command \in {"check", "cleanup"} /\ request \in Requests \cup {NoRequest}
    /\ listed \subseteq Backups /\ view \subseteq once /\ skipped \subseteq Backups
    /\ steady \subseteq sidecar
    /\ DOMAIN chainOf \subseteq view /\ todo \subseteq view
    /\ verdict \in {"none", "ok", "stale", "missing"} /\ selected \subseteq view
    /\ endedAt \in Nat /\ faults \in Nat

(* Of what is visible, the newest has appeared last.                       *)
SteadyInv ==
    \A b \in steady, c \in sidecar : meta[c].ts <= meta[b].ts => c \in steady

(* Between the requests: what is still to be read, or has been.            *)
ReadInv ==
    /\ pc = "start" => view = {} /\ listed = {}
    /\ pc = "read fulls" => \A b \in Fulls(meta, steady) : b \in listed \cup view \cup skipped
    /\ pc = "read incrementals" =>
          /\ Fulls(meta, steady) \subseteq view \cup skipped
          /\ Incrementals(meta, steady) \subseteq listed \cup view \cup skipped
    /\ pc \in {"group", "done"} => steady \subseteq view \cup skipped
    /\ command = "cleanup" /\ pc # "failed" => skipped = {}

(* The loop of group_chains loses none of what was visible all the time    *)
(* with its bases: that of the oldest incremental left is attached.        *)
GroupInv ==
    /\ pc \in {"start", "failed"} \cup Reading => DOMAIN chainOf = {} /\ todo = {}
    /\ \A b \in DOMAIN chainOf : chainOf[b] = root[b]
    /\ todo \subseteq Incrementals(meta, view)
    /\ pc \in {"group", "done"} =>
          /\ Fulls(meta, view) \subseteq DOMAIN chainOf
          /\ skipped = {} => Restorable(meta, steady) \subseteq todo \cup DOMAIN chainOf

ReaderInv == ReaderTyped /\ SteadyInv /\ ReadInv /\ GroupInv

(***************************************************************************)
(* What can be restored                                                    *)
(***************************************************************************)
LEMMA RestorableClosed ==
  ASSUME NEW m, NEW S
  PROVE  /\ Restorable(m, S) \subseteq S
         /\ \A b \in Restorable(m, S) :
               m[b].kind = "incremental" => m[b].base \in Restorable(m, S)
         /\ \A C \in SUBSET S :
               (\A c \in C : m[c].kind = "incremental" => m[c].base \in C)
                  => C \subseteq Restorable(m, S)
<1>. DEFINE Closed(C) == \A c \in C : m[c].kind = "incremental" => m[c].base \in C
<1>1. Restorable(m, S) = UNION {C \in SUBSET S : Closed(C)}
  BY DEF Restorable
<1>2. ASSUME NEW b \in Restorable(m, S) PROVE \E C \in SUBSET S : b \in C /\ Closed(C)
  <2>. HIDE DEF Closed
  <2>. QED  BY <1>1
<1>3. \A C \in SUBSET S : Closed(C) => C \subseteq Restorable(m, S)
  <2>. HIDE DEF Closed
  <2>. QED  BY <1>1
<1>4. ASSUME NEW b \in Restorable(m, S), m[b].kind = "incremental"
      PROVE  m[b].base \in Restorable(m, S)
  <2>1. PICK C \in SUBSET S : b \in C /\ Closed(C)
    BY <1>2
  <2>2. m[b].base \in C
    BY <1>4, <2>1
  <2>. QED  BY <1>3, <2>1, <2>2
<1>5. Restorable(m, S) \subseteq S
  BY <1>2
<1>. QED  BY <1>3, <1>4, <1>5

LEMMA RestorableGrows ==
  ASSUME NEW m, NEW S, NEW k, NEW T, S \subseteq T, \A b \in S : k[b] = m[b]
  PROVE  Restorable(m, S) \subseteq Restorable(k, T)
<1>. DEFINE R == Restorable(m, S)
<1>1. /\ R \subseteq S
      /\ \A b \in R : m[b].kind = "incremental" => m[b].base \in R
  BY RestorableClosed
<1>. HIDE DEF R
<1>2. R \in SUBSET T /\ \A b \in R : k[b].kind = "incremental" => k[b].base \in R
  BY <1>1
<1>3. R \subseteq Restorable(k, T)
  BY <1>2, RestorableClosed
<1>. QED  BY <1>3 DEF R

(* A backup that can be restored belongs to a full backup that can.        *)
LEMMA RestorableRoot ==
  ASSUME WorldInv, NEW S \in SUBSET once, NEW b \in Restorable(meta, S)
  PROVE  root[b] \in Restorable(meta, S) /\ meta[root[b]].kind = "full"
<1>. DEFINE R == Restorable(meta, S)
            T == {c \in R : root[c] = root[b]}
<1>1. /\ R \subseteq once /\ once \subseteq Backups /\ b \in R
      /\ \A c \in R : meta[c].kind = "incremental" => meta[c].base \in R
  BY RestorableClosed DEF WorldInv, WorldTyped
<1>. HIDE DEF R
<1>2. Timed(meta, once)
  BY PathsAssumption, FS_Subset DEF Timed, WorldInv, WorldTyped
<1>3. T \in SUBSET once /\ T # {}
  BY <1>1
<1>4. PICK o \in T : \A c \in T : meta[o].ts <= meta[c].ts
  <2>. HIDE DEF T
  <2>. QED  BY <1>2, <1>3, HasOldest
<1>5. o \in Backups /\ meta[o].kind \in {"full", "incremental"} /\ meta[o].ts \in Nat
  BY <1>1, <1>3 DEF WorldInv, WorldTyped, MetaInv
<1>6. meta[o].kind # "incremental"
  <2>. SUFFICES ASSUME meta[o].kind = "incremental" PROVE FALSE
    OBVIOUS
  <2>1. meta[o].base \in T /\ meta[meta[o].base].ts < meta[o].ts
    BY <1>1, <1>5 DEF WorldInv, MetaInv
  <2>2. meta[meta[o].base].ts \in Nat
    BY <1>2, <1>3, <2>1 DEF Timed
  <2>. QED  BY <1>4, <1>5, <2>1, <2>2
<1>7. root[o] = o
  BY <1>5, <1>6 DEF WorldInv, MetaInv
<1>. QED  BY <1>5, <1>6, <1>7 DEF R

(***************************************************************************)
(* The reader keeps its invariant                                          *)
(***************************************************************************)
(* What the others do to it: they delete some of what was visible, and add *)
(* what is newer.                                                          *)
LEMMA OthersReader ==
  ASSUME WorldInv, ReaderInv, UNCHANGED reader,
         steady' = steady, sidecar \subseteq sidecar', once \subseteq once',
         \A b \in sidecar' \ sidecar : \A c \in once : ~(meta[b].ts <= meta[c].ts),
         sidecar' = sidecar \/ meta' = meta,
         \A b \in once : meta'[b] = meta[b] /\ root'[b] = root[b]
  PROVE  ReaderInv'
<1>. USE DEF WorldInv, ReaderInv
<1>1. /\ UNCHANGED <<pc, command, request, listed, view, skipped, chainOf, todo, verdict,
                     selected, endedAt, faults>>
      /\ steady \subseteq once /\ view \subseteq once /\ sidecar \subseteq once
  BY DEF reader, result, ReaderTyped, WorldTyped
<1>2. ReaderTyped'
  BY <1>1 DEF ReaderTyped
<1>3. SteadyInv'
  BY <1>1 DEF SteadyInv
<1>4. ReadInv'
  BY <1>1 DEF ReadInv, Fulls, Incrementals
<1>5. GroupInv'
  <2>1. Restorable(meta', steady) \subseteq Restorable(meta, steady)
    BY <1>1, RestorableGrows
  <2>2. Fulls(meta', view) = Fulls(meta, view) /\ Incrementals(meta', view) = Incrementals(meta, view)
    BY <1>1 DEF Fulls, Incrementals
  <2>3. \A b \in DOMAIN chainOf : chainOf[b] = root'[b]
    BY <1>1 DEF GroupInv, ReaderTyped
  <2>. QED  BY <1>1, <2>1, <2>2, <2>3 DEF GroupInv
<1>. QED  BY <1>2, <1>3, <1>4, <1>5

LEMMA DeleteReader ==
  ASSUME WorldInv, ReaderInv, NEW gone \in SUBSET Backups,
         sidecar' = sidecar \ gone, steady' = steady \ gone,
         UNCHANGED <<meta, root, once, reader>>
  PROVE  ReaderInv'
<1>. USE DEF WorldInv, ReaderInv
<1>1. UNCHANGED <<pc, command, request, listed, view, skipped, chainOf, todo, verdict,
                  selected, endedAt, faults, meta, root, once>>
  BY DEF reader, result
<1>2. ReaderTyped'
  BY <1>1 DEF ReaderTyped
<1>3. SteadyInv'
  BY <1>1 DEF SteadyInv
<1>4. ReadInv'
  BY <1>1 DEF ReadInv, Fulls, Incrementals
<1>5. GroupInv'
  <2>1. Restorable(meta, steady') \subseteq Restorable(meta, steady)
    BY RestorableGrows
  <2>. QED  BY <1>1, <2>1 DEF GroupInv
<1>. QED  BY <1>2, <1>3, <1>4, <1>5

LEMMA ReaderReader == ASSUME WorldInv, ReaderInv, Reader PROVE ReaderInv'
<1>. USE DEF WorldInv, ReaderInv
<1>1. UNCHANGED <<clock, meta, root, dirs, sidecar, pending, doomed, once>>
  BY DEF Reader, world, ListFulls, ListIncrementals, ListFails, ReadMetadata, GroupChainsOf,
         AttachOldest, Evaluate, Select
<1>2. sidecar \subseteq once /\ sidecar \subseteq dirs /\ dirs \subseteq Backups
  BY DEF WorldTyped
<1>3. CASE ListFulls
  <2>1. /\ pc = "start" /\ pc' = "read fulls" /\ steady' = sidecar
        /\ listed' = {b \in dirs : meta[b].kind = "full"}
        /\ UNCHANGED <<command, request, view, skipped, chainOf, todo, verdict, selected, endedAt, faults>>
    BY <1>3 DEF ListFulls, Directory, result
  <2>2. ReaderTyped'
    BY <1>1, <1>2, <2>1 DEF ReaderTyped, Reading
  <2>3. SteadyInv'
    BY <1>1, <2>1 DEF SteadyInv
  <2>4. ReadInv'
    BY <1>1, <1>2, <2>1 DEF ReadInv, Fulls
  <2>5. GroupInv'
    BY <1>1, <2>1 DEF GroupInv, Reading
  <2>. QED  BY <2>2, <2>3, <2>4, <2>5
<1>4. CASE ListIncrementals
  <2>1. /\ pc = "read fulls" /\ pc' = "read incrementals" /\ listed = {}
        /\ listed' = {b \in dirs : meta[b].kind = "incremental"}
        /\ UNCHANGED <<command, request, view, skipped, chainOf, todo, verdict, selected, endedAt,
                       faults, steady>>
    BY <1>4 DEF ListIncrementals, Directory, result
  <2>2. ReaderTyped'
    BY <1>1, <1>2, <2>1 DEF ReaderTyped, Reading
  <2>3. SteadyInv'
    BY <1>1, <2>1 DEF SteadyInv
  <2>4. ReadInv'
    BY <1>1, <1>2, <2>1 DEF ReadInv, ReaderTyped, Fulls, Incrementals
  <2>5. GroupInv'
    BY <1>1, <2>1 DEF GroupInv, Reading
  <2>. QED  BY <2>2, <2>3, <2>4, <2>5
<1>5. CASE ListFails
  <2>1. /\ pc \in {"start", "read fulls"} /\ pc' = "failed" /\ faults' = faults + 1
        /\ UNCHANGED <<command, request, listed, view, skipped, chainOf, todo, verdict, selected,
                       endedAt, steady>>
    BY <1>5 DEF ListFails, Fault, result
  <2>2. ReaderTyped'
    <3>1. faults \in Nat /\ faults' = faults + 1
      BY <1>5 DEF ReaderTyped, ListFails, Fault
    <3>2. faults' \in Nat
      BY <3>1
    <3>. QED  BY <1>1, <2>1, <3>2 DEF ReaderTyped
  <2>3. SteadyInv' /\ ReadInv'
    BY <1>1, <2>1 DEF SteadyInv, ReadInv, Reading
  <2>4. GroupInv'
    BY <1>1, <2>1 DEF GroupInv, Reading
  <2>. QED  BY <2>2, <2>3, <2>4
<1>6. ASSUME NEW b \in Backups, ReadMetadata(b) PROVE ReaderInv'
  <2>1. /\ pc \in Reading /\ b \in listed /\ listed' = listed \ {b}
        /\ UNCHANGED <<command, request, chainOf, todo, verdict, selected, endedAt, steady>>
        /\ \/ /\ view' = IF b \in sidecar THEN view \cup {b} ELSE view
              /\ UNCHANGED <<pc, skipped, faults>>
           \/ /\ faults' = faults + 1 /\ skipped' = skipped \cup {b} /\ view' = view
              /\ pc' = IF command = "cleanup" THEN "failed" ELSE pc
    BY <1>6 DEF ReadMetadata, HasMetadata, IsStrict, Fault, result
  <2>2. ReaderTyped'
    <3>1. /\ pc' \in Reading \cup {"failed"} /\ faults' \in Nat
          /\ view' \subseteq once /\ view \subseteq view' /\ skipped' \subseteq Backups
      BY <1>2, <2>1 DEF ReaderTyped
    <3>. QED  BY <1>1, <2>1, <3>1 DEF ReaderTyped
  <2>3. SteadyInv'
    BY <1>1, <2>1 DEF SteadyInv
  <2>4. ReadInv'
    <3>1. steady \subseteq sidecar
      BY DEF ReaderTyped
    <3>2. \A c \in steady : c \in listed \cup view \cup skipped => c \in listed' \cup view' \cup skipped'
      BY <2>1, <3>1
    <3>3. view \subseteq view' /\ skipped \subseteq skipped' /\ pc' \in {pc, "failed"}
      BY <2>1
    <3>4. command = "cleanup" /\ pc' # "failed" => skipped' = {}
      BY <2>1 DEF ReadInv, Reading
    <3>. QED  BY <1>1, <2>1, <3>2, <3>3, <3>4 DEF ReadInv, Reading, Fulls, Incrementals
  <2>5. GroupInv'
    BY <1>1, <2>1 DEF GroupInv, Reading
  <2>. QED  BY <2>2, <2>3, <2>4, <2>5
<1>7. CASE GroupChainsOf
  <2>1. /\ pc = "read incrementals" /\ pc' = "group" /\ listed = {}
        /\ DOMAIN chainOf' = Fulls(meta, view) /\ todo' = Incrementals(meta, view)
        /\ \A f \in Fulls(meta, view) : chainOf'[f] = f
        /\ UNCHANGED <<command, request, listed, view, skipped, verdict, selected, endedAt, faults, steady>>
    BY <1>7 DEF GroupChainsOf, result
  <2>2. ReaderTyped'
    BY <1>1, <2>1 DEF ReaderTyped, Fulls, Incrementals
  <2>3. SteadyInv'
    BY <1>1, <2>1 DEF SteadyInv
  <2>4. \A b \in steady : b \in Fulls(meta, steady) \/ b \in Incrementals(meta, steady)
    BY <1>2 DEF ReaderTyped, MetaInv, WorldTyped, Fulls, Incrementals
  <2>5. ReadInv'
    BY <1>1, <2>1, <2>4 DEF ReadInv
  <2>6. GroupInv'
    <3>1. \A f \in Fulls(meta, view) : root[f] = f
      BY DEF Fulls, MetaInv, ReaderTyped, WorldTyped
    <3>2. skipped = {} => steady \subseteq Fulls(meta, view) \cup Incrementals(meta, view)
      BY <2>1, <2>4 DEF ReadInv, Fulls, Incrementals
    <3>3. Restorable(meta, steady) \subseteq steady
      BY RestorableClosed
    <3>. QED  BY <1>1, <2>1, <3>1, <3>2, <3>3 DEF GroupInv, Reading
  <2>. QED  BY <2>2, <2>3, <2>5, <2>6
<1>8. ASSUME NEW b \in Backups, AttachOldest(b) PROVE ReaderInv'
  <2>. DEFINE base == meta[b].base
  <2>1. /\ pc = "group" /\ b \in todo /\ \A c \in todo : meta[b].ts <= meta[c].ts
        /\ todo' = todo \ {b} /\ chainOf' = Attach(meta, chainOf, b)
        /\ UNCHANGED <<pc, command, request, listed, view, skipped, verdict, selected, endedAt,
                       faults, steady>>
    BY <1>8 DEF AttachOldest, result
  <2>2. \/ base \notin DOMAIN chainOf /\ chainOf' = chainOf
        \/ /\ base \in DOMAIN chainOf /\ DOMAIN chainOf' = DOMAIN chainOf \cup {b}
           /\ chainOf'[b] = chainOf[base]
           /\ \A c \in DOMAIN chainOf \ {b} : chainOf'[c] = chainOf[c]
    BY <2>1 DEF Attach
  <2>3. /\ b \in view /\ meta[b].kind = "incremental" /\ meta[base].ts < meta[b].ts
        /\ root[b] = root[base] /\ base \in Backups
        /\ meta[b].ts \in Nat /\ meta[base].ts \in Nat
    BY <2>1 DEF GroupInv, Incrementals, MetaInv, WorldTyped
  <2>. HIDE DEF base
  <2>4. ReaderTyped'
    BY <1>1, <2>1, <2>2, <2>3 DEF ReaderTyped
  <2>5. SteadyInv' /\ ReadInv'
    BY <1>1, <2>1 DEF SteadyInv, ReadInv
  <2>6. \A c \in DOMAIN chainOf' : chainOf'[c] = root[c]
    BY <2>2, <2>3 DEF GroupInv
  <2>7. ASSUME skipped = {} PROVE Restorable(meta, steady) \subseteq todo' \cup DOMAIN chainOf'
    <3>1. Restorable(meta, steady) \subseteq todo \cup DOMAIN chainOf
      BY <2>1, <2>7 DEF GroupInv
    <3>2. b \in Restorable(meta, steady) => base \in Restorable(meta, steady) /\ base \notin todo
      BY <2>1, <2>3, RestorableClosed DEF base
    <3>. QED  BY <2>1, <2>2, <3>1, <3>2
  <2>8. GroupInv'
    BY <1>1, <2>1, <2>2, <2>6, <2>7 DEF GroupInv, Reading
  <2>. QED  BY <2>4, <2>5, <2>8
<1>9. CASE Evaluate \/ Select
  <2>1. /\ pc = "group" /\ pc' = "done" /\ endedAt' = clock
        /\ UNCHANGED <<command, listed, view, skipped, chainOf, todo, faults, steady>>
        /\ request' \in Requests \cup {NoRequest}
        /\ verdict' \in {"none", "ok", "stale", "missing"} /\ selected' \subseteq view
    BY <1>9 DEF Evaluate, Select, ReaderTyped, Fulls
  <2>2. clock \in Nat
    BY DEF WorldTyped
  <2>3. ReaderTyped'
    BY <1>1, <2>1, <2>2 DEF ReaderTyped
  <2>4. SteadyInv'
    BY <1>1, <2>1 DEF SteadyInv
  <2>5. ReadInv'
    BY <1>1, <2>1 DEF ReadInv
  <2>6. GroupInv'
    BY <1>1, <2>1 DEF GroupInv, Reading
  <2>. QED  BY <2>3, <2>4, <2>5, <2>6
<1>. QED  BY <1>3, <1>4, <1>5, <1>6, <1>7, <1>8, <1>9 DEF Reader

LEMMA InitReader == Init => ReaderInv
<1>. SUFFICES ASSUME Init PROVE ReaderInv
  OBVIOUS
<1>1. ReaderTyped
  BY DEF Init, ReaderTyped
<1>2. SteadyInv /\ ReadInv /\ GroupInv
  BY DEF Init, SteadyInv, ReadInv, GroupInv, Incrementals, Reading
<1>. QED  BY <1>1, <1>2 DEF ReaderInv

LEMMA StepReader == ASSUME WorldInv, ReaderInv, [Next]_vars PROVE ReaderInv'
<1>1. once \subseteq Backups /\ meta \in [Backups -> [kind : {"none", "full", "incremental"},
                                                      ts : Nat, base : Backups \cup {NoPath}]]
      /\ root \in [Backups -> Backups]
  BY DEF WorldInv, WorldTyped
<1>2. CASE UNCHANGED vars
  <2>1. UNCHANGED reader /\ UNCHANGED <<steady, sidecar, once, meta, root>>
    BY <1>2 DEF vars, world
  <2>. QED  BY <2>1, OthersReader
<1>3. ASSUME NEW b \in Backups, NEW base \in Backups \cup {NoPath}, Submit(b, base)
      PROVE  ReaderInv'
  <2>1. UNCHANGED reader /\ UNCHANGED <<steady, sidecar, once>> /\ meta[b].kind = "none"
    BY <1>3 DEF Submit
  <2>2. b \notin once
    BY <2>1 DEF WorldInv, MetaInv
  <2>3. \A c \in once : meta'[c] = meta[c] /\ root'[c] = root[c]
    BY <1>1, <1>3, <2>2 DEF Submit
  <2>. QED  BY <2>1, <2>3, OthersReader
<1>4. CASE BackupFails \/ (\E b \in Backups : CleanupSelects(b)) \/ CleanupStops \/ Tick
  <2>1. UNCHANGED reader /\ UNCHANGED <<steady, meta, root, sidecar, once>>
    BY <1>4 DEF BackupFails, CleanupSelects, CleanupStops, Tick
  <2>. QED  BY <2>1, OthersReader
<1>5. CASE WriteMetadata
  <2>1. /\ UNCHANGED reader /\ UNCHANGED <<steady, meta, root>>
        /\ sidecar' = sidecar \cup {pending} /\ once' = once \cup {pending} /\ pending \in Backups
    BY <1>5 DEF WriteMetadata, WorldInv, WorldTyped
  <2>2. \A c \in once : ~(meta[pending].ts <= meta[c].ts)
    <3>. SUFFICES ASSUME NEW c \in once PROVE ~(meta[pending].ts <= meta[c].ts)
      OBVIOUS
    <3>1. meta[c].ts < meta[pending].ts
      BY <1>1, <2>1 DEF WorldInv, MetaInv
    <3>. QED  BY <1>1, <2>1, <3>1
  <2>. QED  BY <2>1, <2>2, OthersReader
<1>7. ASSUME NEW b \in Backups, CleanupDeletes(b) \/ CleanupFails(b) PROVE ReaderInv'
  <2>1. PICK gone \in SUBSET {b} : sidecar' = sidecar \ gone /\ steady' = steady \ gone
    BY <1>7 DEF CleanupDeletes, CleanupFails
  <2>2. UNCHANGED <<meta, root, once, reader>> /\ gone \in SUBSET Backups
    BY <1>7 DEF CleanupDeletes, CleanupFails
  <2>. QED  BY <2>1, <2>2, DeleteReader
<1>6. CASE Reader
  BY <1>6, ReaderReader
<1>. QED  BY <1>2, <1>3, <1>4, <1>5, <1>6, <1>7 DEF Next, Others

(***************************************************************************)
(* What the consumers decide                                               *)
(***************************************************************************)
DecideInv ==
    /\ pc # "done" => verdict = "none" /\ selected = {}
    /\ OkMeansFresh /\ FreshMeansOk /\ SelectedAreOld

(* BackupChain::latest is the newest of a chain that hangs together.       *)
LEMMA LatestIsNewest ==
  ASSUME WorldInv, ReaderInv, NEW f \in Fulls(meta, view), NEW b \in Attached(f), NEW l,
         LatestOf(f, l)
  PROVE  l \in Attached(f) /\ meta[b].ts <= meta[l].ts
<1>1. /\ \A c \in Attached(f) : c \in view /\ c \in once /\ c \in Backups /\ root[c] = f
      /\ f \in Backups /\ \A c \in Backups : meta[c].ts \in Nat
  BY DEF WorldInv, WorldTyped, ReaderInv, ReaderTyped, GroupInv, Attached, Fulls
<1>2. CASE Attached(f) = {f}
  BY <1>1, <1>2 DEF LatestOf
<1>3. CASE Attached(f) # {f}
  <2>1. l \in Attached(f) \ {f} /\ \A c \in Attached(f) \ {f} : ~(meta[c].ts > meta[l].ts)
    BY <1>3 DEF LatestOf, Newer
  <2>2. meta[f].ts < meta[l].ts
    <3>1. meta[l].kind \in {"full", "incremental"}
      BY <1>1, <2>1 DEF WorldInv, WorldTyped, MetaInv
    <3>2. meta[l].kind # "full"
      BY <1>1, <2>1 DEF WorldInv, MetaInv
    <3>. QED  BY <1>1, <2>1, <3>1, <3>2 DEF WorldInv, MetaInv
  <2>. QED  BY <1>1, <2>1, <2>2
<1>. QED  BY <1>2, <1>3

(* Every step but the decision leaves what was decided true.               *)
LEMMA Undisturbed ==
  ASSUME WorldInv, ReaderInv, DecideInv, UNCHANGED <<verdict, selected, endedAt, request>>,
         \A b \in once : meta'[b] = meta[b] /\ root'[b] = root[b],
         once \subseteq once', view \subseteq view',
         \/ pc = "done" /\ pc' = "done" /\ skipped' = skipped /\ steady' \subseteq steady
         \/ pc # "done" /\ pc' # "done"
  PROVE  DecideInv'
<1>1. steady \subseteq once /\ view \subseteq once
  BY DEF WorldInv, WorldTyped, ReaderInv, ReaderTyped
<1>2. CASE pc # "done" /\ pc' # "done"
  BY <1>2 DEF DecideInv, OkMeansFresh, FreshMeansOk, SelectedAreOld
<1>3. CASE pc = "done" /\ pc' = "done" /\ skipped' = skipped /\ steady' \subseteq steady
  <2>1. OkMeansFresh'
    BY <1>1 DEF DecideInv, OkMeansFresh
  <2>2. FreshMeansOk'
    <3>1. Restorable(meta', steady') \subseteq Restorable(meta, steady)
            /\ Restorable(meta', steady') \subseteq once
      <4>1. \A b \in steady' : meta[b] = meta'[b]
        BY <1>1, <1>3
      <4>2. Restorable(meta', steady') \subseteq Restorable(meta, steady)
        BY <1>3, <4>1, RestorableGrows
      <4>3. Restorable(meta', steady') \subseteq steady'
        BY RestorableClosed
      <4>. QED  BY <1>1, <1>3, <4>2, <4>3
    <3>2. FreshMeansOk /\ UNCHANGED <<verdict, endedAt, request, skipped>>
            /\ \A b \in once : meta'[b] = meta[b]
      BY <1>3 DEF DecideInv
    <3>. QED  BY <3>1, <3>2 DEF FreshMeansOk, Wraps
  <2>3. SelectedAreOld'
    BY <1>1, <1>3 DEF DecideInv, SelectedAreOld
  <2>. QED  BY <1>3, <2>1, <2>2, <2>3 DEF DecideInv
<1>. QED  BY <1>2, <1>3

(* parse_max_age, checked and unchecked: wrapping only makes it shorter.   *)
LEMMA WrapShortens ==
  ASSUME NEW r \in Requests
  PROVE  MaxAge(r) \in Nat /\ r.value * r.unit \in Nat /\ MaxAge(r) <= r.value * r.unit
<1>1. r.value \in Nat /\ r.unit \in Nat
  BY RequestsAssumption
<1>2. r.value * r.unit \in Nat
  BY <1>1
<1>3. ASSUME NEW x \in Nat, NEW w \in Nat \ {0} PROVE x % w \in Nat /\ x % w <= x
  OBVIOUS
<1>. QED  BY <1>2, <1>3, RequestsAssumption DEF MaxAge

LEMMA WrapsOrNot == ASSUME NEW r \in Requests, ~Wraps(r) PROVE MaxAge(r) = r.value * r.unit
<1>1. r.value * r.unit \in Nat /\ Word \in Nat \ {0}
  BY WrapShortens, RequestsAssumption
<1>2. ASSUME NEW x \in Nat, NEW w \in Nat \ {0}, ~(x >= w) PROVE x % w = x
  BY <1>2
<1>. QED  BY <1>1, <1>2 DEF Wraps, MaxAge

(* The newest chain as grouped has a latest backup as new as any that was  *)
(* visible all the time with its bases.                                    *)
LEMMA ReportedIsNewest ==
  ASSUME WorldInv, ReaderInv, pc = "group", todo = {}, skipped = {},
         NEW b \in Restorable(meta, steady), NEW l, OfFirstChain(l)
  PROVE  meta[b].ts <= meta[l].ts
<1>1. /\ steady \subseteq view /\ view \subseteq once /\ once \subseteq Backups
      /\ Restorable(meta, steady) \subseteq DOMAIN chainOf
      /\ \A c \in Backups : meta[c].ts \in Nat /\ root[c] \in Backups
  BY DEF WorldInv, WorldTyped, ReaderInv, ReaderTyped, ReadInv, GroupInv
<1>2. b \in view /\ root[b] \in Fulls(meta, view)
  <2>1. root[b] \in Restorable(meta, steady) /\ meta[root[b]].kind = "full"
    BY <1>1, RestorableRoot
  <2>2. Restorable(meta, steady) \subseteq steady
    BY RestorableClosed
  <2>. QED  BY <1>1, <2>1, <2>2 DEF Fulls
<1>3. PICK f \in view : First(f) /\ LatestOf(f, l)
  BY DEF OfFirstChain
<1>4. f \in Fulls(meta, view) /\ meta[root[b]].ts <= meta[f].ts
  BY <1>1, <1>2, <1>3 DEF First, Newer
<1>5. f \in Attached(f)
  BY <1>1, <1>4 DEF ReaderInv, GroupInv, Attached, WorldInv, MetaInv, Fulls
<1>6. CASE root[b] = f
  <2>1. b \in Attached(f)
    BY <1>1, <1>6 DEF ReaderInv, GroupInv, Attached
  <2>. QED  BY <1>3, <1>4, <2>1, LatestIsNewest
<1>7. CASE root[b] # f
  <2>1. meta[root[b]].ts # meta[f].ts
    BY <1>1, <1>2, <1>4, <1>7 DEF WorldInv, MetaInv, Fulls
  <2>2. f \in Fulls(meta, once) /\ b \in once /\ meta[f].ts > meta[root[b]].ts
    BY <1>1, <1>2, <1>4, <2>1 DEF Fulls
  <2>3. meta[f].ts > meta[b].ts
    BY <2>2 DEF WorldInv, ChainsInv
  <2>4. meta[f].ts <= meta[l].ts /\ l \in Attached(f)
    BY <1>3, <1>4, <1>5, LatestIsNewest
  <2>5. b \in Backups /\ f \in Backups /\ l \in Backups
    BY <1>1, <1>2, <2>4 DEF Attached, ReaderInv, ReaderTyped
  <2>. QED  BY <1>1, <2>3, <2>4, <2>5
<1>. QED  BY <1>6, <1>7

LEMMA EvaluateDecides == ASSUME WorldInv, ReaderInv, DecideInv, Evaluate PROVE DecideInv'
<1>1. /\ pc = "group" /\ pc' = "done" /\ todo = {} /\ endedAt' = clock
      /\ selected' = selected /\ selected = {}
      /\ UNCHANGED <<clock, meta, root, once, view, skipped, steady>>
  BY DEF Evaluate, DecideInv, world
<1>2. /\ view \subseteq once /\ once \subseteq Backups /\ clock \in Nat /\ steady \subseteq Backups
      /\ \A c \in Backups : meta[c].ts \in Nat
  BY DEF WorldInv, WorldTyped, ReaderInv, ReaderTyped
<1>3. PICK r \in Requests :
        /\ request' = r
        /\ \/ Fulls(meta, view) = {} /\ verdict' = "missing"
           \/ \E b \in view : OfFirstChain(b) /\ verdict' = IF Age(b) <= MaxAge(r) THEN "ok" ELSE "stale"
  BY DEF Evaluate
<1>4. MaxAge(r) \in Nat /\ r.value * r.unit \in Nat /\ MaxAge(r) <= r.value * r.unit
  BY WrapShortens
<1>5. Behind \in Nat
  BY TimeAssumption
<1>6. CASE Fulls(meta, view) = {} /\ verdict' = "missing"
  <2>1. ASSUME skipped = {}, NEW b \in Restorable(meta, steady) PROVE FALSE
    <3>1. steady \subseteq view /\ steady \subseteq once
      BY <1>1, <1>2, <2>1 DEF ReaderInv, ReadInv
    <3>2. root[b] \in Restorable(meta, steady) /\ meta[root[b]].kind = "full"
      BY <3>1, RestorableRoot
    <3>3. Restorable(meta, steady) \subseteq steady
      BY RestorableClosed
    <3>. QED  BY <1>6, <3>1, <3>2, <3>3 DEF Fulls
  <2>2. FreshMeansOk'
    BY <1>1, <1>6, <2>1 DEF FreshMeansOk
  <2>. QED  BY <1>1, <1>6, <2>2 DEF DecideInv, OkMeansFresh, SelectedAreOld
<1>7. CASE \E b \in view : OfFirstChain(b) /\ verdict' = IF Age(b) <= MaxAge(r) THEN "ok" ELSE "stale"
  <2>1. PICK l \in view : OfFirstChain(l) /\ verdict' = IF Age(l) <= MaxAge(r) THEN "ok" ELSE "stale"
    BY <1>7
  <2>2. l \in once /\ meta[l].ts \in Nat
    BY <1>2
  <2>3. Age(l) \in Nat /\ Age(l) >= clock - Behind - meta[l].ts
        /\ (Age(l) = 0 \/ Age(l) = clock - Behind - meta[l].ts)
    BY <1>2, <1>5, <2>2 DEF Age, ReaderNow
  <2>4. OkMeansFresh'
    <3>. SUFFICES ASSUME verdict' = "ok"
                  PROVE  clock - Behind - meta[l].ts <= r.value * r.unit
      BY <1>1, <1>3, <2>2 DEF OkMeansFresh
    <3>1. Age(l) <= MaxAge(r)
      BY <2>1
    <3>. QED  BY <1>2, <1>4, <1>5, <2>2, <2>3, <3>1
  <2>5. FreshMeansOk'
    <3>1. verdict' # "missing"
      BY <2>1
    <3>. SUFFICES ASSUME verdict' = "stale", skipped = {}, ~Wraps(r),
                         NEW b \in Restorable(meta, steady)
                  PROVE  clock - meta[b].ts > r.value * r.unit
      BY <1>1, <1>3, <3>1 DEF FreshMeansOk, Wraps
    <3>2. ~(Age(l) <= MaxAge(r))
      BY <2>1
    <3>3. MaxAge(r) = r.value * r.unit
      BY WrapsOrNot
    <3>4. meta[b].ts <= meta[l].ts
      BY <1>1, <2>1, ReportedIsNewest
    <3>5. meta[b].ts \in Nat
      BY <1>2, RestorableClosed
    <3>. DEFINE limit == MaxAge(r)
    <3>6. clock - meta[b].ts > limit
      <4>1. limit \in Nat
        BY <1>4
      <4>. HIDE DEF limit
      <4>. QED  BY <1>2, <1>5, <2>2, <2>3, <3>2, <3>4, <3>5, <4>1 DEF limit
    <3>. QED  BY <3>3, <3>6
  <2>. QED  BY <1>1, <2>4, <2>5 DEF DecideInv, SelectedAreOld
<1>. QED  BY <1>3, <1>6, <1>7

LEMMA SelectDecides == ASSUME WorldInv, ReaderInv, DecideInv, Select PROVE DecideInv'
<1>1. /\ pc = "group" /\ pc' = "done" /\ todo = {} /\ endedAt' = clock /\ command = "cleanup"
      /\ verdict' = verdict /\ verdict = "none"
      /\ selected' = {f \in Fulls(meta, view) : Selects(f)}
      /\ UNCHANGED <<clock, meta, root, once, view, skipped, steady>>
  BY DEF Select, DecideInv, world
<1>2. ASSUME NEW f \in Fulls(meta, view), Selects(f), NEW b \in steady, root[b] = f
      PROVE  clock - meta[b].ts >= KeepDays
  <2>. DEFINE X == {c \in once : root[c] = f /\ meta[c].ts <= meta[b].ts}
  <2>1. /\ b \in sidecar /\ sidecar \subseteq once /\ once \subseteq Backups /\ clock \in Nat
        /\ \A c \in Backups : meta[c].ts \in Nat
    BY DEF WorldInv, WorldTyped, ReaderInv, ReaderTyped
  <2>2. CASE X \subseteq sidecar
    <3>1. X \subseteq steady
      BY <2>2 DEF ReaderInv, SteadyInv
    <3>2. \A c \in X : meta[c].kind = "incremental" => meta[c].base \in X
      <4>. SUFFICES ASSUME NEW c \in X, meta[c].kind = "incremental" PROVE meta[c].base \in X
        OBVIOUS
      <4>1. /\ c \in Backups /\ meta[c].base \in once /\ root[meta[c].base] = f
            /\ meta[meta[c].base].ts < meta[c].ts
        BY <2>1, <2>2 DEF WorldInv, MetaInv
      <4>. QED  BY <2>1, <4>1
    <3>3. b \in X
      BY <1>2, <2>1
    <3>. HIDE DEF X
    <3>4. b \in Restorable(meta, steady)
      BY <3>1, <3>2, <3>3, RestorableClosed
    <3>5. b \in Attached(f)
      BY <1>1, <1>2, <3>4 DEF ReaderInv, ReadInv, GroupInv, Attached
    <3>6. PICK l \in view : LatestOf(f, l) /\ ReaderNow - meta[l].ts >= KeepDays
      BY <1>2 DEF Selects
    <3>7. meta[b].ts <= meta[l].ts /\ l \in Backups
      BY <2>1, <3>5, <3>6, LatestIsNewest DEF ReaderInv, ReaderTyped
    <3>. QED  BY <2>1, <3>6, <3>7, TimeAssumption, RetentionAssumption DEF ReaderNow
  <2>3. CASE \E c \in X : c \notin sidecar
    <3>1. PICK c \in X : c \notin sidecar
      BY <2>3
    <3>2. Spent(f)
      BY <3>1 DEF WorldInv, RetainInv
    <3>. QED  BY <1>2, <2>1, <3>2 DEF Spent
  <2>. QED  BY <2>2, <2>3
<1>3. SelectedAreOld'
  BY <1>1, <1>2 DEF SelectedAreOld
<1>. QED  BY <1>1, <1>3 DEF DecideInv, OkMeansFresh, FreshMeansOk

LEMMA StepDecide == ASSUME WorldInv, ReaderInv, DecideInv, [Next]_vars PROVE DecideInv'
<1>1. \A b \in once : b \in Backups /\ meta[b].kind # "none"
  BY DEF WorldInv, WorldTyped, MetaInv
<1>2. meta \in [Backups -> [kind : {"none", "full", "incremental"}, ts : Nat,
                            base : Backups \cup {NoPath}]] /\ root \in [Backups -> Backups]
  BY DEF WorldInv, WorldTyped
<1>3. CASE Others \/ UNCHANGED vars
  <2>1. /\ UNCHANGED reader /\ once \subseteq once' /\ steady' \subseteq steady
        /\ \A b \in once : meta'[b] = meta[b] /\ root'[b] = root[b]
    <3>1. ASSUME NEW c \in Backups, NEW base, Submit(c, base)
          PROVE  /\ UNCHANGED <<reader, once, steady>>
                 /\ \A b \in once : meta'[b] = meta[b] /\ root'[b] = root[b]
      BY <1>1, <1>2, <3>1 DEF Submit
    <3>2. CASE WriteMetadata \/ BackupFails \/ CleanupStops \/ Tick \/ UNCHANGED vars
                 \/ \E b \in Backups : CleanupSelects(b) \/ CleanupDeletes(b) \/ CleanupFails(b)
      BY <3>2 DEF WriteMetadata, BackupFails, CleanupStops, Tick, vars, world, CleanupSelects,
                  CleanupDeletes, CleanupFails
    <3>. QED  BY <1>3, <3>1, <3>2 DEF Others
  <2>2. UNCHANGED <<pc, request, view, skipped, verdict, selected, endedAt>>
    BY <2>1 DEF reader, result
  <2>. QED  BY <2>1, <2>2, Undisturbed
<1>4. ASSUME ListFulls \/ ListIncrementals \/ ListFails \/ GroupChainsOf
               \/ \E b \in Backups : ReadMetadata(b) \/ AttachOldest(b)
      PROVE  DecideInv'
  <2>1. /\ UNCHANGED <<meta, root, once, request, verdict, selected, endedAt>>
        /\ view \subseteq view' /\ pc # "done" /\ pc' # "done"
    BY <1>4 DEF ListFulls, ListIncrementals, ListFails, GroupChainsOf, ReadMetadata, AttachOldest,
                Reading, world, result
  <2>. QED  BY <2>1, Undisturbed
<1>. QED  BY <1>3, <1>4, EvaluateDecides, SelectDecides DEF Next, Reader

(***************************************************************************)
(* A chain that was selected keeps enough newer ones                       *)
(***************************************************************************)
LEMMA SelectExpired ==
  ASSUME WorldInv, ReaderInv, NEW f \in Fulls(meta, view), Selects(f)
  PROVE  Cardinality(NewerFulls(f)) >= Keep
<1>. DEFINE S == Newer(meta, Fulls(meta, view), f)
<1>1. Cardinality(S) >= Keep
  BY DEF Selects
<1>2. view \subseteq once /\ once \subseteq Backups /\ \A b \in Backups : meta[b].ts \in Nat
  BY DEF WorldInv, WorldTyped, ReaderInv, ReaderTyped
<1>3. S \subseteq Fulls(meta, once) /\ S \subseteq Backups
  BY <1>2 DEF Newer, Fulls
<1>4. NewerFulls(f) \in SUBSET Backups
  BY DEF WorldInv, WorldTyped, NewerFulls, Newer, Fulls
<1>5. CASE S \subseteq sidecar
  <2>1. S \subseteq NewerFulls(f)
    BY <1>5 DEF NewerFulls, Newer, Fulls
  <2>2. IsFiniteSet(NewerFulls(f)) /\ Cardinality(NewerFulls(f)) \in Nat
    BY NewerFinite DEF WorldInv
  <2>3. Cardinality(S) <= Cardinality(NewerFulls(f)) /\ Cardinality(S) \in Nat
    BY <2>1, <2>2, FS_Subset, FS_CardinalityType
  <2>. QED  BY <1>1, <2>2, <2>3, RetentionAssumption
<1>6. CASE \E g \in S : g \notin sidecar
  <2>1. PICK g \in S : g \notin sidecar
    BY <1>6
  <2>2. Cardinality(NewerFulls(g)) >= Keep
    <3>1. g \in once /\ root[g] = g
      BY <1>3, <2>1 DEF Fulls, WorldInv, MetaInv
    <3>. QED  BY <2>1, <3>1 DEF WorldInv, RetainInv, Spent
  <2>3. NewerFulls(g) \subseteq NewerFulls(f)
    <3>1. meta[g].ts > meta[f].ts /\ g \in Backups /\ f \in Backups
      BY <1>2, <2>1 DEF Newer, Fulls
    <3>2. Fulls(meta, sidecar) \subseteq Backups
      BY DEF WorldInv, WorldTyped, Fulls
    <3>. QED  BY <1>2, <3>1, <3>2 DEF NewerFulls, Newer
  <2>. QED  BY <1>4, <2>2, <2>3, Enough DEF WorldInv
<1>. QED  BY <1>5, <1>6

(* A sidecar more, and nothing less, takes no full backup below Keep.      *)
LEMMA GrowKeeps ==
  ASSUME WorldInv, WorldTyped', sidecar \subseteq sidecar',
         \A b \in once : meta'[b] = meta[b],
         NEW f \in once, Cardinality(NewerFulls(f)) >= Keep
  PROVE  Cardinality(NewerFulls(f)') >= Keep
<1>1. NewerFulls(f)' \in SUBSET Backups
  BY DEF WorldTyped, NewerFulls, Newer, Fulls
<1>2. NewerFulls(f) \subseteq NewerFulls(f)'
  BY DEF NewerFulls, Newer, Fulls, WorldInv, WorldTyped
<1>. QED  BY <1>1, <1>2, Enough DEF WorldInv

LEMMA StepExpired ==
  ASSUME WorldInv, ReaderInv, SelectedHaveExpired, [Next]_vars
  PROVE  SelectedHaveExpired'
<1>. USE DEF SelectedHaveExpired
<1>1. \A b \in once : b \in Backups /\ meta[b].kind # "none"
  BY DEF WorldInv, WorldTyped, MetaInv
<1>2. meta \in [Backups -> [kind : {"none", "full", "incremental"}, ts : Nat,
                            base : Backups \cup {NoPath}]]
  BY DEF WorldInv, WorldTyped
<1>3. selected \subseteq once
  BY DEF ReaderInv, ReaderTyped
<1>4. WorldTyped'
  BY StepWorld DEF WorldInv
<1>5. ASSUME NEW f \in selected PROVE Cardinality(NewerFulls(f)) >= Keep
  BY DEF NewerFulls
<1>6. CASE \E b \in Backups : CleanupDeletes(b) \/ CleanupFails(b)
  <2>1. PICK b \in Backups : CleanupDeletes(b) \/ CleanupFails(b)
    BY <1>6
  <2>2. PICK gone \in SUBSET {b} :
          b \in doomed /\ meta' = meta /\ sidecar' = sidecar \ gone /\ selected' = selected
    BY <2>1 DEF CleanupDeletes, CleanupFails, IsNext, reader, result
  <2>3. ASSUME NEW f \in selected PROVE Cardinality(NewerFulls(f)') >= Keep
    BY <1>1, <1>3, <1>5, <2>2, DeleteKeeps
  <2>. QED  BY <2>2, <2>3 DEF NewerFulls
<1>7. CASE Select
  <2>1. selected' = {f \in Fulls(meta, view) : Selects(f)} /\ UNCHANGED <<meta, sidecar>>
    BY <1>7 DEF Select, world
  <2>. QED  BY <2>1, SelectExpired DEF NewerFulls
<1>8. CASE ~Select /\ ~\E b \in Backups : CleanupDeletes(b) \/ CleanupFails(b)
  <2>1. sidecar \subseteq sidecar' /\ selected' = selected /\ \A b \in once : meta'[b] = meta[b]
    <3>1. ASSUME NEW c \in Backups, NEW base, Submit(c, base)
          PROVE  /\ UNCHANGED <<selected, sidecar>>
                 /\ \A b \in once : meta'[b] = meta[b]
      BY <1>1, <1>2, <3>1 DEF Submit, reader, result
    <3>2. CASE WriteMetadata \/ BackupFails \/ CleanupStops \/ Tick \/ UNCHANGED vars
                 \/ \E b \in Backups : CleanupSelects(b)
      BY <3>2 DEF WriteMetadata, BackupFails, CleanupStops, Tick, vars, world, CleanupSelects,
                  reader, result
    <3>3. CASE Reader
      BY <1>8, <3>3 DEF Reader, world, result, ListFulls, ListIncrementals, ListFails, ReadMetadata,
                        GroupChainsOf, AttachOldest, Evaluate
    <3>. QED  BY <1>8, <3>1, <3>2, <3>3 DEF Next, Others
  <2>2. ASSUME NEW f \in selected PROVE Cardinality(NewerFulls(f)') >= Keep
    BY <1>3, <1>4, <1>5, <2>1, <2>2, GrowKeeps
  <2>. QED  BY <2>1, <2>2 DEF NewerFulls
<1>. QED  BY <1>6, <1>7, <1>8

(***************************************************************************)
(* The theorems                                                            *)
(***************************************************************************)
LEMMA Inductive == Spec => [](WorldInv /\ ReaderInv /\ DecideInv /\ SelectedHaveExpired)
<1>1. Init => WorldInv /\ ReaderInv /\ DecideInv /\ SelectedHaveExpired
  <2>. SUFFICES ASSUME Init PROVE DecideInv /\ SelectedHaveExpired
    BY InitWorld, InitReader
  <2>. QED  BY DEF Init, DecideInv, OkMeansFresh, FreshMeansOk, SelectedAreOld, SelectedHaveExpired
<1>2. WorldInv /\ ReaderInv /\ DecideInv /\ SelectedHaveExpired /\ [Next]_vars
        => (WorldInv /\ ReaderInv /\ DecideInv /\ SelectedHaveExpired)'
  BY StepWorld, StepReader, StepDecide, StepExpired
<1>. QED  BY <1>1, <1>2, PTL DEF Spec

(* Every variable has its type: the sidecars a run has read are of backups *)
(* that were visible once, and it sorts into chains nothing else.          *)
THEOREM TypeCorrect == Spec => []TypeOK
<1>1. WorldInv /\ ReaderInv => TypeOK
  BY DEF WorldInv, WorldTyped, ReaderInv, ReaderTyped, TypeOK
<1>. QED  BY <1>1, Inductive, PTL

(* Discovery misses no backup that was visible all the time, whatever      *)
(* other invocations do between its requests, unless it could not read a   *)
(* sidecar, and then a cleanup stops.                                      *)
THEOREM ViewComplete == Spec => []CompleteView
<1>1. ReaderInv => CompleteView
  BY DEF ReaderInv, ReadInv, CompleteView
<1>. QED  BY <1>1, Inductive, PTL

(* The single pass of group_chains attaches every backup that was visible  *)
(* all the time together with the bases it needs, to the full backup it    *)
(* depends on, whatever failed deletions have left in the bucket.          *)
THEOREM GroupingIsComplete == Spec => []GroupingComplete
<1>1. ReaderInv => GroupingComplete
  BY DEF ReaderInv, GroupInv, GroupingComplete
<1>. QED  BY <1>1, Inductive, PTL

(* An OK of `check' names a backup that was visible and is as young as the *)
(* user asked, also when --max-age wraps in a u64.                         *)
THEOREM OkIsFresh == Spec => []OkMeansFresh
<1>1. DecideInv => OkMeansFresh
  BY DEF DecideInv
<1>. QED  BY <1>1, Inductive, PTL

(* `check' raises no alarm while a backup as young as the user asked is    *)
(* visible all the time together with the bases it needs, every sidecar    *)
(* can be read, and the product of --max-age fits a u64.                   *)
THEOREM FreshIsOk == Spec => []FreshMeansOk
<1>1. DecideInv => FreshMeansOk
  BY DEF DecideInv
<1>. QED  BY <1>1, Inductive, PTL

(* A chain that cleanup selected keeps retention.keep_full_backups newer   *)
(* ones, whatever another cleanup deletes between the selection and now.   *)
THEOREM SelectedExpired == Spec => []SelectedHaveExpired
<1>. QED  BY Inductive, PTL

(* Cleanup selects no chain with a backup younger than keep_days among     *)
(* those that were visible all the time.                                   *)
THEOREM SelectedOld == Spec => []SelectedAreOld
<1>1. DecideInv => SelectedAreOld
  BY DEF DecideInv
<1>. QED  BY <1>1, Inductive, PTL
=============================================================================
