------------------------- MODULE BackupChainsProofs -------------------------
(***************************************************************************)
(* What group_chains computes, for every finite set of backups whose bases *)
(* are older than the backups taken on them.  GroupChains is a fold; the   *)
(* induction over it is by least counterexample: a set of naturals that is *)
(* not empty has a least element.                                          *)
(***************************************************************************)
EXTENDS BackupChains, FiniteSetTheorems, WellFoundedInduction, TLAPS

LEMMA LeastNat ==
    ASSUME NEW T \in SUBSET Nat, T # {}
    PROVE  \E n \in T : \A k \in T : n <= k
<1>1. \E n \in T : \A k \in T : ~ (<<k, n>> \in OpToRel(<, Nat))
  BY NatLessThanWellFounded, WFMin
<1>2. PICK n \in T : \A k \in T : ~ (<<k, n>> \in OpToRel(<, Nat))
  BY <1>1
<1>3. ASSUME NEW k \in T PROVE n <= k
  <2>1. k \in Nat /\ n \in Nat
    OBVIOUS
  <2>2. ~ (k < n)
    BY <1>2, <2>1 DEF OpToRel
  <2>3. QED
    BY <2>1, <2>2
<1>4. QED
  BY <1>3

(* The backups V can be ordered by age, and the base of one of them, when  *)
(* it is among them, is older.                                             *)
Timed(m, V) == IsFiniteSet(V) /\ \A b \in V : m[b].ts \in Nat

OlderBases(m, V) ==
    \A b \in Incrementals(m, V) :
        m[b].base \in V => m[m[b].base].ts < m[b].ts

LEMMA HasOldest ==
    ASSUME NEW m, NEW V, Timed(m, V), NEW T \in SUBSET V, T # {}
    PROVE  \E b \in T : \A c \in T : m[b].ts <= m[c].ts
<1> DEFINE times == {m[b].ts : b \in T}
<1>1. times \in SUBSET Nat /\ times # {}
  BY DEF Timed
<1>2. PICK n \in times : \A k \in times : n <= k
  BY <1>1, LeastNat
<1>3. QED
  BY <1>2

LEMMA HasNewest ==
    ASSUME NEW m, NEW V, Timed(m, V), NEW T \in SUBSET V, T # {}
    PROVE  \E b \in T : Newer(m, T, b) = {}
<1> DEFINE counts == {Cardinality(Newer(m, T, b)) : b \in T}
<1>1. \A b \in T : Newer(m, T, b) \subseteq T
  BY DEF Newer
<1>2. IsFiniteSet(T)
  BY FS_Subset DEF Timed
<1>3. \A b \in T : IsFiniteSet(Newer(m, T, b)) /\ Cardinality(Newer(m, T, b)) \in Nat
  BY <1>1, <1>2, FS_Subset, FS_CardinalityType
<1>4. counts \in SUBSET Nat /\ counts # {}
  BY <1>3
<1>5. PICK n \in counts : \A k \in counts : n <= k
  BY <1>4, LeastNat
<1>6. PICK b \in T : \A c \in T : Cardinality(Newer(m, T, b)) <= Cardinality(Newer(m, T, c))
  BY <1>5
<1>7. ASSUME NEW c \in Newer(m, T, b) PROVE FALSE
  <2>1. c \in T /\ m[c].ts > m[b].ts /\ \A d \in T : m[d].ts \in Nat
    BY DEF Newer, Timed
  <2>2. Newer(m, T, c) \subseteq Newer(m, T, b) /\ c \notin Newer(m, T, c)
    BY <2>1 DEF Newer
  <2>3. Newer(m, T, c) # Newer(m, T, b)
    BY <1>7, <2>2
  <2>4. Cardinality(Newer(m, T, c)) < Cardinality(Newer(m, T, b))
    BY <1>3, <2>1, <2>2, <2>3, FS_Subset
  <2>5. QED
    BY <1>3, <1>6, <2>1, <2>4
<1>8. QED
  BY <1>7

(***************************************************************************)
(* The fold as a recursive function, and that this function exists.        *)
(***************************************************************************)
Newest(m, S) == CHOOSE b \in S : Newer(m, S, b) = {}

AttachNewest(m, F, g, s) ==
    IF s = {} THEN F ELSE Attach(m, g[s \ {Newest(m, s)}], Newest(m, s))

IsFold(m, I, F, g) == g = [s \in SUBSET I |-> AttachNewest(m, F, g, s)]

LEMMA NewestIn ==
    ASSUME NEW m, NEW V, Timed(m, V), NEW s \in SUBSET V, s # {}
    PROVE  Newest(m, s) \in s /\ Newer(m, s, Newest(m, s)) = {}
  BY HasNewest DEF Newest

LEMMA Unfolded ==
    ASSUME NEW m, NEW V
    PROVE  GroupChains(m, V) =
              (CHOOSE g : IsFold(m, Incrementals(m, V), [f \in Fulls(m, V) |-> f], g))
                  [Incrementals(m, V)]
  BY Zenon DEF GroupChains, MapThenFoldSet, Newest, AttachNewest, IsFold

LEMMA FoldExists ==
    ASSUME NEW m, NEW V, Timed(m, V), NEW F
    PROVE  \E g : IsFold(m, V, F, g)
<1> DEFINE small(n) == {s \in SUBSET V : Cardinality(s) <= n}
           works(g, n) == g = [s \in small(n) |-> AttachNewest(m, F, g, s)]
           stuck == {n \in Nat : ~ \E g : works(g, n)}
<1>0. \A s \in SUBSET V : IsFiniteSet(s) /\ Cardinality(s) \in Nat
  BY FS_Subset, FS_CardinalityType DEF Timed
<1>1. 0 \notin stuck
  <2> DEFINE g == [s \in small(0) |-> F]
  <2>1. \A s \in small(0) : s = {}
    BY <1>0, FS_EmptySet
  <2>2. g = [s \in small(0) |-> AttachNewest(m, F, g, s)]
    BY <2>1 DEF AttachNewest
  <2>3. QED
    BY <2>2
<1>2. ASSUME NEW n \in Nat, n \notin stuck PROVE n + 1 \notin stuck
  <2>1. PICK g : works(g, n)
    BY <1>2
  <2> DEFINE h == [s \in small(n + 1) |-> AttachNewest(m, F, g, s)]
  <2>2. \A s \in small(n) : s \in small(n + 1) /\ h[s] = g[s]
    BY <1>0, <2>1
  <2>3. ASSUME NEW s \in small(n + 1), s # {} PROVE s \ {Newest(m, s)} \in small(n)
    <3>1. Newest(m, s) \in s
      BY <2>3, NewestIn
    <3>2. Cardinality(s \ {Newest(m, s)}) = Cardinality(s) - 1
      BY <1>0, <3>1, FS_RemoveElement
    <3>3. QED
      BY <1>0, <3>2
  <2>4. \A s \in small(n + 1) : AttachNewest(m, F, g, s) = AttachNewest(m, F, h, s)
    BY <2>2, <2>3 DEF AttachNewest
  <2>5. h = [s \in small(n + 1) |-> AttachNewest(m, F, h, s)]
    BY <2>4
  <2>6. QED
    BY <2>5
<1>3. stuck = {}
  <2> SUFFICES ASSUME stuck # {} PROVE FALSE
    OBVIOUS
  <2>1. stuck \in SUBSET Nat
    OBVIOUS
  <2> HIDE DEF stuck
  <2>2. PICK n \in stuck : \A k \in stuck : n <= k
    BY <2>1, LeastNat
  <2>3. n \in Nat /\ n # 0
    BY <1>1, <2>1
  <2>4. n - 1 \in Nat /\ n - 1 \notin stuck /\ (n - 1) + 1 = n
    BY <2>2, <2>3
  <2>5. QED
    BY <1>2, <2>2, <2>4
<1>4. Cardinality(V) \in Nat /\ small(Cardinality(V)) = SUBSET V
  BY <1>0, FS_Subset, FS_CardinalityType DEF Timed
<1>5. \E g : works(g, Cardinality(V))
  BY <1>3, <1>4
<1>6. QED
  BY <1>4, <1>5 DEF IsFold

(***************************************************************************)
(* The attach loop: g resolves the incrementals of s when an incremental   *)
(* is in g exactly when its base is, with the full backup of its base.     *)
(***************************************************************************)
ResolvesIn(m, V, s, g) ==
    /\ Fulls(m, V) \subseteq DOMAIN g /\ DOMAIN g \subseteq Fulls(m, V) \cup s
    /\ \A b \in DOMAIN g : g[b] \in Fulls(m, V)
    /\ \A f \in Fulls(m, V) : g[f] = f
    /\ \A b \in s : /\ b \in DOMAIN g <=> m[b].base \in DOMAIN g
                    /\ b \in DOMAIN g => g[b] = g[m[b].base]

LEMMA AttachResolves ==
    ASSUME NEW m, NEW V, Timed(m, V), OlderBases(m, V),
           NEW s \in SUBSET Incrementals(m, V), NEW x \in s, Newer(m, s, x) = {},
           NEW g, ResolvesIn(m, V, s \ {x}, g)
    PROVE  ResolvesIn(m, V, s, Attach(m, g, x))
<1> DEFINE base == m[x].base
<1>1. s \subseteq V /\ \A b \in s : m[b].kind = "incremental"
  BY DEF Incrementals
<1>2. x \notin DOMAIN g
  BY <1>1 DEF ResolvesIn, Fulls
<1>3. \A b \in s : m[b].base # x
  <2> SUFFICES ASSUME NEW b \in s, m[b].base = x PROVE FALSE
    OBVIOUS
  <2>1. m[x].ts < m[b].ts /\ m[x].ts \in Nat /\ m[b].ts \in Nat
    BY <1>1 DEF OlderBases, Timed
  <2>2. b \in Newer(m, s, x)
    BY <2>1 DEF Newer
  <2>3. QED
    BY <2>2
<1>4. CASE base \notin DOMAIN g
  <2>1. Attach(m, g, x) = g
    BY <1>4 DEF Attach
  <2>2. QED
    BY <1>2, <1>4, <2>1 DEF ResolvesIn
<1>5. CASE base \in DOMAIN g
  <2> DEFINE h == [y \in DOMAIN g \cup {x} |-> IF y = x THEN g[base] ELSE g[y]]
  <2>1. Attach(m, g, x) = h
    BY <1>5 DEF Attach
  <2>2. /\ DOMAIN h = DOMAIN g \cup {x} /\ h[x] = g[base]
        /\ \A y \in DOMAIN g : h[y] = g[y]
    BY <1>2
  <2> HIDE DEF h
  <2>3. /\ Fulls(m, V) \subseteq DOMAIN h /\ DOMAIN h \subseteq Fulls(m, V) \cup s
        /\ \A b \in DOMAIN h : h[b] \in Fulls(m, V)
        /\ \A f \in Fulls(m, V) : h[f] = f
    BY <1>5, <2>2 DEF ResolvesIn
  <2>4. \A b \in s : /\ b \in DOMAIN h <=> m[b].base \in DOMAIN h
                     /\ b \in DOMAIN h => h[b] = h[m[b].base]
    BY <1>3, <1>5, <2>2 DEF ResolvesIn
  <2>5. QED
    BY <2>1, <2>3, <2>4 DEF ResolvesIn
<1>6. QED
  BY <1>4, <1>5

(* group_chains: every full backup starts its chain, and an incremental    *)
(* joins the chain of its base, or none when its base has none.            *)
THEOREM ChainsResolved ==
    ASSUME NEW m, NEW V, Timed(m, V), OlderBases(m, V)
    PROVE  ResolvesIn(m, V, Incrementals(m, V), GroupChains(m, V))
<1> DEFINE I == Incrementals(m, V)
           F == [f \in Fulls(m, V) |-> f]
<1> HIDE DEF F
<1> DEFINE it == CHOOSE g : IsFold(m, I, F, g)
           wrong == {n \in Nat : \E s \in SUBSET I :
                                    Cardinality(s) = n /\ ~ResolvesIn(m, V, s, it[s])}
<1>1. Timed(m, I) /\ I \subseteq V
  BY FS_Subset DEF Timed, Incrementals
<1>2. \A s \in SUBSET I : IsFiniteSet(s) /\ Cardinality(s) \in Nat
  BY <1>1, FS_Subset, FS_CardinalityType DEF Timed
<1>3. it = [s \in SUBSET I |-> AttachNewest(m, F, it, s)]
  <2>1. \E g : IsFold(m, I, F, g)
    BY <1>1, FoldExists
  <2>2. IsFold(m, I, F, it)
    BY <2>1
  <2>3. QED
    BY <2>2 DEF IsFold
<1>4. GroupChains(m, V) = it[I]
  BY Unfolded DEF F
<1> HIDE DEF it
<1>5. \A s \in SUBSET I : it[s] = AttachNewest(m, F, it, s)
  BY <1>3
<1>6. wrong = {}
  <2> SUFFICES ASSUME wrong # {} PROVE FALSE
    OBVIOUS
  <2>1. wrong \in SUBSET Nat
    OBVIOUS
  <2>2. PICK n \in wrong : \A k \in wrong : n <= k
    BY <2>1, LeastNat
  <2>3. PICK s \in SUBSET I : Cardinality(s) = n /\ ~ResolvesIn(m, V, s, it[s])
    OBVIOUS
  <2>4. CASE s = {}
    <3>1. it[s] = F
      BY <1>5, <2>4 DEF AttachNewest
    <3>2. ResolvesIn(m, V, {}, F)
      BY DEF ResolvesIn, F
    <3>3. QED
      BY <2>3, <2>4, <3>1, <3>2
  <2>5. CASE s # {}
    <3> DEFINE x == Newest(m, s)
    <3>1. x \in s /\ Newer(m, s, x) = {}
      BY <1>1, <2>5, NewestIn
    <3>2. it[s] = Attach(m, it[s \ {x}], x)
      BY <1>5, <2>5 DEF AttachNewest
    <3> HIDE DEF x
    <3>3. ~ResolvesIn(m, V, s \ {x}, it[s \ {x}])
      BY <2>3, <3>1, <3>2, AttachResolves
    <3>4. s \ {x} \in SUBSET I /\ Cardinality(s \ {x}) = n - 1 /\ n - 1 \in Nat /\ n \in Nat
      <4>1. IsFiniteSet(s) /\ Cardinality(s) = n /\ s \ {x} \in SUBSET I
        BY <1>2, <2>3
      <4>2. Cardinality(s \ {x}) = Cardinality(s) - 1
        BY <3>1, <4>1, FS_RemoveElement
      <4>3. n \in Nat /\ Cardinality(s \ {x}) \in Nat
        BY <1>2, <4>1
      <4>4. QED
        BY <4>1, <4>2, <4>3
    <3>5. n - 1 \in wrong
      BY <3>3, <3>4
    <3>6. QED
      BY <2>2, <3>4, <3>5
  <2>6. QED
    BY <2>4, <2>5
<1>7. \A s \in SUBSET I : ResolvesIn(m, V, s, it[s])
  BY <1>2, <1>6
<1>8. QED
  BY <1>4, <1>7

(* A set of visible backups that holds the base of each of its             *)
(* incrementals: every one of them belongs to a chain.                     *)
LEMMA ClosedInChains ==
    ASSUME NEW m, NEW V, Timed(m, V), OlderBases(m, V), NEW W \in SUBSET V,
           \A b \in W : m[b].kind = "full" \/ (m[b].kind = "incremental" /\ m[b].base \in W)
    PROVE  W \subseteq DOMAIN GroupChains(m, V)
<1> DEFINE out == W \ DOMAIN GroupChains(m, V)
<1> SUFFICES ASSUME out # {} PROVE FALSE
  OBVIOUS
<1>1. PICK b \in out : \A c \in out : m[b].ts <= m[c].ts
  BY HasOldest
<1>2. ResolvesIn(m, V, Incrementals(m, V), GroupChains(m, V))
  BY ChainsResolved
<1>3. b \in V /\ b \notin Fulls(m, V)
  BY <1>2 DEF ResolvesIn
<1>4. m[b].kind = "incremental" /\ m[b].base \in W /\ b \in Incrementals(m, V)
  BY <1>3 DEF Fulls, Incrementals
<1>5. m[b].base \in out
  BY <1>2, <1>4 DEF ResolvesIn
<1>6. m[m[b].base].ts < m[b].ts /\ m[b].ts \in Nat /\ m[m[b].base].ts \in Nat
  BY <1>3, <1>4, <1>5 DEF OlderBases, Timed
<1>7. QED
  BY <1>1, <1>5, <1>6

(* A backup that is in a chain of a set is in the same chain of a larger   *)
(* one: what one discovery resolves, a later or a fuller one resolves to   *)
(* the same full backup.                                                   *)
LEMMA ChainsAgree ==
    ASSUME NEW m, NEW V, NEW k, NEW W, W \subseteq V,
           Timed(m, W), OlderBases(m, W), Timed(k, V), OlderBases(k, V),
           \A b \in W : k[b] = m[b],
           NEW x \in DOMAIN GroupChains(m, W)
    PROVE  /\ x \in DOMAIN GroupChains(k, V)
           /\ GroupChains(k, V)[x] = GroupChains(m, W)[x]
<1> DEFINE g == GroupChains(m, W)
           h == GroupChains(k, V)
           apart == {b \in DOMAIN g : ~ (b \in DOMAIN h /\ h[b] = g[b])}
<1> SUFFICES ASSUME apart # {} PROVE FALSE
  OBVIOUS
<1>1. ResolvesIn(m, W, Incrementals(m, W), g) /\ ResolvesIn(k, V, Incrementals(k, V), h)
  BY ChainsResolved
<1> HIDE DEF g, h
<1>2. Fulls(m, W) \subseteq W /\ Incrementals(m, W) \subseteq W
  BY DEF Fulls, Incrementals
<1>3. apart \in SUBSET W
  BY <1>1, <1>2 DEF ResolvesIn
<1>4. PICK b \in apart : \A c \in apart : m[b].ts <= m[c].ts
  BY <1>3, HasOldest
<1>5. b \in W /\ b \in DOMAIN g /\ k[b] = m[b]
  BY <1>3
<1>6. CASE b \in Fulls(m, W)
  <2>1. b \in Fulls(k, V)
    BY <1>5, <1>6 DEF Fulls
  <2>2. QED
    BY <1>1, <1>5, <1>6, <2>1 DEF ResolvesIn
<1>7. CASE b \in Incrementals(m, W)
  <2>1. b \in Incrementals(k, V)
    BY <1>5, <1>7 DEF Incrementals
  <2>2. m[b].base \in DOMAIN g /\ g[b] = g[m[b].base]
    BY <1>1, <1>5, <1>7 DEF ResolvesIn
  <2>3. m[b].base \in W
    BY <1>1, <1>2, <2>2 DEF ResolvesIn
  <2>4. m[m[b].base].ts < m[b].ts /\ m[m[b].base].ts \in Nat /\ m[b].ts \in Nat
    BY <1>5, <1>7, <2>3 DEF OlderBases, Timed
  <2>5. m[b].base \notin apart
    BY <1>4, <2>4
  <2>6. m[b].base \in DOMAIN h /\ h[m[b].base] = g[m[b].base]
    BY <2>2, <2>5
  <2>7. k[b].base = m[b].base
    BY <1>5
  <2>8. QED
    BY <1>1, <1>5, <2>1, <2>2, <2>6, <2>7 DEF ResolvesIn
<1>8. QED
  BY <1>1, <1>5, <1>6, <1>7 DEF ResolvesIn

(* A full backup is older than the incrementals of its chain.              *)
LEMMA RootOlder ==
    ASSUME NEW m, NEW V, Timed(m, V), OlderBases(m, V),
           NEW b \in DOMAIN GroupChains(m, V), b \in Incrementals(m, V)
    PROVE  m[GroupChains(m, V)[b]].ts < m[b].ts
<1> DEFINE g == GroupChains(m, V)
           late == {c \in DOMAIN g \cap Incrementals(m, V) : ~(m[g[c]].ts < m[c].ts)}
<1> SUFFICES ASSUME late # {} PROVE FALSE
  OBVIOUS
<1>1. ResolvesIn(m, V, Incrementals(m, V), g)
  BY ChainsResolved
<1> HIDE DEF g
<1>2. Fulls(m, V) \subseteq V /\ Incrementals(m, V) \subseteq V
  BY DEF Fulls, Incrementals
<1>3. late \in SUBSET V
  BY <1>2
<1>4. PICK c \in late : \A d \in late : m[c].ts <= m[d].ts
  BY <1>3, HasOldest
<1>5. /\ c \in DOMAIN g /\ c \in Incrementals(m, V) /\ c \in V
      /\ m[c].base \in DOMAIN g /\ g[c] = g[m[c].base] /\ m[c].base \in V
  BY <1>1, <1>2, <1>3, <1>4 DEF ResolvesIn
<1>6. /\ m[m[c].base].ts < m[c].ts /\ m[m[c].base].ts \in Nat /\ m[c].ts \in Nat
      /\ g[c] \in V /\ m[g[c]].ts \in Nat
  BY <1>1, <1>2, <1>5 DEF OlderBases, Timed, ResolvesIn
<1>7. CASE m[c].base \in Fulls(m, V)
  BY <1>1, <1>4, <1>5, <1>6, <1>7 DEF ResolvesIn
<1>8. CASE m[c].base \in Incrementals(m, V)
  <2>1. m[c].base \notin late
    BY <1>4, <1>6
  <2>2. m[g[m[c].base]].ts < m[m[c].base].ts
    BY <1>5, <1>8, <2>1
  <2>3. m[g[c]].ts < m[c].ts
    BY <1>5, <1>6, <2>2
  <2>4. QED
    BY <1>4, <2>3
<1>9. QED
  BY <1>1, <1>5, <1>7, <1>8 DEF ResolvesIn
====
