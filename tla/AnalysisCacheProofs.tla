------------------------- MODULE AnalysisCacheProofs -------------------------
(***************************************************************************)
(* The invariants of the analysis cache, proved for every budget, every    *)
(* set of keys and every sequence of builds, evictions and deadlines.      *)
(***************************************************************************)
EXTENDS AnalysisCache, SequenceFiltersProofs, FiniteSetTheorems

(***************************************************************************)
(* Recursion over the subsets of a finite set: the folds of the community  *)
(* modules take one element away at a time, the one that c chooses.        *)
(***************************************************************************)
Chooses(c, S) == \A s \in SUBSET S : s # {} => c[s] \in s

Peeled(s, c, b, F, g) == IF s = {} THEN b ELSE F[<<c[s], g[s \ {c[s]}]>>]
Solves(g, S, X, c, b, F) ==
  g \in [SUBSET S -> X] /\ \A s \in SUBSET S : g[s] = Peeled(s, c, b, F, g)

\* Such a recursion has a solution, with values in the set that F is closed on.
LEMMA PeelingExists ==
  ASSUME NEW S, IsFiniteSet(S), NEW X, NEW b \in X, NEW F \in [S \X X -> X],
         NEW c, Chooses(c, S)
  PROVE  \E g : Solves(g, S, X, c, b, F)
<1>0. \A s \in SUBSET S : s # {} => c[s] \in s
  BY DEF Chooses
<1> DEFINE Sub(n) == {s \in SUBSET S : Cardinality(s) <= n}
           Good(g, n) == /\ g \in [Sub(n) -> X]
                         /\ \A s \in Sub(n) : g[s] = Peeled(s, c, b, F, g)
           P == {n \in Nat : \E g : Good(g, n)}
<1>1. \A s \in SUBSET S : Cardinality(s) \in Nat
  BY FS_Subset, FS_CardinalityType
<1>a. \A s \in SUBSET S : Cardinality(s) = 0 => s = {}
  BY FS_Subset, FS_EmptySet
<1>b. \A s \in SUBSET S : s # {} => Cardinality(s \ {c[s]}) = Cardinality(s) - 1
  BY <1>0, FS_Subset, FS_RemoveElement
<1>c. Cardinality({}) = 0
  BY FS_EmptySet
<1>2. 0 \in P
  <2>1. Sub(0) = {{}}
    <3>1. {} \in SUBSET S
      OBVIOUS
    <3>2. ASSUME NEW s \in SUBSET S, Cardinality(s) <= 0 PROVE s = {}
      <4>1. Cardinality(s) = 0
        BY <1>1, <3>2
      <4> QED
        BY <1>a, <4>1
    <3>3. {} \in Sub(0)
      BY <1>c, <3>1
    <3>4. \A s \in Sub(0) : s = {}
      BY <3>2
    <3> HIDE DEF Sub
    <3> QED
      BY <3>3, <3>4
  <2>2. Good([s \in Sub(0) |-> b], 0)
    BY <2>1 DEF Peeled
  <2> HIDE DEF Good
  <2> QED
    BY <2>2
<1>3. ASSUME NEW n \in P PROVE n + 1 \in P
  <2>1. n \in Nat
    OBVIOUS
  <2>2. PICK g : Good(g, n)
    OBVIOUS
  <2> DEFINE h == [s \in Sub(n + 1) |-> IF s \in Sub(n) THEN g[s] ELSE Peeled(s, c, b, F, g)]
  <2>3. \A s \in Sub(n + 1) : s # {} => s \ {c[s]} \in Sub(n) /\ c[s] \in S
    BY <1>0, <1>1, <1>b, <2>1
  <2>4. Sub(n) \subseteq Sub(n + 1)
    BY <1>1, <2>1
  <2>5. \A s \in Sub(n + 1) : s \notin Sub(n) => s # {}
    <3> SUFFICES ASSUME NEW s \in SUBSET S, s = {} PROVE Cardinality(s) <= n
      OBVIOUS
    <3>1. Cardinality(s) = 0
      BY <1>c
    <3> QED
      BY <2>1, <3>1
  <2>6. \A s \in Sub(n + 1) : Peeled(s, c, b, F, g) \in X
    BY <2>2, <2>3 DEF Peeled
  <2>7. h \in [Sub(n + 1) -> X]
    BY <2>2, <2>6
  <2>8. ASSUME NEW s \in Sub(n + 1) PROVE h[s] = Peeled(s, c, b, F, h)
    <3>1. h[s] = Peeled(s, c, b, F, g)
      BY <2>2, <2>8
    <3>2. s # {} => h[s \ {c[s]}] = g[s \ {c[s]}]
      BY <2>3, <2>4, <2>8
    <3> HIDE DEF h
    <3> QED
      BY <3>1, <3>2 DEF Peeled
  <2>9. Good(h, n + 1)
    BY <2>7, <2>8
  <2> HIDE DEF Good, h
  <2> QED
    BY <2>1, <2>9
<1>4. P = Nat
  <2> HIDE DEF P
  <2>1. P \in SUBSET Nat
    BY DEF P
  <2> QED
    BY <1>2, <1>3, <2>1, NumbersFromZero
<1>5. Cardinality(S) \in P /\ Cardinality(S) \in Nat
  BY <1>1, <1>4
<1>6. Sub(Cardinality(S)) = SUBSET S
  BY FS_Subset, <1>1
<1>7. PICK g : Good(g, Cardinality(S))
  BY <1>5
<1> QED
  BY <1>6, <1>7 DEF Solves

\* What holds of the empty set, and of a set when it holds of the set without
\* the element taken away, holds of all.
LEMMA PeelingInduction ==
  ASSUME NEW S, IsFiniteSet(S), NEW c, Chooses(c, S), NEW Q, {} \in Q,
         \A s \in SUBSET S : s # {} /\ s \ {c[s]} \in Q => s \in Q
  PROVE  S \in Q
<1> DEFINE P == {n \in Nat : \A s \in SUBSET S : Cardinality(s) <= n => s \in Q}
<1>0. \A s \in SUBSET S : s # {} => c[s] \in s
  BY DEF Chooses
<1>1. \A s \in SUBSET S : Cardinality(s) \in Nat
  BY FS_Subset, FS_CardinalityType
<1>a. \A s \in SUBSET S : Cardinality(s) = 0 => s = {}
  BY FS_Subset, FS_EmptySet
<1>b. \A s \in SUBSET S : s # {} => Cardinality(s \ {c[s]}) = Cardinality(s) - 1
  BY <1>0, FS_Subset, FS_RemoveElement
<1>2. 0 \in P
  <2> SUFFICES ASSUME NEW s \in SUBSET S, Cardinality(s) <= 0 PROVE s \in Q
    OBVIOUS
  <2>1. Cardinality(s) = 0
    BY <1>1
  <2> QED
    BY <1>a, <2>1
<1>3. ASSUME NEW n \in P PROVE n + 1 \in P
  <2> SUFFICES ASSUME NEW s \in SUBSET S, Cardinality(s) <= n + 1 PROVE s \in Q
    OBVIOUS
  <2>1. CASE s # {}
    <3>1. s \ {c[s]} \in SUBSET S /\ Cardinality(s \ {c[s]}) <= n
      BY <1>0, <1>1, <1>b, <2>1
    <3>2. s \ {c[s]} \in Q
      BY <3>1
    <3> QED
      BY <2>1, <3>2
  <2> QED
    BY <2>1
<1>4. P = Nat
  <2> HIDE DEF P
  <2>1. P \in SUBSET Nat
    BY DEF P
  <2> QED
    BY <1>2, <1>3, <2>1, NumbersFromZero
<1>5. S \in SUBSET S
  OBVIOUS
<1>6. Cardinality(S) \in Nat
  BY <1>1, <1>5
<1>7. Cardinality(S) \in P /\ Cardinality(S) <= Cardinality(S)
  BY <1>4, <1>6
<1> QED
  BY <1>5, <1>7

(***************************************************************************)
(* Byte totals.                                                            *)
(***************************************************************************)
\* The field of every record of f at S is a number of bytes.
Countable(f, S, field) == IsFiniteSet(S) /\ \A x \in S : f[x][field] \in Nat

PickOf(s) == CHOOSE x \in s : TRUE

Totals(g, f, S, field) ==
  /\ g \in [SUBSET S -> Nat] /\ g[{}] = 0
  /\ \A u \in SUBSET S : u # {} => g[u] = f[PickOf(u)][field] + g[u \ {PickOf(u)}]

\* BytesOf is the recursion that takes away the element it picks.
LEMMA BytesIteration ==
  ASSUME NEW f, NEW S, NEW field, Countable(f, S, field)
  PROVE  \E g : Totals(g, f, S, field) /\ BytesOf(f, S, field) = g[S]
<1> DEFINE c == [u \in SUBSET S |-> PickOf(u)]
           F == [p \in S \X Nat |-> f[p[1]][field] + p[2]]
           Eq(g) == g = [u \in SUBSET S |-> IF u = {} THEN 0
                                            ELSE f[PickOf(u)][field] + g[u \ {PickOf(u)}]]
<1>1. F \in [S \X Nat -> Nat]
  BY DEF Countable
<1>2. \A u \in SUBSET S : u # {} => PickOf(u) \in u /\ c[u] = PickOf(u)
  BY DEF PickOf
<1>c. Chooses(c, S)
  BY <1>2 DEF Chooses
<1>3. PICK g : Solves(g, S, Nat, c, 0, F)
  <2> HIDE DEF c, F
  <2>1. 0 \in Nat
    OBVIOUS
  <2> QED
    BY <1>1, <1>c, <2>1, PeelingExists DEF Countable
<1>4. \A u \in SUBSET S : u # {} => g[u] = f[PickOf(u)][field] + g[u \ {PickOf(u)}]
  <2> SUFFICES ASSUME NEW u \in SUBSET S, u # {}
               PROVE  g[u] = f[PickOf(u)][field] + g[u \ {PickOf(u)}]
    OBVIOUS
  <2>1. u \ {PickOf(u)} \in SUBSET S /\ PickOf(u) \in S
    BY <1>2
  <2>2. g[u \ {PickOf(u)}] \in Nat
    BY <1>3, <2>1 DEF Solves
  <2>3. g[u] = F[<<PickOf(u), g[u \ {PickOf(u)}]>>]
    BY <1>2, <1>3 DEF Peeled, Solves
  <2> QED
    BY <2>1, <2>2, <2>3
<1>5. {} \in SUBSET S
  OBVIOUS
<1>6. g[{}] = 0
  BY <1>3, <1>5 DEF Peeled, Solves
<1>7. Eq(g)
  <2> DEFINE h == [u \in SUBSET S |-> IF u = {} THEN 0
                                      ELSE f[PickOf(u)][field] + g[u \ {PickOf(u)}]]
  <2>1. \A u \in SUBSET S : g[u] = h[u]
    BY <1>4, <1>6
  <2>2. g \in [SUBSET S -> Nat]
    BY <1>3 DEF Solves
  <2> QED
    BY <2>1, <2>2
<1>8. PICK k : Eq(k) /\ BytesOf(f, S, field) = k[S]
  <2> HIDE DEF F, c
  <2>1. \E h : Eq(h)
    BY <1>7
  <2> QED
    BY <2>1 DEF BytesOf, MapThenSumSet, MapThenFoldSet, PickOf
<1>9. k[{}] = 0 /\ \A u \in SUBSET S : u # {} => k[u] = f[PickOf(u)][field] + k[u \ {PickOf(u)}]
  BY <1>5, <1>8
<1>10. k[S] = g[S]
  <2> DEFINE Q == {u \in SUBSET S : k[u] = g[u]}
  <2>1. {} \in Q
    BY <1>5, <1>6, <1>9
  <2>2. \A u \in SUBSET S : u # {} /\ u \ {c[u]} \in Q => u \in Q
    BY <1>2, <1>4, <1>9
  <2>3. S \in Q
    <3> HIDE DEF Q, c
    <3> QED
      BY <1>c, <2>1, <2>2, PeelingInduction DEF Countable
  <2> QED
    BY <2>3
<1> QED
  BY <1>3, <1>4, <1>6, <1>8, <1>10 DEF Solves, Totals

\* Two such recursions agree where the records do.
LEMMA TotalsAgree ==
  ASSUME NEW f, NEW h, NEW S, NEW T \in SUBSET S, NEW field, IsFiniteSet(T), NEW g, NEW k,
         Totals(g, f, S, field), Totals(k, h, T, field),
         \A x \in T : f[x][field] = h[x][field]
  PROVE  g[T] = k[T]
<1> DEFINE c == [u \in SUBSET T |-> PickOf(u)]
           Q == {u \in SUBSET T : g[u] = k[u]}
<1>1. \A u \in SUBSET T : u # {} => PickOf(u) \in u /\ c[u] = PickOf(u)
  BY DEF PickOf
<1>2. Chooses(c, T)
  BY <1>1 DEF Chooses
<1>3. {} \in Q
  BY DEF Totals
<1>4. ASSUME NEW u \in SUBSET T, u # {}, u \ {c[u]} \in Q PROVE u \in Q
  <2>1. u \in SUBSET S /\ PickOf(u) \in T
    BY <1>1, <1>4
  <2>2. g[u] = f[PickOf(u)][field] + g[u \ {PickOf(u)}]
    BY <1>4, <2>1 DEF Totals
  <2>3. k[u] = h[PickOf(u)][field] + k[u \ {PickOf(u)}]
    BY <1>4 DEF Totals
  <2> QED
    BY <1>1, <1>4, <2>1, <2>2, <2>3
<1>5. T \in Q
  <2> HIDE DEF Q, c
  <2> QED
    BY <1>2, <1>3, <1>4, PeelingInduction
<1> QED
  BY <1>5

LEMMA BytesNat ==
  ASSUME NEW f, NEW S, NEW field, Countable(f, S, field)
  PROVE  BytesOf(f, S, field) \in Nat
<1>1. PICK g : Totals(g, f, S, field) /\ BytesOf(f, S, field) = g[S]
  BY BytesIteration
<1>2. S \in SUBSET S
  OBVIOUS
<1> QED
  BY <1>1, <1>2 DEF Totals

LEMMA BytesNone ==
  ASSUME NEW f, NEW field
  PROVE  BytesOf(f, {}, field) = 0
<1>1. Countable(f, {}, field)
  BY FS_EmptySet DEF Countable
<1>2. PICK g : Totals(g, f, {}, field) /\ BytesOf(f, {}, field) = g[{}]
  BY <1>1, BytesIteration
<1> QED
  BY <1>2 DEF Totals

LEMMA BytesSame ==
  ASSUME NEW f, NEW h, NEW S, NEW field, Countable(f, S, field),
         \A x \in S : f[x][field] = h[x][field]
  PROVE  BytesOf(f, S, field) = BytesOf(h, S, field)
<1>1. Countable(h, S, field)
  BY DEF Countable
<1>2. PICK g : Totals(g, f, S, field) /\ BytesOf(f, S, field) = g[S]
  BY BytesIteration
<1>3. PICK k : Totals(k, h, S, field) /\ BytesOf(h, S, field) = k[S]
  BY <1>1, BytesIteration
<1>4. g[S] = k[S]
  <2>1. S \in SUBSET S /\ IsFiniteSet(S)
    BY DEF Countable
  <2> QED
    BY <1>2, <1>3, <2>1, TotalsAgree
<1> QED
  BY <1>2, <1>3, <1>4

LEMMA CountableSubset ==
  ASSUME NEW f, NEW S, NEW T \in SUBSET S, NEW field, Countable(f, S, field)
  PROVE  Countable(f, T, field)
BY FS_Subset DEF Countable

LEMMA BytesPeel ==
  ASSUME NEW f, NEW S, NEW field, Countable(f, S, field), S # {}
  PROVE  \E y \in S : BytesOf(f, S, field) = f[y][field] + BytesOf(f, S \ {y}, field)
<1> DEFINE y == PickOf(S)  T == S \ {y}
<1>1. y \in S
  BY DEF PickOf
<1>2. Countable(f, T, field) /\ IsFiniteSet(T)
  BY CountableSubset DEF Countable
<1>3. PICK g : Totals(g, f, S, field) /\ BytesOf(f, S, field) = g[S]
  BY BytesIteration
<1>4. PICK k : Totals(k, f, T, field) /\ BytesOf(f, T, field) = k[T]
  BY <1>2, BytesIteration
<1>5. g[T] = k[T]
  <2>1. T \in SUBSET S
    OBVIOUS
  <2> HIDE DEF T
  <2> QED
    BY <1>2, <1>3, <1>4, <2>1, TotalsAgree
<1>6. g[S] = f[y][field] + g[T]
  <2>1. S \in SUBSET S
    OBVIOUS
  <2> QED
    BY <1>3, <2>1 DEF Totals
<1> QED
  BY <1>1, <1>3, <1>4, <1>5, <1>6

\* The total is the bytes of any one element and the total of the others.
LEMMA BytesOne ==
  ASSUME NEW f, NEW S, NEW field, Countable(f, S, field), NEW x \in S
  PROVE  BytesOf(f, S, field) = f[x][field] + BytesOf(f, S \ {x}, field)
<1> DEFINE Good(u) == \A z \in u : BytesOf(f, u, field) = f[z][field] + BytesOf(f, u \ {z}, field)
           P == {n \in Nat : \A u \in SUBSET S : Cardinality(u) <= n => Good(u)}
<1>1. \A u \in SUBSET S : Countable(f, u, field) /\ Cardinality(u) \in Nat
  BY CountableSubset, FS_CardinalityType DEF Countable
<1>2. \A u \in SUBSET S : \A z \in u : Cardinality(u \ {z}) = Cardinality(u) - 1
  BY <1>1, FS_RemoveElement DEF Countable
<1>3. \A u \in SUBSET S : Cardinality(u) = 0 => u = {}
  BY <1>1, FS_EmptySet DEF Countable
<1>4. \A u \in SUBSET S : BytesOf(f, u, field) \in Nat
  BY <1>1, BytesNat
<1>5. \A z \in S : f[z][field] \in Nat
  BY DEF Countable
<1>6. 0 \in P
  <2> SUFFICES ASSUME NEW u \in SUBSET S, Cardinality(u) <= 0 PROVE Good(u)
    OBVIOUS
  <2>1. Cardinality(u) = 0
    BY <1>1
  <2> QED
    BY <1>3, <2>1
<1>7. ASSUME NEW n \in P PROVE n + 1 \in P
  <2> SUFFICES ASSUME NEW u \in SUBSET S, Cardinality(u) <= n + 1, NEW z \in u
               PROVE  BytesOf(f, u, field) = f[z][field] + BytesOf(f, u \ {z}, field)
    OBVIOUS
  <2>0. n \in Nat
    OBVIOUS
  <2>1. PICK y \in u : BytesOf(f, u, field) = f[y][field] + BytesOf(f, u \ {y}, field)
    BY <1>1, BytesPeel
  <2>2. CASE z # y
    <3>1. u \ {y} \in SUBSET S /\ Cardinality(u \ {y}) <= n /\ z \in u \ {y}
      BY <1>1, <1>2, <2>0, <2>2
    <3>2. u \ {z} \in SUBSET S /\ Cardinality(u \ {z}) <= n /\ y \in u \ {z}
      BY <1>1, <1>2, <2>0, <2>2
    <3>3. BytesOf(f, u \ {y}, field) = f[z][field] + BytesOf(f, (u \ {y}) \ {z}, field)
      BY <3>1
    <3>4. BytesOf(f, u \ {z}, field) = f[y][field] + BytesOf(f, (u \ {z}) \ {y}, field)
      BY <3>2
    <3>5. (u \ {z}) \ {y} = (u \ {y}) \ {z} /\ (u \ {y}) \ {z} \in SUBSET S
      OBVIOUS
    <3> QED
      BY <1>4, <1>5, <2>1, <3>1, <3>2, <3>3, <3>4, <3>5
  <2> QED
    BY <2>1, <2>2
<1>8. P = Nat
  <2> HIDE DEF P
  <2>1. P \in SUBSET Nat
    BY DEF P
  <2> QED
    BY <1>6, <1>7, <2>1, NumbersFromZero
<1>9. S \in SUBSET S
  OBVIOUS
<1>10. Cardinality(S) \in P /\ Cardinality(S) <= Cardinality(S)
  BY <1>1, <1>8, <1>9
<1> QED
  BY <1>9, <1>10

\* The total of a set is that of a part and that of the rest.
LEMMA BytesSplit ==
  ASSUME NEW f, NEW S, NEW field, Countable(f, S, field), NEW T \in SUBSET S
  PROVE  BytesOf(f, S, field) = BytesOf(f, T, field) + BytesOf(f, S \ T, field)
<1> DEFINE c == [u \in SUBSET T |-> PickOf(u)]
           Q == {u \in SUBSET T :
                   BytesOf(f, S, field) = BytesOf(f, u, field) + BytesOf(f, S \ u, field)}
<1>1. \A u \in SUBSET S : Countable(f, u, field) /\ BytesOf(f, u, field) \in Nat
  BY CountableSubset, BytesNat
<1>2. Chooses(c, T)
  BY DEF Chooses, PickOf
<1>3. {} \in Q
  <2>1. S \ {} = S /\ S \in SUBSET S
    OBVIOUS
  <2> QED
    BY <1>1, <2>1, BytesNone
<1>4. ASSUME NEW u \in SUBSET T, u # {}, u \ {c[u]} \in Q PROVE u \in Q
  <2> DEFINE y == c[u]  v == u \ {y}  w == S \ v
  <2>1. y \in u /\ v \in SUBSET S /\ w \in SUBSET S /\ u \in SUBSET S /\ S \ u \in SUBSET S
    BY <1>2, <1>4 DEF Chooses
  <2>2. BytesOf(f, S, field) = BytesOf(f, v, field) + BytesOf(f, w, field)
    BY <1>4
  <2>3. BytesOf(f, u, field) = f[y][field] + BytesOf(f, v, field)
    <3> HIDE DEF y
    <3> QED
      BY <1>1, <2>1, BytesOne
  <2>4. BytesOf(f, w, field) = f[y][field] + BytesOf(f, S \ u, field)
    <3>1. y \in w /\ w \ {y} = S \ u
      BY <2>1
    <3> HIDE DEF y, v, w
    <3>2. BytesOf(f, w, field) = f[y][field] + BytesOf(f, w \ {y}, field)
      BY <1>1, <2>1, <3>1, BytesOne
    <3> QED
      BY <3>1, <3>2
  <2>5. f[y][field] \in Nat
    BY <2>1 DEF Countable
  <2> HIDE DEF y, v, w
  <2>6. BytesOf(f, S, field) = BytesOf(f, u, field) + BytesOf(f, S \ u, field)
    BY <1>1, <2>1, <2>2, <2>3, <2>4, <2>5
  <2> QED
    BY <2>6
<1>5. T \in Q
  <2> HIDE DEF Q, c
  <2>1. IsFiniteSet(T)
    BY <1>1 DEF Countable
  <2> QED
    BY <1>2, <1>3, <1>4, <2>1, PeelingInduction
<1> QED
  BY <1>5

(***************************************************************************)
(* The inductive invariant.                                                *)
(***************************************************************************)
CacheKeys == [proto : {"axi", "stream"}, sem : Sem \cup Digest, scope : {"full"} \cup Ranges]
IndexKeys == CacheKeys \X Nat \X Kinds

Entries == [st : {"ready", "building"}, gen : Nat, res : Nat, bld : Nat]
IndexEntries == [st : {"ready", "building"}, res : Nat, bld : Nat]
Cursors == [key : CacheKeys, gen : Nat, pos : Int]
Stats == [resident : Nat, build : Nat, charged : Nat, metadata : Nat,
          canonicals : Nat, indexes : Nat, generations : Nat, cursors : Nat,
          bindings : Nat, tombstones : Nat]

\* A function from a finite part of K to V.
MapOf(f, K, V) == f \in [DOMAIN f -> V] /\ DOMAIN f \subseteq K /\ IsFiniteSet(DOMAIN f)

Record(r) ==
  r = [canon |-> r.canon, lru |-> r.lru, index |-> r.index, ilru |-> r.ilru,
       gens |-> r.gens, tlru |-> r.tlru, cursor |-> r.cursor, clru |-> r.clru,
       binding |-> r.binding, stats |-> r.stats]

\* The shape of a repository.  No key has two tombstones.
Typed(r) ==
  /\ Record(r)
  /\ MapOf(r.canon, CacheKeys, Entries) /\ r.lru \in Seq(CacheKeys)
  /\ MapOf(r.index, IndexKeys, IndexEntries) /\ r.ilru \in Seq(IndexKeys)
  /\ MapOf(r.gens, CacheKeys, Nat)
  /\ r.tlru \in Seq(CacheKeys) /\ NoRepeat(r.tlru)
  /\ MapOf(r.cursor, Name, Cursors) /\ r.clru \in Seq(Name)
  /\ MapOf(r.binding, {"st"}, Digest)
  /\ r.stats \in Stats

\* What refers to what: a result carries the generation of its key, a cursor
\* one that is not newer, an index that of its ready owner.
Linked(r) ==
  /\ \A k \in DOMAIN r.canon : k \in DOMAIN r.gens /\ r.canon[k].gen = r.gens[k]
  /\ \A c \in DOMAIN r.cursor : /\ r.cursor[c].key \in DOMAIN r.gens
                                /\ r.cursor[c].gen <= r.gens[r.cursor[c].key]
  /\ \A i \in DOMAIN r.index : /\ i[1] \in DOMAIN r.canon
                               /\ r.canon[i[1]].st = "ready"
                               /\ r.canon[i[1]].gen = i[2]

\* What is being built has no resident bytes.
NotYetResident(r) ==
  /\ \A k \in DOMAIN r.canon : r.canon[k].st = "building" => r.canon[k].res = 0
  /\ \A i \in DOMAIN r.index : r.index[i].st = "building" => r.index[i].res = 0

\* The counters among themselves.
Charged(s) == s.charged = charge(s.resident) + charge(s.build) + charge(s.metadata)
MetadataOf(g, t, c, b) == KeyBytes * (g + t) + CursorBytes * c + BindingBytes * b
Described(s) == s.metadata = MetadataOf(s.generations, s.tombstones, s.cursors, s.bindings)

\* The counters against the maps.
Total(f, field) == BytesOf(f, DOMAIN f, field)
Ready(f) == ReadyCount(f, DOMAIN f)
Tallied(r) ==
  /\ r.stats.resident = Total(r.canon, "res") + Total(r.index, "res")
  /\ r.stats.build = Total(r.canon, "bld") + Total(r.index, "bld")
  /\ r.stats.canonicals = Ready(r.canon)
  /\ r.stats.indexes = Ready(r.index)
  /\ r.stats.generations = Cardinality(DOMAIN r.gens)
  /\ r.stats.tombstones = Len(r.tlru)
  /\ r.stats.cursors = Cardinality(DOMAIN r.cursor)
  /\ r.stats.bindings = Cardinality(DOMAIN r.binding)

RepoInv(r) ==
  /\ Typed(r) /\ Linked(r) /\ NotYetResident(r)
  /\ Charged(r.stats) /\ Described(r.stats) /\ Tallied(r)

\* The build under way is that of a key; a lazy index being built is resident.
JobInv ==
  \/ job = <<>>
  \/ \E k \in CacheKeys : job = <<"canon", k>>
  \/ \E i \in DOMAIN repo.index : job = <<"index", i>>

\* The digest of the stored configuration, or that there is none.
StreamConfigs == {""} \cup Digest

CacheInv ==
  /\ RepoInv(repo)
  /\ ObjectsWithinHard
  /\ keyof \in [Name -> {<<>>} \cup {<<k>> : k \in CacheKeys}]
  /\ \A n \in DOMAIN repo.cursor : keyof[n] = <<repo.cursor[n].key>>
  /\ streamCfg \in StreamConfigs
  /\ JobInv

(***************************************************************************)
(* Maps, sequences and their totals.                                       *)
(***************************************************************************)
LEMMA WithoutMap ==
  ASSUME NEW f, NEW K, NEW V, MapOf(f, K, V), NEW S
  PROVE  /\ MapOf(Without(f, S), K, V)
         /\ DOMAIN Without(f, S) = DOMAIN f \ S
         /\ \A x \in DOMAIN f \ S : Without(f, S)[x] = f[x]
<1>1. DOMAIN Without(f, S) = DOMAIN f \ S /\ \A x \in DOMAIN f \ S : Without(f, S)[x] = f[x]
  BY DEF Without
<1>2. IsFiniteSet(DOMAIN f \ S)
  BY FS_Subset DEF MapOf
<1>3. Without(f, S) \in [DOMAIN f \ S -> V]
  BY DEF Without, MapOf
<1> QED
  BY <1>1, <1>2, <1>3 DEF MapOf

LEMMA WithMap ==
  ASSUME NEW f, NEW K, NEW V, MapOf(f, K, V), NEW x \in K, NEW v \in V
  PROVE  /\ MapOf(With(f, x, v), K, V)
         /\ DOMAIN With(f, x, v) = DOMAIN f \cup {x}
         /\ With(f, x, v)[x] = v
         /\ \A y \in DOMAIN f : y # x => With(f, x, v)[y] = f[y]
<1>1. /\ DOMAIN With(f, x, v) = DOMAIN f \cup {x}
      /\ With(f, x, v)[x] = v
      /\ \A y \in DOMAIN f : y # x => With(f, x, v)[y] = f[y]
  BY DEF With
<1>2. IsFiniteSet(DOMAIN f \cup {x})
  BY FS_AddElement DEF MapOf
<1>3. With(f, x, v) \in [DOMAIN f \cup {x} -> V]
  BY DEF With, MapOf
<1> QED
  BY <1>1, <1>2, <1>3 DEF MapOf

LEMMA DroppedSeq ==
  ASSUME NEW T, NEW s \in Seq(T), NEW S
  PROVE  /\ Dropped(s, S) \in Seq(T)
         /\ Range(Dropped(s, S)) = Range(s) \ S
         /\ NoRepeat(s) => NoRepeat(Dropped(s, S))
<1> DEFINE R == Range(s) \ S
<1>1. /\ Filtered(s, R) \in Seq(T)
      /\ {Filtered(s, R)[i] : i \in DOMAIN Filtered(s, R)} = {s[i] : i \in DOMAIN s} \cap R
      /\ (\A i, j \in DOMAIN s : s[i] = s[j] => i = j)
              => \A i, j \in DOMAIN Filtered(s, R) :
                   Filtered(s, R)[i] = Filtered(s, R)[j] => i = j
  <2> HIDE DEF R
  <2> QED
    BY FilteredElements
<1>2. Dropped(s, S) = Filtered(s, R)
  BY DEF Dropped
<1>3. Range(s) \cap R = R
  OBVIOUS
<1> HIDE DEF R
<1>4. Range(Filtered(s, R)) = R
  BY <1>1, <1>3 DEF Range
<1> QED
  BY <1>1, <1>2, <1>4 DEF NoRepeat, R

LEMMA TouchedSeq ==
  ASSUME NEW T, NEW s \in Seq(T), NEW x \in T
  PROVE  Touched(s, x) \in Seq(T)
BY DroppedSeq DEF Touched

\* The tombstones of a key and of the others.
LEMMA Tombstones ==
  ASSUME NEW T, NEW s \in Seq(T), NoRepeat(s), NEW x \in T
  PROVE  /\ x \in Range(s) => /\ Len(Dropped(s, {x})) = Len(s) - 1
                              /\ Len(Touched(s, x)) = Len(s) /\ NoRepeat(Touched(s, x))
         /\ x \notin Range(s) => NoRepeat(Append(s, x))
         /\ Len(s) \in Nat
<1>1. /\ Dropped(s, {x}) \in Seq(T) /\ NoRepeat(Dropped(s, {x}))
      /\ Range(Dropped(s, {x})) = Range(s) \ {x}
  BY DroppedSeq
<1>2. Len(s) \in Nat /\ Len(Dropped(s, {x})) \in Nat
  BY <1>1
<1>3. /\ IsFiniteSet(Range(s)) /\ Cardinality(Range(s)) = Len(s)
      /\ Cardinality(Range(s) \ {x}) = Len(Dropped(s, {x}))
  BY <1>1, NoRepeatLen
<1>4. x \in Range(s) => Len(Dropped(s, {x})) = Len(s) - 1
  BY <1>3, FS_RemoveElement
<1>5. ASSUME NEW q \in Seq(T), NoRepeat(q), x \notin Range(q)
      PROVE  NoRepeat(Append(q, x)) /\ Len(Append(q, x)) = Len(q) + 1
  BY <1>5 DEF NoRepeat, Range
<1>6. x \notin Range(Dropped(s, {x}))
  BY <1>1
<1>7. /\ NoRepeat(Append(Dropped(s, {x}), x))
      /\ Len(Append(Dropped(s, {x}), x)) = Len(Dropped(s, {x})) + 1
  BY <1>1, <1>5, <1>6
<1>8. x \notin Range(s) => NoRepeat(Append(s, x))
  BY <1>5
<1> QED
  BY <1>2, <1>4, <1>7, <1>8 DEF Touched

(***************************************************************************)
(* Totals and counts of a map that loses, gains or changes entries.        *)
(***************************************************************************)
Measured(f, field) == Countable(f, DOMAIN f, field)

LEMMA TotalWithout ==
  ASSUME NEW f, NEW S \in SUBSET DOMAIN f, NEW field, Measured(f, field)
  PROVE  /\ Total(Without(f, S), field) = Total(f, field) - BytesOf(f, S, field)
         /\ BytesOf(f, S, field) \in Nat /\ BytesOf(f, S, field) <= Total(f, field)
         /\ Total(Without(f, S), field) \in Nat /\ Total(f, field) \in Nat
<1> DEFINE D == DOMAIN f  E == D \ S
<1>1. Countable(f, D, field) /\ Countable(f, S, field) /\ Countable(f, E, field)
  <2>1. Countable(f, D, field) /\ S \in SUBSET D /\ E \in SUBSET D
    BY DEF Measured
  <2> QED
    BY <2>1, CountableSubset
<1>2. BytesOf(f, D, field) = BytesOf(f, S, field) + BytesOf(f, E, field)
  BY <1>1, BytesSplit
<1>3. BytesOf(f, D, field) \in Nat /\ BytesOf(f, S, field) \in Nat /\ BytesOf(f, E, field) \in Nat
  BY <1>1, BytesNat
<1>4. DOMAIN Without(f, S) = E /\ \A x \in E : f[x][field] = Without(f, S)[x][field]
  BY DEF Without
<1>5. BytesOf(f, E, field) = BytesOf(Without(f, S), E, field)
  <2> HIDE DEF E
  <2> QED
    BY <1>1, <1>4, BytesSame
<1> HIDE DEF E
<1> QED
  BY <1>2, <1>3, <1>4, <1>5 DEF Total

\* h has the entries of f and one at x, and the same field but at x.
SameBut(f, h, x, field) ==
  /\ DOMAIN h = DOMAIN f \cup {x}
  /\ \A y \in DOMAIN f : y # x => h[y][field] = f[y][field]

Was(f, x, field) == IF x \in DOMAIN f THEN f[x][field] ELSE 0

\* h is f with the entry of x changed, or added when old is 0.
LEMMA TotalChange ==
  ASSUME NEW f, NEW h, NEW x, NEW field, Measured(f, field), Measured(h, field),
         SameBut(f, h, x, field)
  PROVE  /\ Total(h, field) = Total(f, field) - Was(f, x, field) + h[x][field]
         /\ Total(h, field) \in Nat /\ Total(f, field) \in Nat /\ h[x][field] \in Nat
         /\ Was(f, x, field) \in Nat /\ Was(f, x, field) <= Total(f, field)
<1> DEFINE E == DOMAIN f \ {x}
<1>0. x \in DOMAIN h /\ DOMAIN h = DOMAIN f \cup {x}
  BY DEF SameBut
<1>1. BytesOf(h, DOMAIN h, field) = h[x][field] + BytesOf(h, DOMAIN h \ {x}, field)
  BY <1>0, BytesOne DEF Measured
<1>2. DOMAIN h \ {x} = E
  BY <1>0
<1>3. Countable(f, E, field) /\ BytesOf(f, E, field) \in Nat
  BY CountableSubset, BytesNat DEF Measured
<1>4. BytesOf(f, E, field) = BytesOf(h, E, field)
  <2>1. \A y \in E : f[y][field] = h[y][field]
    BY DEF SameBut
  <2> HIDE DEF E
  <2> QED
    BY <1>3, <2>1, BytesSame
<1>5. x \in DOMAIN f => BytesOf(f, DOMAIN f, field) = f[x][field] + BytesOf(f, E, field)
  BY BytesOne DEF Measured
<1>6. x \notin DOMAIN f => E = DOMAIN f
  OBVIOUS
<1>7. h[x][field] \in Nat /\ (x \in DOMAIN f => f[x][field] \in Nat)
  BY <1>0 DEF Measured, Countable
<1> HIDE DEF E
<1>8. PICK n \in Nat : n = BytesOf(f, E, field)
  BY <1>3
<1>9. PICK e \in Nat : e = h[x][field]
  BY <1>7
<1>10. Was(f, x, field) \in Nat /\ Total(f, field) = Was(f, x, field) + n
  BY <1>5, <1>6, <1>7, <1>8 DEF Total, Was
<1>11. Total(h, field) = e + n
  BY <1>1, <1>2, <1>4, <1>8, <1>9 DEF Total
<1>12. PICK w \in Nat : w = Was(f, x, field)
  BY <1>10
<1>13. Total(f, field) = w + n
  BY <1>10, <1>12
<1> QED
  BY <1>9, <1>11, <1>12, <1>13

LEMMA ReadyWithout ==
  ASSUME NEW f, NEW S \in SUBSET DOMAIN f, IsFiniteSet(DOMAIN f)
  PROVE  /\ Ready(Without(f, S)) = Ready(f) - ReadyCount(f, S)
         /\ ReadyCount(f, S) \in Nat /\ ReadyCount(f, S) <= Ready(f)
         /\ Ready(f) \in Nat
<1> DEFINE A == {x \in DOMAIN f : f[x].st = "ready"}
           B == {x \in S : f[x].st = "ready"}
           C == {x \in DOMAIN Without(f, S) : Without(f, S)[x].st = "ready"}
<1>1. C = A \ B /\ A \cap B = B
  BY DEF Without
<1>2. IsFiniteSet(A) /\ IsFiniteSet(B)
  BY FS_Subset
<1>3. Cardinality(C) = Cardinality(A) - Cardinality(B)
  <2> HIDE DEF A, B, C
  <2>1. Cardinality(A \ B) = Cardinality(A) - Cardinality(A \cap B)
    BY <1>2, FS_Difference
  <2> QED
    BY <1>1, <2>1
<1>4. Cardinality(B) \in Nat /\ Cardinality(A) \in Nat /\ Cardinality(B) <= Cardinality(A)
  <2>1. B \in SUBSET A
    OBVIOUS
  <2> HIDE DEF A, B
  <2> QED
    BY <1>2, <2>1, FS_CardinalityType, FS_Subset
<1>5. Ready(Without(f, S)) = Cardinality(C) /\ Ready(f) = Cardinality(A)
      /\ ReadyCount(f, S) = Cardinality(B)
  BY DEF Ready, ReadyCount
<1> QED
  BY <1>3, <1>4, <1>5

LEMMA ReadyChange ==
  ASSUME NEW f, NEW h, NEW x \in DOMAIN h, IsFiniteSet(DOMAIN f), DOMAIN h = DOMAIN f \cup {x},
         \A y \in DOMAIN f : y # x => h[y].st = f[y].st,
         x \in DOMAIN f => f[x].st # "ready" \/ h[x].st = "ready"
  PROVE  /\ Ready(h) = Ready(f) + (IF h[x].st = "ready" /\ ~(x \in DOMAIN f /\ f[x].st = "ready")
                                   THEN 1 ELSE 0)
         /\ Ready(f) \in Nat
<1> DEFINE A == {y \in DOMAIN f : f[y].st = "ready"}
           B == {y \in DOMAIN h : h[y].st = "ready"}
           new == h[x].st = "ready" /\ ~(x \in DOMAIN f /\ f[x].st = "ready")
<1>1. IsFiniteSet(A) /\ Ready(f) = Cardinality(A) /\ Ready(h) = Cardinality(B)
  BY FS_Subset DEF Ready, ReadyCount
<1>2. CASE new
  <2>1. B = A \cup {x} /\ x \notin A
    BY <1>2
  <2> HIDE DEF A, B
  <2> QED
    BY <1>1, <1>2, <2>1, FS_AddElement, FS_CardinalityType
<1>3. CASE ~new
  <2>1. B = A
    BY <1>3
  <2> HIDE DEF A, B
  <2> QED
    BY <1>1, <1>3, <2>1, FS_CardinalityType
<1> QED
  BY <1>2, <1>3

(***************************************************************************)
(* Charges.                                                                *)
(***************************************************************************)
LEMMA ChargeAdd ==
  ASSUME NEW a \in Nat, NEW b \in Nat
  PROVE  charge(a + b) = charge(a) + charge(b) /\ charge(a) \in Nat /\ charge(b) \in Nat
<1>1. SafetyFactor \in Nat
  BY BudgetAssumption DEF ConfigAccepted
<1> QED
  BY <1>1 DEF charge

LEMMA ChargeLess ==
  ASSUME NEW a \in Nat, NEW b \in Nat, b <= a
  PROVE  charge(a - b) = charge(a) - charge(b) /\ charge(b) <= charge(a) /\ charge(b) \in Nat
         /\ charge(a) \in Nat /\ Less(a, b) = a - b
<1>1. PICK d \in Nat : a = b + d
  <2>1. a - b \in Nat /\ a = b + (a - b)
    OBVIOUS
  <2> QED
    BY <2>1
<1>2. charge(b + d) = charge(b) + charge(d) /\ charge(b) \in Nat /\ charge(d) \in Nat
  BY ChargeAdd
<1>3. a - b = d
  BY <1>1
<1> QED
  BY <1>1, <1>2, <1>3 DEF Less

LEMMA ChargeZero == charge(0) = 0
BY BudgetAssumption DEF charge, ConfigAccepted

(***************************************************************************)
(* The counters.                                                           *)
(***************************************************************************)
SameMaps(r, q) ==
  /\ Record(q)
  /\ q.canon = r.canon /\ q.lru = r.lru /\ q.index = r.index /\ q.ilru = r.ilru
  /\ q.gens = r.gens /\ q.tlru = r.tlru /\ q.cursor = r.cursor /\ q.clru = r.clru
  /\ q.binding = r.binding

LEMMA MetadataNat ==
  ASSUME NEW g \in Nat, NEW t \in Nat, NEW c \in Nat, NEW b \in Nat
  PROVE  MetadataOf(g, t, c, b) \in Nat
BY BudgetAssumption DEF MetadataOf

LEMMA MetadataGeneration ==
  ASSUME NEW g \in Nat, NEW t \in Nat, NEW c \in Nat, NEW b \in Nat
  PROVE  MetadataOf(g + 1, t, c, b) = MetadataOf(g, t, c, b) + KeyBytes
BY BudgetAssumption DEF MetadataOf

LEMMA MetadataTombstone ==
  ASSUME NEW g \in Nat, NEW t \in Nat, NEW c \in Nat, NEW b \in Nat
  PROVE  MetadataOf(g, t + 1, c, b) = MetadataOf(g, t, c, b) + KeyBytes
BY BudgetAssumption DEF MetadataOf

LEMMA MetadataBinding ==
  ASSUME NEW g \in Nat, NEW t \in Nat, NEW c \in Nat, NEW b \in Nat
  PROVE  MetadataOf(g, t, c, b + 1) = MetadataOf(g, t, c, b) + BindingBytes
BY BudgetAssumption DEF MetadataOf

LEMMA MetadataCursors ==
  ASSUME NEW g \in Nat, NEW t \in Nat, NEW c \in Nat, NEW b \in Nat, NEW n \in Nat
  PROVE  /\ MetadataOf(g, t, c + n, b) = MetadataOf(g, t, c, b) + CursorBytes * n
         /\ CursorBytes * n \in Nat
BY BudgetAssumption DEF MetadataOf

ByteNames == {"resident", "build", "metadata"}
CounterNames == {"canonicals", "indexes", "generations", "cursors", "bindings", "tombstones"}

\* t differs from s at most at the counter field, and in what is charged.
AgreeBut(s, t, field) ==
  \A f \in ByteNames \cup CounterNames : f # field => t[f] = s[f]

LEMMA RemoveBytes ==
  ASSUME NEW r, Record(r), r.stats \in Stats, Charged(r.stats),
         NEW field \in ByteNames, NEW bytes \in Nat,
         bytes <= r.stats[field],
         NEW q, q = remove_bytes(r, field, bytes)
  PROVE  /\ SameMaps(r, q) /\ q.stats \in Stats /\ Charged(q.stats)
         /\ q.stats[field] = r.stats[field] - bytes /\ AgreeBut(r.stats, q.stats, field)
<1> DEFINE s == r.stats
<1>0. field \in {"resident", "build", "metadata"} /\ field # "charged"
  BY DEF ByteNames
<1>1. /\ SameMaps(r, q)
      /\ q.stats = [s EXCEPT ![field] = Less(s[field], bytes),
                             !.charged = Less(s.charged, charge(bytes))]
  <2>1. SameMaps(r, q)
    BY DEF Record, SameMaps, remove_bytes
  <2>2. q.stats = [s EXCEPT ![field] = Less(s[field], bytes),
                            !.charged = Less(s.charged, charge(bytes))]
    BY <1>0 DEF Record, remove_bytes, Stats
  <2> QED
    BY <2>1, <2>2
<1>2. s[field] \in Nat /\ s.resident \in Nat /\ s.build \in Nat /\ s.metadata \in Nat
  BY <1>0 DEF Stats
<1>3. /\ charge(s[field] - bytes) = charge(s[field]) - charge(bytes)
      /\ charge(bytes) <= charge(s[field]) /\ charge(bytes) \in Nat
      /\ Less(s[field], bytes) = s[field] - bytes
  BY <1>2, ChargeLess
<1>4. charge(s.resident) \in Nat /\ charge(s.build) \in Nat /\ charge(s.metadata) \in Nat
  BY <1>2, ChargeAdd
<1>5. s.charged = charge(s.resident) + charge(s.build) + charge(s.metadata)
  BY DEF Charged
<1>6. charge(bytes) <= s.charged /\ s.charged \in Nat
  BY <1>0, <1>3, <1>4, <1>5
<1>7. Less(s.charged, charge(bytes)) = s.charged - charge(bytes)
  BY <1>3, <1>6 DEF Less
<1>8. q.stats = [s EXCEPT ![field] = s[field] - bytes, !.charged = s.charged - charge(bytes)]
  BY <1>1, <1>3, <1>7
<1>9. s[field] - bytes \in Nat /\ s.charged - charge(bytes) \in Nat
  BY <1>2, <1>3, <1>6
<1>10. q.stats \in Stats
  BY <1>0, <1>8, <1>9 DEF Stats
<1>11. Charged(q.stats)
  <2>1. CASE field = "resident"
    <3>1. /\ q.stats.resident = s.resident - bytes /\ q.stats.charged = s.charged - charge(bytes)
          /\ q.stats.build = s.build /\ q.stats.metadata = s.metadata
      BY <1>8, <2>1 DEF Stats
    <3>2. charge(q.stats.resident) = charge(s.resident) - charge(bytes)
      BY <1>3, <2>1, <3>1
    <3>3. /\ charge(q.stats.build) = charge(s.build) /\ charge(q.stats.metadata) = charge(s.metadata)
      BY <3>1
    <3> QED
      BY <1>3, <1>4, <1>5, <3>1, <3>2, <3>3 DEF Charged
  <2>2. CASE field = "build"
    <3>1. /\ q.stats.build = s.build - bytes /\ q.stats.charged = s.charged - charge(bytes)
          /\ q.stats.resident = s.resident /\ q.stats.metadata = s.metadata
      BY <1>8, <2>2 DEF Stats
    <3>2. charge(q.stats.build) = charge(s.build) - charge(bytes)
      BY <1>3, <2>2, <3>1
    <3>3. /\ charge(q.stats.resident) = charge(s.resident) /\ charge(q.stats.metadata) = charge(s.metadata)
      BY <3>1
    <3> QED
      BY <1>3, <1>4, <1>5, <3>1, <3>2, <3>3 DEF Charged
  <2>3. CASE field = "metadata"
    <3>1. /\ q.stats.metadata = s.metadata - bytes /\ q.stats.charged = s.charged - charge(bytes)
          /\ q.stats.resident = s.resident /\ q.stats.build = s.build
      BY <1>8, <2>3 DEF Stats
    <3>2. charge(q.stats.metadata) = charge(s.metadata) - charge(bytes)
      BY <1>3, <2>3, <3>1
    <3>3. /\ charge(q.stats.resident) = charge(s.resident) /\ charge(q.stats.build) = charge(s.build)
      BY <3>1
    <3> QED
      BY <1>3, <1>4, <1>5, <3>1, <3>2, <3>3 DEF Charged
  <2> QED
    BY <1>0, <2>1, <2>2, <2>3
<1>12. q.stats[field] = s[field] - bytes /\ AgreeBut(s, q.stats, field)
  BY <1>0, <1>8 DEF Stats, AgreeBut, ByteNames, CounterNames
<1> QED
  BY <1>1, <1>10, <1>11, <1>12

LEMMA AddBytes ==
  ASSUME NEW r, Record(r), r.stats \in Stats, Charged(r.stats),
         NEW field \in ByteNames, NEW bytes \in Nat,
         NEW q, q = add_bytes(r, field, bytes)
  PROVE  /\ SameMaps(r, q) /\ q.stats \in Stats /\ Charged(q.stats)
         /\ q.stats[field] = r.stats[field] + bytes /\ AgreeBut(r.stats, q.stats, field)
<1> DEFINE s == r.stats
<1>0. field \in {"resident", "build", "metadata"} /\ field # "charged"
  BY DEF ByteNames
<1>1. /\ SameMaps(r, q)
      /\ q.stats = [s EXCEPT ![field] = s[field] + bytes,
                             !.charged = s.charged + charge(bytes)]
  <2>1. SameMaps(r, q)
    BY DEF Record, SameMaps, add_bytes
  <2>2. q.stats = [s EXCEPT ![field] = s[field] + bytes,
                            !.charged = s.charged + charge(bytes)]
    BY <1>0 DEF Record, add_bytes, Stats
  <2> QED
    BY <2>1, <2>2
<1>2. s[field] \in Nat /\ s.resident \in Nat /\ s.build \in Nat /\ s.metadata \in Nat
  BY <1>0 DEF Stats
<1>3. charge(s[field] + bytes) = charge(s[field]) + charge(bytes) /\ charge(bytes) \in Nat
  BY <1>2, ChargeAdd
<1>4. charge(s.resident) \in Nat /\ charge(s.build) \in Nat /\ charge(s.metadata) \in Nat
  BY <1>2, ChargeAdd
<1>5. s.charged = charge(s.resident) + charge(s.build) + charge(s.metadata) /\ s.charged \in Nat
  BY <1>4 DEF Charged
<1>9. s[field] + bytes \in Nat /\ s.charged + charge(bytes) \in Nat
  BY <1>2, <1>3, <1>5
<1>10. q.stats \in Stats
  BY <1>0, <1>1, <1>9 DEF Stats
<1>11. Charged(q.stats)
  <2>1. CASE field = "resident"
    <3>1. /\ q.stats.resident = s.resident + bytes /\ q.stats.charged = s.charged + charge(bytes)
          /\ q.stats.build = s.build /\ q.stats.metadata = s.metadata
      BY <1>1, <2>1 DEF Stats
    <3>2. charge(q.stats.resident) = charge(s.resident) + charge(bytes)
      BY <1>3, <2>1, <3>1
    <3>3. /\ charge(q.stats.build) = charge(s.build) /\ charge(q.stats.metadata) = charge(s.metadata)
      BY <3>1
    <3> QED
      BY <1>3, <1>4, <1>5, <3>1, <3>2, <3>3 DEF Charged
  <2>2. CASE field = "build"
    <3>1. /\ q.stats.build = s.build + bytes /\ q.stats.charged = s.charged + charge(bytes)
          /\ q.stats.resident = s.resident /\ q.stats.metadata = s.metadata
      BY <1>1, <2>2 DEF Stats
    <3>2. charge(q.stats.build) = charge(s.build) + charge(bytes)
      BY <1>3, <2>2, <3>1
    <3>3. /\ charge(q.stats.resident) = charge(s.resident) /\ charge(q.stats.metadata) = charge(s.metadata)
      BY <3>1
    <3> QED
      BY <1>3, <1>4, <1>5, <3>1, <3>2, <3>3 DEF Charged
  <2>3. CASE field = "metadata"
    <3>1. /\ q.stats.metadata = s.metadata + bytes /\ q.stats.charged = s.charged + charge(bytes)
          /\ q.stats.resident = s.resident /\ q.stats.build = s.build
      BY <1>1, <2>3 DEF Stats
    <3>2. charge(q.stats.metadata) = charge(s.metadata) + charge(bytes)
      BY <1>3, <2>3, <3>1
    <3>3. /\ charge(q.stats.resident) = charge(s.resident) /\ charge(q.stats.build) = charge(s.build)
      BY <3>1
    <3> QED
      BY <1>3, <1>4, <1>5, <3>1, <3>2, <3>3 DEF Charged
  <2> QED
    BY <1>0, <2>1, <2>2, <2>3
<1>12. q.stats[field] = s[field] + bytes /\ AgreeBut(s, q.stats, field)
  BY <1>0, <1>1 DEF Stats, AgreeBut, ByteNames, CounterNames
<1> QED
  BY <1>1, <1>10, <1>11, <1>12

LEMMA Uncounting ==
  ASSUME NEW r, Record(r), r.stats \in Stats, NEW field \in CounterNames, NEW by \in Nat,
         by <= r.stats[field],
         NEW q, q = uncounted(r, field, by)
  PROVE  /\ SameMaps(r, q) /\ q.stats \in Stats
         /\ Charged(r.stats) => Charged(q.stats)
         /\ q.stats[field] = r.stats[field] - by /\ AgreeBut(r.stats, q.stats, field)
<1>1. r.stats[field] \in Nat
  BY DEF Stats, CounterNames
<1>2. SameMaps(r, q) /\ q.stats = [r.stats EXCEPT ![field] = @ - by]
  BY <1>1 DEF Record, SameMaps, uncounted, Stats, Less
<1>3. q.stats \in Stats
  BY <1>1, <1>2 DEF Stats
<1>4. Charged(r.stats) => Charged(q.stats)
  BY <1>2 DEF Charged, Stats, CounterNames
<1>5. q.stats[field] = r.stats[field] - by /\ AgreeBut(r.stats, q.stats, field)
  BY <1>2 DEF Stats, AgreeBut, ByteNames, CounterNames
<1> QED
  BY <1>2, <1>3, <1>4, <1>5

LEMMA Counting ==
  ASSUME NEW r, Record(r), r.stats \in Stats, NEW field \in CounterNames, NEW by \in Nat,
         NEW q, q = counted(r, field, by)
  PROVE  /\ SameMaps(r, q) /\ q.stats \in Stats
         /\ Charged(r.stats) => Charged(q.stats)
         /\ q.stats[field] = r.stats[field] + by /\ AgreeBut(r.stats, q.stats, field)
<1>1. r.stats[field] \in Nat
  BY DEF Stats, CounterNames
<1>2. SameMaps(r, q) /\ q.stats = [r.stats EXCEPT ![field] = @ + by]
  BY <1>1 DEF Record, SameMaps, counted, Stats
<1>3. q.stats \in Stats
  BY <1>1, <1>2 DEF Stats
<1>4. Charged(r.stats) => Charged(q.stats)
  BY <1>2 DEF Charged, Stats, CounterNames
<1>5. q.stats[field] = r.stats[field] + by /\ AgreeBut(r.stats, q.stats, field)
  BY <1>2 DEF Stats, AgreeBut, ByteNames, CounterNames
<1> QED
  BY <1>2, <1>3, <1>4, <1>5

(***************************************************************************)
(* What each step of the repository keeps.                                 *)
(***************************************************************************)
\* g is a part of the map f.
Part(f, g) == DOMAIN g \subseteq DOMAIN f /\ \A x \in DOMAIN g : g[x] = f[x]

\* q holds nothing that r does not hold.
Shrunk(r, q) ==
  /\ Part(r.canon, q.canon) /\ Part(r.index, q.index)
  /\ Part(r.cursor, q.cursor) /\ Part(r.gens, q.gens)
  /\ q.stats.resident <= r.stats.resident /\ q.stats.build <= r.stats.build

LEMMA ShrunkSelf ==
  ASSUME NEW r, RepoInv(r)
  PROVE  Shrunk(r, r)
BY DEF RepoInv, Typed, Stats, Shrunk, Part

LEMMA ShrunkTwice ==
  ASSUME NEW r, NEW s, NEW q, RepoInv(r), RepoInv(s), RepoInv(q), Shrunk(r, s), Shrunk(s, q)
  PROVE  Shrunk(r, q)
<1>1. /\ Part(r.canon, q.canon) /\ Part(r.index, q.index)
      /\ Part(r.cursor, q.cursor) /\ Part(r.gens, q.gens)
  BY DEF Shrunk, Part
<1>2. q.stats.resident <= r.stats.resident /\ q.stats.build <= r.stats.build
  <2>1. r.stats \in Stats /\ s.stats \in Stats /\ q.stats \in Stats
    BY DEF RepoInv, Typed
  <2>2. /\ s.stats.resident <= r.stats.resident /\ s.stats.build <= r.stats.build
        /\ q.stats.resident <= s.stats.resident /\ q.stats.build <= s.stats.build
    BY DEF Shrunk
  <2> QED
    BY <2>1, <2>2 DEF Stats
<1> QED
  BY <1>1, <1>2 DEF Shrunk

LEMMA EntriesMeasured ==
  ASSUME NEW f, NEW K, MapOf(f, K, Entries) \/ MapOf(f, K, IndexEntries)
  PROVE  Measured(f, "res") /\ Measured(f, "bld") /\ IsFiniteSet(DOMAIN f)
BY DEF Measured, Countable, MapOf, Entries, IndexEntries

\* The metadata bytes hold those of what is counted.
LEMMA MetadataHolds ==
  ASSUME NEW s \in Stats, Described(s)
  PROVE  /\ s.generations >= 1 => KeyBytes <= s.metadata
         /\ s.tombstones >= 1 => KeyBytes <= s.metadata
         /\ s.bindings >= 1 => BindingBytes <= s.metadata
         /\ \A n \in Nat : n <= s.cursors => CursorBytes * n <= s.metadata
<1> DEFINE g == s.generations  t == s.tombstones  c == s.cursors  b == s.bindings
<1>1. g \in Nat /\ t \in Nat /\ c \in Nat /\ b \in Nat
  BY DEF Stats
<1>2. s.metadata = MetadataOf(g, t, c, b)
  BY DEF Described
<1>3. KeyBytes \in Nat /\ BindingBytes \in Nat
  BY BudgetAssumption
<1> HIDE DEF g, t, c, b
<1>4. ASSUME g >= 1 PROVE KeyBytes <= s.metadata
  <2>1. PICK h \in Nat : g = h + 1
    <3>1. g - 1 \in Nat /\ g = (g - 1) + 1
      BY <1>1, <1>4
    <3> QED
      BY <3>1
  <2>2. MetadataOf(h, t, c, b) \in Nat
    BY <1>1, <2>1, MetadataNat
  <2>3. s.metadata = MetadataOf(h, t, c, b) + KeyBytes
    BY <1>1, <1>2, <2>1, MetadataGeneration
  <2> QED
    BY <1>3, <2>2, <2>3
<1>5. ASSUME t >= 1 PROVE KeyBytes <= s.metadata
  <2>1. PICK h \in Nat : t = h + 1
    <3>1. t - 1 \in Nat /\ t = (t - 1) + 1
      BY <1>1, <1>5
    <3> QED
      BY <3>1
  <2>2. MetadataOf(g, h, c, b) \in Nat
    BY <1>1, <2>1, MetadataNat
  <2>3. s.metadata = MetadataOf(g, h, c, b) + KeyBytes
    BY <1>1, <1>2, <2>1, MetadataTombstone
  <2> QED
    BY <1>3, <2>2, <2>3
<1>6. ASSUME b >= 1 PROVE BindingBytes <= s.metadata
  <2>1. PICK h \in Nat : b = h + 1
    <3>1. b - 1 \in Nat /\ b = (b - 1) + 1
      BY <1>1, <1>6
    <3> QED
      BY <3>1
  <2>2. MetadataOf(g, t, c, h) \in Nat
    BY <1>1, <2>1, MetadataNat
  <2>3. s.metadata = MetadataOf(g, t, c, h) + BindingBytes
    BY <1>1, <1>2, <2>1, MetadataBinding
  <2> QED
    BY <1>3, <2>2, <2>3
<1>7. ASSUME NEW n \in Nat, n <= c PROVE CursorBytes * n <= s.metadata
  <2>1. PICK h \in Nat : c = h + n
    <3>1. c - n \in Nat /\ c = (c - n) + n
      BY <1>1, <1>7
    <3> QED
      BY <3>1
  <2>2. /\ MetadataOf(g, t, h, b) \in Nat /\ CursorBytes * n \in Nat
        /\ MetadataOf(g, t, h + n, b) = MetadataOf(g, t, h, b) + CursorBytes * n
    BY <1>1, <2>1, MetadataNat, MetadataCursors
  <2> QED
    BY <1>2, <2>1, <2>2
<1> QED
  BY <1>4, <1>5, <1>6, <1>7 DEF g, t, c, b

\* t has one generation, tombstone or binding, or n cursors, more than s.
LEMMA GenerationDescribed ==
  ASSUME NEW s \in Stats, NEW t \in Stats, s.generations = t.generations - 1,
         s.tombstones = t.tombstones, s.cursors = t.cursors, s.bindings = t.bindings,
         s.metadata = t.metadata - KeyBytes
  PROVE  Described(s) <=> Described(t)
<1> DEFINE g == s.generations  u == s.tombstones  c == s.cursors  b == s.bindings
<1>1. g \in Nat /\ u \in Nat /\ c \in Nat /\ b \in Nat /\ t.generations = g + 1
      /\ s.metadata \in Nat /\ t.metadata \in Nat /\ KeyBytes \in Nat
  BY BudgetAssumption DEF Stats
<1> HIDE DEF g, u, c, b
<1>2. MetadataOf(g + 1, u, c, b) = MetadataOf(g, u, c, b) + KeyBytes
  BY <1>1, MetadataGeneration
<1>a. MetadataOf(g, u, c, b) \in Nat
  BY <1>1, MetadataNat
<1>3. /\ Described(s) <=> s.metadata = MetadataOf(g, u, c, b)
      /\ Described(t) <=> t.metadata = MetadataOf(g + 1, u, c, b)
  BY <1>1 DEF Described, g, u, c, b
<1> QED
  BY <1>1, <1>2, <1>a, <1>3

LEMMA TombstoneDescribed ==
  ASSUME NEW s \in Stats, NEW t \in Stats, s.tombstones = t.tombstones - 1,
         s.generations = t.generations, s.cursors = t.cursors, s.bindings = t.bindings,
         s.metadata = t.metadata - KeyBytes
  PROVE  Described(s) <=> Described(t)
<1> DEFINE g == s.generations  u == s.tombstones  c == s.cursors  b == s.bindings
<1>1. g \in Nat /\ u \in Nat /\ c \in Nat /\ b \in Nat /\ t.tombstones = u + 1
      /\ s.metadata \in Nat /\ t.metadata \in Nat /\ KeyBytes \in Nat
  BY BudgetAssumption DEF Stats
<1> HIDE DEF g, u, c, b
<1>2. MetadataOf(g, u + 1, c, b) = MetadataOf(g, u, c, b) + KeyBytes
  BY <1>1, MetadataTombstone
<1>a. MetadataOf(g, u, c, b) \in Nat
  BY <1>1, MetadataNat
<1>3. /\ Described(s) <=> s.metadata = MetadataOf(g, u, c, b)
      /\ Described(t) <=> t.metadata = MetadataOf(g, u + 1, c, b)
  BY <1>1 DEF Described, g, u, c, b
<1> QED
  BY <1>1, <1>2, <1>a, <1>3

LEMMA BindingDescribed ==
  ASSUME NEW s \in Stats, NEW t \in Stats, s.bindings = t.bindings - 1,
         s.generations = t.generations, s.cursors = t.cursors, s.tombstones = t.tombstones,
         s.metadata = t.metadata - BindingBytes
  PROVE  Described(s) <=> Described(t)
<1> DEFINE g == s.generations  u == s.tombstones  c == s.cursors  b == s.bindings
<1>1. g \in Nat /\ u \in Nat /\ c \in Nat /\ b \in Nat /\ t.bindings = b + 1
      /\ s.metadata \in Nat /\ t.metadata \in Nat /\ BindingBytes \in Nat
  BY BudgetAssumption DEF Stats
<1> HIDE DEF g, u, c, b
<1>2. MetadataOf(g, u, c, b + 1) = MetadataOf(g, u, c, b) + BindingBytes
  BY <1>1, MetadataBinding
<1>a. MetadataOf(g, u, c, b) \in Nat
  BY <1>1, MetadataNat
<1>3. /\ Described(s) <=> s.metadata = MetadataOf(g, u, c, b)
      /\ Described(t) <=> t.metadata = MetadataOf(g, u, c, b + 1)
  BY <1>1 DEF Described, g, u, c, b
<1> QED
  BY <1>1, <1>2, <1>a, <1>3

LEMMA CursorsDescribed ==
  ASSUME NEW s \in Stats, NEW t \in Stats, NEW n \in Nat, s.cursors = t.cursors - n,
         s.generations = t.generations, s.tombstones = t.tombstones, s.bindings = t.bindings,
         s.metadata = t.metadata - CursorBytes * n
  PROVE  Described(s) <=> Described(t)
<1> DEFINE g == s.generations  u == s.tombstones  c == s.cursors  b == s.bindings
           m == CursorBytes * n
<1>1. g \in Nat /\ u \in Nat /\ c \in Nat /\ b \in Nat /\ t.cursors = c + n
      /\ s.metadata \in Nat /\ t.metadata \in Nat /\ s.metadata = t.metadata - m
  BY BudgetAssumption DEF Stats
<1> HIDE DEF g, u, c, b
<1>2. MetadataOf(g, u, c + n, b) = MetadataOf(g, u, c, b) + m /\ m \in Nat
  <2>1. g \in Nat /\ u \in Nat /\ c \in Nat /\ b \in Nat /\ n \in Nat
    BY <1>1
  <2>2. /\ MetadataOf(g, u, c + n, b) = MetadataOf(g, u, c, b) + CursorBytes * n
        /\ CursorBytes * n \in Nat
    BY <2>1, BudgetAssumption DEF MetadataOf
  <2> QED
    BY <2>2
<1>a. MetadataOf(g, u, c, b) \in Nat
  BY <1>1, MetadataNat
<1>3. /\ Described(s) <=> s.metadata = MetadataOf(g, u, c, b)
      /\ Described(t) <=> t.metadata = MetadataOf(g, u, c + n, b)
  BY <1>1 DEF Described, g, u, c, b
<1> HIDE DEF m
<1> QED
  BY <1>1, <1>2, <1>a, <1>3

\* The generation of a key goes when no result and no cursor needs it.
LEMMA EraseGeneration ==
  ASSUME NEW r, RepoInv(r), NEW k, NEW q, q = erase_generation_if_unreferenced(r, k)
  PROVE  /\ RepoInv(q) /\ Shrunk(r, q)
         /\ q.canon = r.canon /\ q.index = r.index /\ q.cursor = r.cursor
<1>1. CASE \/ k \in DOMAIN r.canon
           \/ \E c \in DOMAIN r.cursor : r.cursor[c].key = k
           \/ k \notin DOMAIN r.gens
  <2>1. q = r
    BY <1>1 DEF erase_generation_if_unreferenced
  <2> QED
    BY <2>1, ShrunkSelf
<1>2. CASE ~ \/ k \in DOMAIN r.canon
             \/ \E c \in DOMAIN r.cursor : r.cursor[c].key = k
             \/ k \notin DOMAIN r.gens
  <2> DEFINE r1 == remove_bytes(r, "metadata", KeyBytes)
             r2 == [r1 EXCEPT !.gens = Without(@, {k})]
  <2>1. q = uncounted(r2, "generations", 1) /\ r1 = remove_bytes(r, "metadata", KeyBytes)
    BY <1>2 DEF erase_generation_if_unreferenced
  <2>2. Record(r) /\ r.stats \in Stats /\ Charged(r.stats) /\ MapOf(r.gens, CacheKeys, Nat)
    BY DEF RepoInv, Typed
  <2>3. IsFiniteSet(DOMAIN r.gens) /\ Cardinality(DOMAIN r.gens) = r.stats.generations
    BY <2>2 DEF RepoInv, MapOf, Tallied
  <2>4. Cardinality(DOMAIN r.gens \ {k}) = r.stats.generations - 1
    BY <1>2, <2>3, FS_RemoveElement
  <2>5. r.stats.generations \in Nat /\ r.stats.generations >= 1
    BY <1>2, <2>2, <2>3, FS_EmptySet DEF Stats
  <2>6. Described(r.stats)
    BY DEF RepoInv
  <2>7. KeyBytes <= r.stats.metadata /\ KeyBytes \in Nat
    BY <2>2, <2>5, <2>6, MetadataHolds, BudgetAssumption
  <2> HIDE DEF r1
  <2>8. /\ SameMaps(r, r1) /\ r1.stats \in Stats /\ Charged(r1.stats)
        /\ r1.stats.metadata = r.stats.metadata - KeyBytes
        /\ AgreeBut(r.stats, r1.stats, "metadata")
    BY <2>1, <2>2, <2>6, <2>7, RemoveBytes DEF ByteNames
  <2>9. /\ Record(r2) /\ r2.gens = Without(r.gens, {k}) /\ r2.stats = r1.stats
        /\ r2.canon = r.canon /\ r2.lru = r.lru /\ r2.index = r.index /\ r2.ilru = r.ilru
        /\ r2.tlru = r.tlru /\ r2.cursor = r.cursor /\ r2.clru = r.clru
        /\ r2.binding = r.binding
    <3>1. \E x : x = r2
      OBVIOUS
    <3>2. PICK x : x = r2
      BY <3>1
    <3>3. /\ Record(x) /\ x.gens = Without(r.gens, {k}) /\ x.stats = r1.stats
          /\ x.canon = r.canon /\ x.lru = r.lru /\ x.index = r.index /\ x.ilru = r.ilru
          /\ x.tlru = r.tlru /\ x.cursor = r.cursor /\ x.clru = r.clru
          /\ x.binding = r.binding
      BY <2>8, <3>2 DEF SameMaps, Record
    <3> QED
      BY <3>2, <3>3
  <2> HIDE DEF r2
  <2>10. 1 <= r2.stats.generations /\ r2.stats.generations = r.stats.generations
    BY <2>2, <2>5, <2>8, <2>9 DEF Stats, AgreeBut, CounterNames
  <2>11. /\ SameMaps(r2, q) /\ q.stats \in Stats /\ Charged(q.stats)
         /\ q.stats.generations = r2.stats.generations - 1
         /\ AgreeBut(r2.stats, q.stats, "generations")
    BY <2>1, <2>8, <2>9, <2>10, Uncounting DEF CounterNames
  <2>12. /\ q.stats.metadata = r.stats.metadata - KeyBytes
         /\ q.stats.generations = r.stats.generations - 1
         /\ q.stats.resident = r.stats.resident /\ q.stats.build = r.stats.build
         /\ q.stats.canonicals = r.stats.canonicals /\ q.stats.indexes = r.stats.indexes
         /\ q.stats.tombstones = r.stats.tombstones /\ q.stats.cursors = r.stats.cursors
         /\ q.stats.bindings = r.stats.bindings
    BY <2>8, <2>9, <2>10, <2>11 DEF AgreeBut, ByteNames, CounterNames
  <2>13. /\ MapOf(q.gens, CacheKeys, Nat) /\ DOMAIN q.gens = DOMAIN r.gens \ {k}
         /\ \A x \in DOMAIN q.gens : q.gens[x] = r.gens[x]
    <3>1. q.gens = Without(r.gens, {k})
      BY <2>9, <2>11 DEF SameMaps
    <3> QED
      BY <2>2, <3>1, WithoutMap
  <2>14. /\ Record(q) /\ q.canon = r.canon /\ q.lru = r.lru /\ q.index = r.index
         /\ q.ilru = r.ilru /\ q.tlru = r.tlru /\ q.cursor = r.cursor /\ q.clru = r.clru
         /\ q.binding = r.binding
    BY <2>9, <2>11 DEF SameMaps
  <2>15. Typed(q)
    BY <2>11, <2>13, <2>14 DEF RepoInv, Typed
  <2>16. Linked(q) /\ NotYetResident(q)
    BY <1>2, <2>13, <2>14 DEF RepoInv, Linked, NotYetResident
  <2>17. Described(q.stats)
    BY <2>2, <2>6, <2>7, <2>11, <2>12, GenerationDescribed DEF Stats
  <2>18. Tallied(q)
    BY <2>3, <2>4, <2>12, <2>13, <2>14 DEF RepoInv, Tallied
  <2>19. Shrunk(r, q)
    BY <2>2, <2>12, <2>13, <2>14 DEF Shrunk, Part, Stats
  <2> QED
    BY <2>11, <2>14, <2>15, <2>16, <2>17, <2>18, <2>19 DEF RepoInv
<1> QED
  BY <1>1, <1>2

\* The metadata bytes go, then the map changes, then the counter.
LEMMA LessMetadata ==
  ASSUME NEW r, RepoInv(r), NEW bytes \in Nat, bytes <= r.stats.metadata,
         NEW field \in CounterNames, NEW n \in Nat, n <= r.stats[field],
         NEW r1, r1 = remove_bytes(r, "metadata", bytes),
         NEW r2, Record(r2), r2.stats = r1.stats,
         NEW q, q = uncounted(r2, field, n)
  PROVE  /\ SameMaps(r, r1) /\ SameMaps(r2, q)
         /\ q.stats \in Stats /\ Charged(q.stats)
         /\ q.stats.metadata = r.stats.metadata - bytes
         /\ q.stats[field] = r.stats[field] - n
         /\ q.stats.resident = r.stats.resident /\ q.stats.build = r.stats.build
         /\ \A f \in CounterNames : f # field => q.stats[f] = r.stats[f]
<1>1. Record(r) /\ r.stats \in Stats /\ Charged(r.stats)
  BY DEF RepoInv, Typed
<1>2. /\ SameMaps(r, r1) /\ r1.stats \in Stats /\ Charged(r1.stats)
      /\ r1.stats.metadata = r.stats.metadata - bytes /\ AgreeBut(r.stats, r1.stats, "metadata")
  BY <1>1, RemoveBytes DEF ByteNames
<1>3. \A f \in CounterNames : r1.stats[f] = r.stats[f]
  BY <1>2 DEF AgreeBut, CounterNames
<1>4. n <= r2.stats[field]
  BY <1>3
<1>5. /\ SameMaps(r2, q) /\ q.stats \in Stats /\ Charged(q.stats)
      /\ q.stats[field] = r2.stats[field] - n /\ AgreeBut(r2.stats, q.stats, field)
  BY <1>2, <1>4, Uncounting
<1>6. /\ q.stats.metadata = r1.stats.metadata
      /\ q.stats.resident = r1.stats.resident /\ q.stats.build = r1.stats.build
  BY <1>5 DEF AgreeBut, ByteNames, CounterNames
<1>7. r1.stats.resident = r.stats.resident /\ r1.stats.build = r.stats.build
  BY <1>2 DEF AgreeBut, ByteNames
<1>8. \A f \in CounterNames : f # field => q.stats[f] = r.stats[f]
  BY <1>3, <1>5 DEF AgreeBut
<1> QED
  BY <1>2, <1>3, <1>5, <1>6, <1>7, <1>8

LEMMA EraseTombstone ==
  ASSUME NEW r, RepoInv(r), NEW k, NEW q, q = erase_tombstone(r, k)
  PROVE  /\ RepoInv(q) /\ Shrunk(r, q)
         /\ q.canon = r.canon /\ q.index = r.index /\ q.cursor = r.cursor /\ q.gens = r.gens
<1>1. CASE k \notin Range(r.tlru)
  <2>1. q = r
    BY <1>1 DEF erase_tombstone
  <2> QED
    BY <2>1, ShrunkSelf
<1>2. CASE k \in Range(r.tlru)
  <2>1. PICK r1 : r1 = remove_bytes(r, "metadata", KeyBytes)
    OBVIOUS
  <2>2. PICK r2 : r2 = [r1 EXCEPT !.tlru = Dropped(@, {k})]
    OBVIOUS
  <2>3. q = uncounted(r2, "tombstones", 1)
    BY <1>2, <2>1, <2>2 DEF erase_tombstone
  <2>4. /\ Record(r) /\ r.stats \in Stats /\ Charged(r.stats) /\ Described(r.stats)
        /\ r.tlru \in Seq(CacheKeys) /\ NoRepeat(r.tlru) /\ Len(r.tlru) = r.stats.tombstones
    BY DEF RepoInv, Typed, Tallied
  <2>5. k \in CacheKeys
    BY <1>2, <2>4 DEF Range
  <2>6. Len(r.tlru) \in Nat /\ Len(r.tlru) >= 1
    BY <1>2, <2>4 DEF Range
  <2>7. KeyBytes <= r.stats.metadata /\ KeyBytes \in Nat
    BY <2>4, <2>6, MetadataHolds, BudgetAssumption
  <2>8. SameMaps(r, r1) /\ r1.stats \in Stats
    BY <2>1, <2>4, <2>7, RemoveBytes DEF ByteNames
  <2>9. /\ Record(r2) /\ r2.stats = r1.stats /\ r2.tlru = Dropped(r.tlru, {k})
        /\ r2.gens = r.gens /\ r2.canon = r.canon /\ r2.lru = r.lru /\ r2.index = r.index
        /\ r2.ilru = r.ilru /\ r2.cursor = r.cursor /\ r2.clru = r.clru
        /\ r2.binding = r.binding
    BY <2>2, <2>8 DEF SameMaps, Record
  <2>10. 1 <= r.stats.tombstones /\ "tombstones" \in CounterNames
    BY <2>4, <2>6 DEF CounterNames
  <2>11. /\ SameMaps(r2, q) /\ q.stats \in Stats /\ Charged(q.stats)
         /\ q.stats.metadata = r.stats.metadata - KeyBytes
         /\ q.stats.tombstones = r.stats.tombstones - 1
         /\ q.stats.resident = r.stats.resident /\ q.stats.build = r.stats.build
         /\ \A f \in CounterNames : f # "tombstones" => q.stats[f] = r.stats[f]
    BY <2>1, <2>3, <2>7, <2>9, <2>10, LessMetadata
  <2>12. /\ q.stats.canonicals = r.stats.canonicals /\ q.stats.indexes = r.stats.indexes
         /\ q.stats.generations = r.stats.generations /\ q.stats.cursors = r.stats.cursors
         /\ q.stats.bindings = r.stats.bindings
    BY <2>11 DEF CounterNames
  <2>13. /\ Record(q) /\ q.canon = r.canon /\ q.lru = r.lru /\ q.index = r.index
         /\ q.ilru = r.ilru /\ q.gens = r.gens /\ q.cursor = r.cursor /\ q.clru = r.clru
         /\ q.binding = r.binding /\ q.tlru = Dropped(r.tlru, {k})
    BY <2>9, <2>11 DEF SameMaps
  <2>14. q.tlru \in Seq(CacheKeys) /\ NoRepeat(q.tlru) /\ Len(q.tlru) = Len(r.tlru) - 1
    BY <1>2, <2>4, <2>5, <2>13, DroppedSeq, Tombstones
  <2>15. Typed(q)
    BY <2>11, <2>13, <2>14 DEF RepoInv, Typed
  <2>16. Linked(q) /\ NotYetResident(q)
    BY <2>13 DEF RepoInv, Linked, NotYetResident
  <2>17. Described(q.stats)
    BY <2>4, <2>11, <2>12, TombstoneDescribed
  <2>18. Tallied(q)
    BY <2>4, <2>11, <2>12, <2>13, <2>14 DEF RepoInv, Tallied
  <2>19. Shrunk(r, q)
    <3>1. r.stats.resident \in Nat /\ r.stats.build \in Nat
      BY <2>4 DEF Stats
    <3> QED
      BY <2>11, <2>13, <3>1 DEF Shrunk, Part
  <2> QED
    BY <2>11, <2>13, <2>15, <2>16, <2>17, <2>18, <2>19 DEF RepoInv
<1> QED
  BY <1>1, <1>2

LEMMA DropCursors ==
  ASSUME NEW r, RepoInv(r), NEW S \in SUBSET DOMAIN r.cursor, NEW q, q = drop_cursors(r, S)
  PROVE  /\ RepoInv(q) /\ Shrunk(r, q)
         /\ q.canon = r.canon /\ q.index = r.index /\ q.gens = r.gens
         /\ DOMAIN q.cursor = DOMAIN r.cursor \ S
<1> DEFINE n == Cardinality(S)
<1>1. PICK r1 : r1 = remove_bytes(r, "metadata", CursorBytes * n)
  OBVIOUS
<1>2. PICK r2 : r2 = [r1 EXCEPT !.cursor = Without(@, S), !.clru = Dropped(@, S)]
  OBVIOUS
<1>3. q = uncounted(r2, "cursors", n)
  BY <1>1, <1>2 DEF drop_cursors
<1>4. /\ Record(r) /\ r.stats \in Stats /\ Charged(r.stats) /\ Described(r.stats)
      /\ MapOf(r.cursor, Name, Cursors) /\ r.clru \in Seq(Name)
      /\ Cardinality(DOMAIN r.cursor) = r.stats.cursors /\ IsFiniteSet(DOMAIN r.cursor)
  BY DEF RepoInv, Typed, Tallied, MapOf
<1>5. n \in Nat /\ n <= r.stats.cursors /\ Cardinality(DOMAIN r.cursor \ S) = r.stats.cursors - n
  <2>1. S \cap DOMAIN r.cursor = S /\ DOMAIN r.cursor \cap S = S /\ IsFiniteSet(S)
    BY <1>4, FS_Subset
  <2>2. Cardinality(DOMAIN r.cursor \ S)
          = Cardinality(DOMAIN r.cursor) - Cardinality(DOMAIN r.cursor \cap S)
    BY <1>4, FS_Difference
  <2>3. Cardinality(S) \in Nat /\ Cardinality(S) <= Cardinality(DOMAIN r.cursor)
    BY <1>4, <2>1, FS_Subset, FS_CardinalityType
  <2> QED
    BY <1>4, <2>1, <2>2, <2>3
<1> HIDE DEF n
<1>6. CursorBytes * n \in Nat
  BY <1>5, BudgetAssumption
<1>7. CursorBytes * n <= r.stats.metadata
  BY <1>4, <1>5, MetadataHolds
<1>8. SameMaps(r, r1) /\ r1.stats \in Stats
  BY <1>1, <1>4, <1>6, <1>7, RemoveBytes DEF ByteNames
<1>9. /\ Record(r2) /\ r2.stats = r1.stats /\ r2.tlru = r.tlru
      /\ r2.gens = r.gens /\ r2.canon = r.canon /\ r2.lru = r.lru /\ r2.index = r.index
      /\ r2.ilru = r.ilru /\ r2.cursor = Without(r.cursor, S) /\ r2.clru = Dropped(r.clru, S)
      /\ r2.binding = r.binding
  BY <1>2, <1>8 DEF SameMaps, Record
<1>10. n <= r.stats.cursors /\ "cursors" \in CounterNames
  BY <1>5 DEF CounterNames
<1>11. /\ SameMaps(r2, q) /\ q.stats \in Stats /\ Charged(q.stats)
       /\ q.stats.metadata = r.stats.metadata - CursorBytes * n
       /\ q.stats.cursors = r.stats.cursors - n
       /\ q.stats.resident = r.stats.resident /\ q.stats.build = r.stats.build
       /\ \A f \in CounterNames : f # "cursors" => q.stats[f] = r.stats[f]
  BY <1>1, <1>3, <1>5, <1>6, <1>7, <1>9, <1>10, LessMetadata
<1>12. /\ q.stats.canonicals = r.stats.canonicals /\ q.stats.indexes = r.stats.indexes
       /\ q.stats.generations = r.stats.generations /\ q.stats.tombstones = r.stats.tombstones
       /\ q.stats.bindings = r.stats.bindings
  BY <1>11 DEF CounterNames
<1>13. /\ Record(q) /\ q.canon = r.canon /\ q.lru = r.lru /\ q.index = r.index
       /\ q.ilru = r.ilru /\ q.gens = r.gens /\ q.tlru = r.tlru
       /\ q.binding = r.binding /\ q.cursor = Without(r.cursor, S)
       /\ q.clru = Dropped(r.clru, S)
  BY <1>9, <1>11 DEF SameMaps
<1>14. /\ MapOf(q.cursor, Name, Cursors) /\ DOMAIN q.cursor = DOMAIN r.cursor \ S
       /\ \A x \in DOMAIN q.cursor : q.cursor[x] = r.cursor[x]
       /\ q.clru \in Seq(Name)
  <2>1. /\ MapOf(q.cursor, Name, Cursors) /\ DOMAIN q.cursor = DOMAIN r.cursor \ S
        /\ \A x \in DOMAIN r.cursor \ S : q.cursor[x] = r.cursor[x]
    <3>1. q.cursor = Without(r.cursor, S) /\ MapOf(r.cursor, Name, Cursors)
      BY <1>4, <1>13
    <3>2. MapOf(Without(r.cursor, S), Name, Cursors)
      BY <3>1, WithoutMap
    <3>3. DOMAIN Without(r.cursor, S) = DOMAIN r.cursor \ S
      BY DEF Without
    <3>4. \A x \in DOMAIN r.cursor \ S : Without(r.cursor, S)[x] = r.cursor[x]
      BY DEF Without
    <3> QED
      BY <3>1, <3>2, <3>3, <3>4
  <2>2. q.clru \in Seq(Name)
    BY <1>4, <1>13, DroppedSeq
  <2> QED
    BY <2>1, <2>2
<1>15. Typed(q)
  BY <1>11, <1>13, <1>14 DEF RepoInv, Typed
<1>16. Linked(q) /\ NotYetResident(q)
  BY <1>13, <1>14 DEF RepoInv, Linked, NotYetResident
<1>17. Described(q.stats)
  BY <1>4, <1>5, <1>11, <1>12, CursorsDescribed
<1>18. Tallied(q)
  BY <1>5, <1>11, <1>12, <1>13, <1>14 DEF RepoInv, Tallied
<1>19. Shrunk(r, q)
  <2>1. r.stats.resident \in Nat /\ r.stats.build \in Nat
    BY <1>4 DEF Stats
  <2> QED
    BY <1>11, <1>13, <1>14, <2>1 DEF Shrunk, Part
<1> QED
  BY <1>11, <1>13, <1>14, <1>15, <1>16, <1>17, <1>18, <1>19 DEF RepoInv

\* The bytes of objects go, then the map changes, then the counter.
LEMMA LessObjects ==
  ASSUME NEW r, RepoInv(r), NEW a \in Nat, a <= r.stats.resident, NEW b \in Nat,
         b <= r.stats.build, NEW field \in {"canonicals", "indexes"}, NEW n \in Nat,
         n <= r.stats[field],
         NEW r1, r1 = remove_bytes(r, "resident", a),
         NEW r2, r2 = remove_bytes(r1, "build", b),
         NEW r3, Record(r3), r3.stats = r2.stats,
         NEW q, q = uncounted(r3, field, n)
  PROVE  /\ SameMaps(r, r2) /\ SameMaps(r3, q)
         /\ q.stats \in Stats /\ Charged(q.stats) /\ Described(q.stats)
         /\ q.stats.resident = r.stats.resident - a /\ q.stats.build = r.stats.build - b
         /\ q.stats[field] = r.stats[field] - n
         /\ \A f \in CounterNames : f # field => q.stats[f] = r.stats[f]
         /\ q.stats.resident <= r.stats.resident /\ q.stats.build <= r.stats.build
<1>1. Record(r) /\ r.stats \in Stats /\ Charged(r.stats) /\ Described(r.stats)
  BY DEF RepoInv, Typed
<1>2. /\ SameMaps(r, r1) /\ r1.stats \in Stats /\ Charged(r1.stats)
      /\ r1.stats.resident = r.stats.resident - a /\ AgreeBut(r.stats, r1.stats, "resident")
  BY <1>1, RemoveBytes DEF ByteNames
<1>3. Record(r1) /\ r1.stats.build = r.stats.build
  BY <1>2 DEF AgreeBut, ByteNames, SameMaps
<1>4. /\ SameMaps(r1, r2) /\ r2.stats \in Stats /\ Charged(r2.stats)
      /\ r2.stats.build = r1.stats.build - b /\ AgreeBut(r1.stats, r2.stats, "build")
  BY <1>2, <1>3, RemoveBytes DEF ByteNames
<1>5. \A f \in CounterNames : r2.stats[f] = r.stats[f]
  BY <1>2, <1>4 DEF AgreeBut, CounterNames
<1>6. field \in CounterNames /\ n <= r3.stats[field]
  BY <1>5 DEF CounterNames
<1>7. /\ SameMaps(r3, q) /\ q.stats \in Stats /\ Charged(q.stats)
      /\ q.stats[field] = r3.stats[field] - n /\ AgreeBut(r3.stats, q.stats, field)
  BY <1>4, <1>6, Uncounting
<1>8. q.stats.resident = r2.stats.resident /\ q.stats.build = r2.stats.build
      /\ q.stats.metadata = r2.stats.metadata
  BY <1>7 DEF AgreeBut, ByteNames, CounterNames
<1>9. r2.stats.resident = r1.stats.resident /\ r2.stats.metadata = r1.stats.metadata
      /\ r1.stats.metadata = r.stats.metadata
  BY <1>2, <1>4 DEF AgreeBut, ByteNames
<1>10. \A f \in CounterNames : f # field => q.stats[f] = r.stats[f]
  BY <1>5, <1>7 DEF AgreeBut
<1>11. Described(q.stats)
  <2>1. /\ q.stats.generations = r.stats.generations /\ q.stats.cursors = r.stats.cursors
        /\ q.stats.tombstones = r.stats.tombstones /\ q.stats.bindings = r.stats.bindings
    BY <1>10 DEF CounterNames
  <2> QED
    BY <1>1, <1>8, <1>9, <2>1 DEF Described
<1>12. SameMaps(r, r2)
  BY <1>2, <1>4 DEF SameMaps
<1>13. q.stats.resident = r.stats.resident - a /\ q.stats.build = r.stats.build - b
  BY <1>2, <1>3, <1>4, <1>8, <1>9
<1>14. q.stats.resident <= r.stats.resident /\ q.stats.build <= r.stats.build
  BY <1>1, <1>13 DEF Stats
<1>15. q.stats[field] = r.stats[field] - n
  BY <1>5, <1>6, <1>7
<1> QED
  BY <1>7, <1>10, <1>11, <1>12, <1>13, <1>14, <1>15

\* What the invariant says of the objects.
LEMMA ObjectFacts ==
  ASSUME NEW r, RepoInv(r)
  PROVE  /\ MapOf(r.canon, CacheKeys, Entries) /\ MapOf(r.index, IndexKeys, IndexEntries)
         /\ r.lru \in Seq(CacheKeys) /\ r.ilru \in Seq(IndexKeys)
         /\ IsFiniteSet(DOMAIN r.canon) /\ IsFiniteSet(DOMAIN r.index)
         /\ Measured(r.canon, "res") /\ Measured(r.canon, "bld")
         /\ Measured(r.index, "res") /\ Measured(r.index, "bld")
         /\ r.stats.resident = Total(r.canon, "res") + Total(r.index, "res")
         /\ r.stats.build = Total(r.canon, "bld") + Total(r.index, "bld")
         /\ r.stats.canonicals = Ready(r.canon) /\ r.stats.indexes = Ready(r.index)
         /\ Total(r.canon, "res") \in Nat /\ Total(r.index, "res") \in Nat
         /\ Total(r.canon, "bld") \in Nat /\ Total(r.index, "bld") \in Nat
<1>1. MapOf(r.canon, CacheKeys, Entries) /\ MapOf(r.index, IndexKeys, IndexEntries)
      /\ r.lru \in Seq(CacheKeys) /\ r.ilru \in Seq(IndexKeys)
  BY DEF RepoInv, Typed
<1>2. /\ Measured(r.canon, "res") /\ Measured(r.canon, "bld")
      /\ Measured(r.index, "res") /\ Measured(r.index, "bld")
      /\ IsFiniteSet(DOMAIN r.canon) /\ IsFiniteSet(DOMAIN r.index)
  BY <1>1, EntriesMeasured
<1>3. /\ Total(r.canon, "res") \in Nat /\ Total(r.index, "res") \in Nat
      /\ Total(r.canon, "bld") \in Nat /\ Total(r.index, "bld") \in Nat
  BY <1>2, BytesNat DEF Total, Measured
<1>4. /\ r.stats.resident = Total(r.canon, "res") + Total(r.index, "res")
      /\ r.stats.build = Total(r.canon, "bld") + Total(r.index, "bld")
      /\ r.stats.canonicals = Ready(r.canon) /\ r.stats.indexes = Ready(r.index)
  BY DEF RepoInv, Tallied
<1> QED
  BY <1>1, <1>2, <1>3, <1>4

LEMMA EraseIndexes ==
  ASSUME NEW r, RepoInv(r), NEW S \in SUBSET DOMAIN r.index, NEW q, q = erase_indexes(r, S)
  PROVE  /\ RepoInv(q) /\ Shrunk(r, q)
         /\ q.canon = r.canon /\ q.gens = r.gens /\ q.cursor = r.cursor
         /\ DOMAIN q.index = DOMAIN r.index \ S
<1> DEFINE a == BytesOf(r.index, S, "res")  b == BytesOf(r.index, S, "bld")
           n == ReadyCount(r.index, S)
<1>1. PICK r1 : r1 = remove_bytes(r, "resident", a)
  OBVIOUS
<1>2. PICK r2 : r2 = remove_bytes(r1, "build", b)
  OBVIOUS
<1>3. PICK r3 : r3 = [r2 EXCEPT !.index = Without(@, S), !.ilru = Dropped(@, S)]
  OBVIOUS
<1>4. q = uncounted(r3, "indexes", n)
  BY <1>1, <1>2, <1>3 DEF erase_indexes
<1>5. Record(r) /\ r.stats \in Stats /\ Charged(r.stats)
  BY DEF RepoInv, Typed
<1>6. PICK f : f = Without(r.index, S)
  OBVIOUS
<1>7. /\ Total(f, "res") = Total(r.index, "res") - a /\ a \in Nat /\ a <= Total(r.index, "res")
      /\ Total(f, "bld") = Total(r.index, "bld") - b /\ b \in Nat /\ b <= Total(r.index, "bld")
  BY <1>6, ObjectFacts, TotalWithout
<1>8. Ready(f) = Ready(r.index) - n /\ n \in Nat /\ n <= Ready(r.index)
  BY <1>6, ObjectFacts, ReadyWithout
<1> HIDE DEF a, b, n
<1>9. a <= r.stats.resident /\ b <= r.stats.build /\ n <= r.stats.indexes
  BY <1>7, <1>8, ObjectFacts
<1>10. SameMaps(r, r1) /\ r1.stats \in Stats /\ Charged(r1.stats)
       /\ AgreeBut(r.stats, r1.stats, "resident")
  BY <1>1, <1>5, <1>7, <1>9, RemoveBytes DEF ByteNames
<1>11. Record(r1) /\ b <= r1.stats.build
  BY <1>9, <1>10 DEF AgreeBut, ByteNames, SameMaps
<1>12. SameMaps(r1, r2)
  BY <1>2, <1>7, <1>10, <1>11, RemoveBytes DEF ByteNames
<1>13. /\ Record(r3) /\ r3.stats = r2.stats /\ r3.canon = r.canon /\ r3.lru = r.lru
       /\ r3.gens = r.gens /\ r3.tlru = r.tlru /\ r3.cursor = r.cursor /\ r3.clru = r.clru
       /\ r3.binding = r.binding /\ r3.index = Without(r.index, S)
       /\ r3.ilru = Dropped(r.ilru, S)
  BY <1>3, <1>10, <1>12 DEF SameMaps, Record
<1>14. /\ SameMaps(r3, q) /\ q.stats \in Stats /\ Charged(q.stats) /\ Described(q.stats)
       /\ q.stats.resident = r.stats.resident - a /\ q.stats.build = r.stats.build - b
       /\ q.stats.indexes = r.stats.indexes - n
       /\ \A x \in CounterNames : x # "indexes" => q.stats[x] = r.stats[x]
       /\ q.stats.resident <= r.stats.resident /\ q.stats.build <= r.stats.build
  BY <1>1, <1>2, <1>4, <1>7, <1>8, <1>9, <1>13, LessObjects
<1>15. /\ q.stats.canonicals = r.stats.canonicals /\ q.stats.cursors = r.stats.cursors
       /\ q.stats.generations = r.stats.generations /\ q.stats.tombstones = r.stats.tombstones
       /\ q.stats.bindings = r.stats.bindings
  BY <1>14 DEF CounterNames
<1>16. /\ Record(q) /\ q.canon = r.canon /\ q.lru = r.lru /\ q.gens = r.gens
       /\ q.tlru = r.tlru /\ q.cursor = r.cursor /\ q.clru = r.clru
       /\ q.binding = r.binding /\ q.index = f /\ q.ilru = Dropped(r.ilru, S)
  BY <1>6, <1>13, <1>14 DEF SameMaps
<1>17. /\ MapOf(f, IndexKeys, IndexEntries) /\ DOMAIN f = DOMAIN r.index \ S
       /\ \A x \in DOMAIN f : f[x] = r.index[x]
  <2>1. MapOf(Without(r.index, S), IndexKeys, IndexEntries)
    BY ObjectFacts, WithoutMap
  <2> QED
    BY <1>6, <2>1 DEF Without
<1>18. q.ilru \in Seq(IndexKeys)
  BY <1>16, ObjectFacts, DroppedSeq
<1>19. Typed(q)
  BY <1>14, <1>16, <1>17, <1>18 DEF RepoInv, Typed
<1>20. Linked(q) /\ NotYetResident(q)
  BY <1>16, <1>17 DEF RepoInv, Linked, NotYetResident
<1>21. Tallied(q)
  <2>1. Tallied(r)
    BY DEF RepoInv
  <2>2. /\ q.stats.resident = Total(q.canon, "res") + Total(q.index, "res")
        /\ q.stats.build = Total(q.canon, "bld") + Total(q.index, "bld")
        /\ q.stats.indexes = Ready(q.index) /\ q.stats.canonicals = Ready(q.canon)
    BY <1>7, <1>8, <1>14, <1>15, <1>16, ObjectFacts
  <2> QED
    BY <1>15, <1>16, <2>1, <2>2 DEF Tallied
<1>22. Shrunk(r, q)
  BY <1>14, <1>16, <1>17 DEF Shrunk, Part
<1> QED
  BY <1>14, <1>16, <1>17, <1>19, <1>20, <1>21, <1>22 DEF RepoInv

\* The object of a key without indexes goes; its generation is settled later.
LEMMA EraseObject ==
  ASSUME NEW r, RepoInv(r), NEW k \in DOMAIN r.canon, \A i \in DOMAIN r.index : i[1] # k,
         NEW q, q = erase_object(r, k, r.canon[k])
  PROVE  /\ RepoInv(q) /\ Shrunk(r, q)
         /\ q.index = r.index /\ q.gens = r.gens /\ q.cursor = r.cursor
         /\ DOMAIN q.canon = DOMAIN r.canon \ {k}
<1> DEFINE a == r.canon[k].res  b == r.canon[k].bld
           n == IF r.canon[k].st = "ready" THEN 1 ELSE 0
           S == {k}
<1>1. PICK r1 : r1 = remove_bytes(r, "resident", a)
  OBVIOUS
<1>2. PICK r2 : r2 = remove_bytes(r1, "build", b)
  OBVIOUS
<1>3. PICK r3 : r3 = [r2 EXCEPT !.canon = Without(@, S), !.lru = Dropped(@, S)]
  OBVIOUS
<1>4. q = uncounted(r3, "canonicals", n)
  BY <1>1, <1>2, <1>3 DEF erase_object, erase_entry
<1>5. Record(r) /\ r.stats \in Stats /\ Charged(r.stats)
  BY DEF RepoInv, Typed
<1>6. PICK f : f = Without(r.canon, S)
  OBVIOUS
<1>7. S \in SUBSET DOMAIN r.canon /\ S # {} /\ S \ {k} = {}
  OBVIOUS
<1>8. BytesOf(r.canon, S, "res") = a /\ BytesOf(r.canon, S, "bld") = b /\ a \in Nat /\ b \in Nat
  <2>1. Countable(r.canon, S, "res") /\ Countable(r.canon, S, "bld")
    BY <1>7, ObjectFacts, CountableSubset DEF Measured
  <2>2. a \in Nat /\ b \in Nat
    BY ObjectFacts DEF Measured, Countable
  <2>3. k \in S
    OBVIOUS
  <2> HIDE DEF S, a, b
  <2>4. BytesOf(r.canon, S, "res") = r.canon[k]["res"] + BytesOf(r.canon, S \ {k}, "res")
    BY <2>1, <2>3, BytesOne
  <2>5. BytesOf(r.canon, S, "bld") = r.canon[k]["bld"] + BytesOf(r.canon, S \ {k}, "bld")
    BY <2>1, <2>3, BytesOne
  <2> QED
    BY <1>7, <2>2, <2>4, <2>5, BytesNone DEF a, b
<1>9. ReadyCount(r.canon, S) = n /\ n \in Nat
  <2>1. CASE r.canon[k].st = "ready"
    <3>1. {x \in S : r.canon[x].st = "ready"} = {k}
      BY <2>1
    <3> QED
      BY <2>1, <3>1, FS_Singleton DEF ReadyCount
  <2>2. CASE r.canon[k].st # "ready"
    <3>1. {x \in S : r.canon[x].st = "ready"} = {}
      BY <2>2
    <3> QED
      BY <2>2, <3>1, FS_EmptySet DEF ReadyCount
  <2> QED
    BY <2>1, <2>2
<1> HIDE DEF a, b, n, S
<1>10. /\ Total(f, "res") = Total(r.canon, "res") - a /\ a <= Total(r.canon, "res")
       /\ Total(f, "bld") = Total(r.canon, "bld") - b /\ b <= Total(r.canon, "bld")
  BY <1>6, <1>7, <1>8, ObjectFacts, TotalWithout
<1>11. Ready(f) = Ready(r.canon) - n /\ n <= Ready(r.canon)
  BY <1>6, <1>7, <1>9, ObjectFacts, ReadyWithout
<1>12. a <= r.stats.resident /\ b <= r.stats.build /\ n <= r.stats.canonicals
  BY <1>8, <1>10, <1>11, ObjectFacts
<1>13. SameMaps(r, r1) /\ r1.stats \in Stats /\ Charged(r1.stats)
       /\ AgreeBut(r.stats, r1.stats, "resident")
  BY <1>1, <1>5, <1>8, <1>12, RemoveBytes DEF ByteNames
<1>14. Record(r1) /\ b <= r1.stats.build
  BY <1>12, <1>13 DEF AgreeBut, ByteNames, SameMaps
<1>15. SameMaps(r1, r2)
  BY <1>2, <1>8, <1>13, <1>14, RemoveBytes DEF ByteNames
<1>16. /\ Record(r3) /\ r3.stats = r2.stats /\ r3.index = r.index /\ r3.ilru = r.ilru
       /\ r3.gens = r.gens /\ r3.tlru = r.tlru /\ r3.cursor = r.cursor /\ r3.clru = r.clru
       /\ r3.binding = r.binding /\ r3.canon = Without(r.canon, S)
       /\ r3.lru = Dropped(r.lru, S)
  BY <1>3, <1>13, <1>15 DEF SameMaps, Record
<1>17. /\ SameMaps(r3, q) /\ q.stats \in Stats /\ Charged(q.stats) /\ Described(q.stats)
       /\ q.stats.resident = r.stats.resident - a /\ q.stats.build = r.stats.build - b
       /\ q.stats.canonicals = r.stats.canonicals - n
       /\ \A x \in CounterNames : x # "canonicals" => q.stats[x] = r.stats[x]
       /\ q.stats.resident <= r.stats.resident /\ q.stats.build <= r.stats.build
  BY <1>1, <1>2, <1>4, <1>8, <1>9, <1>12, <1>16, LessObjects
<1>18. /\ q.stats.indexes = r.stats.indexes /\ q.stats.cursors = r.stats.cursors
       /\ q.stats.generations = r.stats.generations /\ q.stats.tombstones = r.stats.tombstones
       /\ q.stats.bindings = r.stats.bindings
  BY <1>17 DEF CounterNames
<1>19. /\ Record(q) /\ q.index = r.index /\ q.ilru = r.ilru /\ q.gens = r.gens
       /\ q.tlru = r.tlru /\ q.cursor = r.cursor /\ q.clru = r.clru
       /\ q.binding = r.binding /\ q.canon = f /\ q.lru = Dropped(r.lru, S)
  BY <1>6, <1>16, <1>17 DEF SameMaps
<1>20. /\ MapOf(f, CacheKeys, Entries) /\ DOMAIN f = DOMAIN r.canon \ {k}
       /\ \A x \in DOMAIN f : f[x] = r.canon[x]
  <2>1. MapOf(Without(r.canon, S), CacheKeys, Entries)
    BY ObjectFacts, WithoutMap
  <2> QED
    BY <1>6, <2>1 DEF Without, S
<1>21. q.lru \in Seq(CacheKeys)
  BY <1>19, ObjectFacts, DroppedSeq
<1>22. Typed(q)
  BY <1>17, <1>19, <1>20, <1>21 DEF RepoInv, Typed
<1>23. Linked(q) /\ NotYetResident(q)
  BY <1>19, <1>20 DEF RepoInv, Linked, NotYetResident
<1>24. Tallied(q)
  <2>1. Tallied(r)
    BY DEF RepoInv
  <2>2. /\ q.stats.resident = Total(q.canon, "res") + Total(q.index, "res")
        /\ q.stats.build = Total(q.canon, "bld") + Total(q.index, "bld")
        /\ q.stats.indexes = Ready(q.index) /\ q.stats.canonicals = Ready(q.canon)
    BY <1>8, <1>10, <1>11, <1>17, <1>18, <1>19, ObjectFacts
  <2> QED
    BY <1>18, <1>19, <2>1, <2>2 DEF Tallied
<1>25. Shrunk(r, q)
  BY <1>17, <1>19, <1>20 DEF Shrunk, Part
<1> QED
  BY <1>17, <1>19, <1>20, <1>22, <1>23, <1>24, <1>25 DEF RepoInv

LEMMA EraseCursor ==
  ASSUME NEW r, RepoInv(r), NEW c, NEW q, q = erase_cursor(r, c)
  PROVE  /\ RepoInv(q) /\ Shrunk(r, q) /\ q.canon = r.canon /\ q.index = r.index
         /\ DOMAIN q.cursor = DOMAIN r.cursor \ {c}
<1>1. CASE c \notin DOMAIN r.cursor
  <2>1. q = r /\ DOMAIN r.cursor \ {c} = DOMAIN r.cursor
    BY <1>1 DEF erase_cursor
  <2> QED
    BY <2>1, ShrunkSelf
<1>2. CASE c \in DOMAIN r.cursor
  <2>1. PICK s : s = drop_cursors(r, {c})
    OBVIOUS
  <2>2. q = erase_generation_if_unreferenced(s, r.cursor[c].key)
    BY <1>2, <2>1 DEF erase_cursor
  <2>3. {c} \in SUBSET DOMAIN r.cursor
    BY <1>2
  <2>4. /\ RepoInv(s) /\ Shrunk(r, s) /\ s.canon = r.canon /\ s.index = r.index
        /\ DOMAIN s.cursor = DOMAIN r.cursor \ {c}
    BY <2>1, <2>3, DropCursors
  <2>5. /\ RepoInv(q) /\ Shrunk(s, q)
        /\ q.canon = s.canon /\ q.index = s.index /\ q.cursor = s.cursor
    BY <2>2, <2>4, EraseGeneration
  <2>6. Shrunk(r, q)
    BY <2>4, <2>5, ShrunkTwice
  <2> QED
    BY <2>4, <2>5, <2>6
<1> QED
  BY <1>1, <1>2

LEMMA EraseCanonical ==
  ASSUME NEW r, RepoInv(r), NEW k, NEW b \in BOOLEAN,
         NEW q, q = erase_canonical_internal(r, k, b)
  PROVE  /\ RepoInv(q) /\ Shrunk(r, q)
         /\ DOMAIN q.canon = DOMAIN r.canon \ {k}
         /\ DOMAIN q.index = {i \in DOMAIN r.index : i[1] # k}
<1>1. CASE k \notin DOMAIN r.canon
  <2>1. q = r /\ DOMAIN r.canon \ {k} = DOMAIN r.canon
    BY <1>1 DEF erase_canonical_internal
  <2>2. \A i \in DOMAIN r.index : i[1] # k
    BY <1>1 DEF RepoInv, Linked
  <2> QED
    BY <2>1, <2>2, ShrunkSelf
<1>2. CASE k \in DOMAIN r.canon
  <2> DEFINE I == {i \in DOMAIN r.index : i[1] = k}
             C == {c \in DOMAIN r.cursor : b /\ r.cursor[c].key = k}
  <2>1. PICK s1 : s1 = erase_indexes(r, I)
    OBVIOUS
  <2>2. PICK s2 : s2 = drop_cursors(s1, C)
    OBVIOUS
  <2>3. PICK s3 : s3 = erase_object(s2, k, r.canon[k])
    OBVIOUS
  <2>4. q = erase_generation_if_unreferenced(s3, k)
    BY <1>2, <2>1, <2>2, <2>3 DEF erase_canonical_internal
  <2>5. /\ RepoInv(s1) /\ Shrunk(r, s1) /\ s1.canon = r.canon /\ s1.cursor = r.cursor
        /\ DOMAIN s1.index = DOMAIN r.index \ I
    <3>1. I \in SUBSET DOMAIN r.index
      OBVIOUS
    <3> QED
      BY <2>1, <3>1, EraseIndexes
  <2>6. /\ RepoInv(s2) /\ Shrunk(s1, s2) /\ s2.canon = r.canon /\ s2.index = s1.index
    <3>1. C \in SUBSET DOMAIN s1.cursor
      BY <2>5
    <3> HIDE DEF C
    <3> QED
      BY <2>2, <2>5, <3>1, DropCursors
  <2>7. /\ RepoInv(s3) /\ Shrunk(s2, s3) /\ s3.index = s2.index
        /\ DOMAIN s3.canon = DOMAIN s2.canon \ {k}
    <3>1. k \in DOMAIN s2.canon /\ r.canon[k] = s2.canon[k]
      BY <1>2, <2>6
    <3>2. \A i \in DOMAIN s2.index : i[1] # k
      BY <2>5, <2>6
    <3>3. s3 = erase_object(s2, k, s2.canon[k])
      BY <2>3, <3>1
    <3> QED
      BY <2>6, <3>1, <3>2, <3>3, EraseObject
  <2>8. RepoInv(q) /\ Shrunk(s3, q) /\ q.canon = s3.canon /\ q.index = s3.index
    BY <2>4, <2>7, EraseGeneration
  <2>9. Shrunk(r, s2)
    BY <2>5, <2>6, ShrunkTwice
  <2>10. Shrunk(r, s3)
    BY <2>6, <2>7, <2>9, ShrunkTwice
  <2>11. Shrunk(r, q)
    BY <2>7, <2>8, <2>10, ShrunkTwice
  <2> QED
    BY <2>5, <2>6, <2>7, <2>8, <2>11
<1> QED
  BY <1>1, <1>2

\* The metadata bytes of one more tombstone or generation, in the order of the code.
LEMMA MoreMetadata ==
  ASSUME NEW r, Record(r), r.stats \in Stats, Charged(r.stats),
         NEW field \in {"generations", "tombstones"},
         NEW r1, r1 = add_bytes(r, "metadata", KeyBytes),
         NEW r2, Record(r2), r2.stats = r1.stats,
         NEW q, q = counted(r2, field, 1)
  PROVE  /\ SameMaps(r, r1) /\ SameMaps(r2, q)
         /\ q.stats \in Stats /\ Charged(q.stats)
         /\ q.stats.metadata = r.stats.metadata + KeyBytes
         /\ q.stats[field] = r.stats[field] + 1
         /\ q.stats.resident = r.stats.resident /\ q.stats.build = r.stats.build
         /\ \A f \in CounterNames : f # field => q.stats[f] = r.stats[f]
         /\ Described(r.stats) => Described(q.stats)
<1>1. KeyBytes \in Nat /\ field \in CounterNames
  BY BudgetAssumption DEF CounterNames
<1>2. /\ SameMaps(r, r1) /\ r1.stats \in Stats /\ Charged(r1.stats)
      /\ r1.stats.metadata = r.stats.metadata + KeyBytes /\ AgreeBut(r.stats, r1.stats, "metadata")
  BY <1>1, AddBytes DEF ByteNames
<1>3. \A f \in CounterNames : r1.stats[f] = r.stats[f]
  BY <1>2 DEF AgreeBut, CounterNames
<1>4. 1 \in Nat
  OBVIOUS
<1>5. /\ SameMaps(r2, q) /\ q.stats \in Stats /\ Charged(q.stats)
      /\ q.stats[field] = r2.stats[field] + 1 /\ AgreeBut(r2.stats, q.stats, field)
  BY <1>1, <1>2, <1>4, Counting
<1>6. /\ q.stats.metadata = r1.stats.metadata
      /\ q.stats.resident = r1.stats.resident /\ q.stats.build = r1.stats.build
  BY <1>5 DEF AgreeBut, ByteNames, CounterNames
<1>7. r1.stats.resident = r.stats.resident /\ r1.stats.build = r.stats.build
  BY <1>2 DEF AgreeBut, ByteNames
<1>8. \A f \in CounterNames : f # field => q.stats[f] = r.stats[f]
  BY <1>3, <1>5 DEF AgreeBut
<1>9. q.stats[field] = r.stats[field] + 1
  BY <1>1, <1>3, <1>5
<1>10. ASSUME Described(r.stats) PROVE Described(q.stats)
  <2>1. q.stats.metadata = r.stats.metadata + KeyBytes
    BY <1>2, <1>6
  <2>2. r.stats.metadata \in Nat /\ q.stats.metadata \in Nat
    BY <1>5 DEF Stats
  <2>3. r.stats.metadata = q.stats.metadata - KeyBytes
    BY <1>1, <2>1, <2>2
  <2>4. q.stats.cursors = r.stats.cursors /\ q.stats.bindings = r.stats.bindings
    BY <1>8 DEF CounterNames
  <2>5. CASE field = "generations"
    <3>1. q.stats.tombstones = r.stats.tombstones
      BY <1>8, <2>5 DEF CounterNames
    <3>2. r.stats.generations \in Nat
      BY DEF Stats
    <3>3. r.stats.generations = q.stats.generations - 1
      BY <1>9, <2>5, <3>2
    <3> QED
      BY <1>5, <1>10, <2>3, <2>4, <3>1, <3>3, GenerationDescribed
  <2>6. CASE field = "tombstones"
    <3>1. q.stats.generations = r.stats.generations
      BY <1>8, <2>6 DEF CounterNames
    <3>2. r.stats.tombstones \in Nat
      BY DEF Stats
    <3>3. r.stats.tombstones = q.stats.tombstones - 1
      BY <1>9, <2>6, <3>2
    <3> QED
      BY <1>5, <1>10, <2>3, <2>4, <3>1, <3>3, TombstoneDescribed
  <2> QED
    BY <2>5, <2>6
<1> QED
  BY <1>2, <1>5, <1>6, <1>7, <1>8, <1>9, <1>10

LEMMA Bury ==
  ASSUME NEW r, RepoInv(r), NEW k \in CacheKeys, NEW q, q = bury(r, k)
  PROVE  /\ RepoInv(q) /\ Shrunk(r, q)
         /\ q.canon = r.canon /\ q.index = r.index /\ q.cursor = r.cursor
<1>0. /\ Record(r) /\ r.stats \in Stats /\ Charged(r.stats) /\ Described(r.stats)
      /\ r.tlru \in Seq(CacheKeys) /\ NoRepeat(r.tlru) /\ Len(r.tlru) = r.stats.tombstones
  BY DEF RepoInv, Typed, Tallied
<1>1. CASE k \in Range(r.tlru)
  <2>1. /\ Record(q) /\ q.tlru = Touched(r.tlru, k) /\ q.stats = r.stats
        /\ q.canon = r.canon /\ q.lru = r.lru /\ q.index = r.index /\ q.ilru = r.ilru
        /\ q.gens = r.gens /\ q.cursor = r.cursor /\ q.clru = r.clru /\ q.binding = r.binding
    BY <1>0, <1>1 DEF bury, Record
  <2>2. q.tlru \in Seq(CacheKeys)
    BY <1>0, <2>1, TouchedSeq
  <2>3. Len(q.tlru) = Len(r.tlru) /\ NoRepeat(q.tlru)
    BY <1>0, <1>1, <2>1, Tombstones
  <2>4. Typed(q)
    BY <2>1, <2>2, <2>3 DEF RepoInv, Typed
  <2>5. Linked(q) /\ NotYetResident(q) /\ Tallied(q)
    BY <2>1, <2>3 DEF RepoInv, Linked, NotYetResident, Tallied
  <2>6. Shrunk(r, q)
    <3>1. r.stats.resident \in Nat /\ r.stats.build \in Nat
      BY <1>0 DEF Stats
    <3> QED
      BY <2>1, <3>1 DEF Shrunk, Part
  <2> QED
    BY <1>0, <2>1, <2>4, <2>5, <2>6 DEF RepoInv
<1>2. CASE k \notin Range(r.tlru)
  <2>1. PICK r1 : r1 = add_bytes(r, "metadata", KeyBytes)
    OBVIOUS
  <2>2. PICK r2 : r2 = [r1 EXCEPT !.tlru = Append(@, k)]
    OBVIOUS
  <2>3. q = counted(r2, "tombstones", 1)
    BY <1>2, <2>1, <2>2 DEF bury
  <2>4. SameMaps(r, r1)
    BY <1>0, <2>1, AddBytes, BudgetAssumption DEF ByteNames
  <2>5. /\ Record(r2) /\ r2.stats = r1.stats /\ r2.tlru = Append(r.tlru, k)
        /\ r2.canon = r.canon /\ r2.lru = r.lru /\ r2.index = r.index /\ r2.ilru = r.ilru
        /\ r2.gens = r.gens /\ r2.cursor = r.cursor /\ r2.clru = r.clru
        /\ r2.binding = r.binding
    BY <2>2, <2>4 DEF SameMaps, Record
  <2>6. /\ SameMaps(r2, q) /\ q.stats \in Stats /\ Charged(q.stats)
        /\ q.stats.tombstones = r.stats.tombstones + 1
        /\ q.stats.resident = r.stats.resident /\ q.stats.build = r.stats.build
        /\ \A f \in CounterNames : f # "tombstones" => q.stats[f] = r.stats[f]
        /\ Described(q.stats)
    BY <1>0, <2>1, <2>3, <2>5, MoreMetadata
  <2>7. /\ q.stats.canonicals = r.stats.canonicals /\ q.stats.indexes = r.stats.indexes
        /\ q.stats.generations = r.stats.generations /\ q.stats.cursors = r.stats.cursors
        /\ q.stats.bindings = r.stats.bindings
    BY <2>6 DEF CounterNames
  <2>8. /\ Record(q) /\ q.tlru = Append(r.tlru, k)
        /\ q.canon = r.canon /\ q.lru = r.lru /\ q.index = r.index /\ q.ilru = r.ilru
        /\ q.gens = r.gens /\ q.cursor = r.cursor /\ q.clru = r.clru /\ q.binding = r.binding
    BY <2>5, <2>6 DEF SameMaps
  <2>9. q.tlru \in Seq(CacheKeys) /\ NoRepeat(q.tlru) /\ Len(q.tlru) = Len(r.tlru) + 1
    <3>1. NoRepeat(Append(r.tlru, k))
      BY <1>0, <1>2, Tombstones
    <3> QED
      BY <1>0, <2>8, <3>1
  <2>10. Typed(q)
    BY <2>6, <2>8, <2>9 DEF RepoInv, Typed
  <2>11. Linked(q) /\ NotYetResident(q)
    BY <2>8 DEF RepoInv, Linked, NotYetResident
  <2>12. Tallied(q)
    BY <1>0, <2>6, <2>7, <2>8, <2>9 DEF RepoInv, Tallied
  <2>13. Shrunk(r, q)
    <3>1. r.stats.resident \in Nat /\ r.stats.build \in Nat
      BY <1>0 DEF Stats
    <3> QED
      BY <2>6, <2>8, <3>1 DEF Shrunk, Part
  <2> QED
    BY <2>6, <2>8, <2>10, <2>11, <2>12, <2>13 DEF RepoInv
<1> QED
  BY <1>1, <1>2

\* The binding of n goes.
drop_binding(r, n) ==
  uncounted([remove_bytes(r, "metadata", BindingBytes) EXCEPT !.binding = Without(@, {n})],
            "bindings", 1)

LEMMA DropBinding ==
  ASSUME NEW r, RepoInv(r), NEW n \in DOMAIN r.binding, NEW q, q = drop_binding(r, n)
  PROVE  /\ RepoInv(q) /\ Shrunk(r, q)
         /\ q.canon = r.canon /\ q.index = r.index /\ q.cursor = r.cursor
<1>a. PICK r1 : r1 = remove_bytes(r, "metadata", BindingBytes)
  OBVIOUS
<1>b. PICK r2 : r2 = [r1 EXCEPT !.binding = Without(@, {n})]
  OBVIOUS
<1>c. q = uncounted(r2, "bindings", 1)
  BY <1>a, <1>b DEF drop_binding
<1>1. /\ Record(r) /\ r.stats \in Stats /\ Charged(r.stats) /\ Described(r.stats)
      /\ MapOf(r.binding, {"st"}, Digest) /\ IsFiniteSet(DOMAIN r.binding)
      /\ Cardinality(DOMAIN r.binding) = r.stats.bindings
  BY DEF RepoInv, Typed, Tallied, MapOf
<1>2. Cardinality(DOMAIN r.binding \ {n}) = r.stats.bindings - 1
  BY <1>1, FS_RemoveElement
<1>3. r.stats.bindings \in Nat /\ r.stats.bindings # 0
  BY <1>1, FS_EmptySet DEF Stats
<1>4. r.stats.bindings >= 1
  BY <1>3
<1>5. BindingBytes <= r.stats.metadata /\ BindingBytes \in Nat
  BY <1>1, <1>4, MetadataHolds, BudgetAssumption
<1>6. SameMaps(r, r1)
  BY <1>a, <1>1, <1>5, RemoveBytes DEF ByteNames
<1>7. /\ Record(r2) /\ r2.stats = r1.stats /\ r2.tlru = r.tlru
      /\ r2.gens = r.gens /\ r2.canon = r.canon /\ r2.lru = r.lru /\ r2.index = r.index
      /\ r2.ilru = r.ilru /\ r2.cursor = r.cursor /\ r2.clru = r.clru
      /\ r2.binding = Without(r.binding, {n})
  BY <1>b, <1>6 DEF SameMaps, Record
<1>8. 1 <= r.stats.bindings /\ "bindings" \in CounterNames
  BY <1>3 DEF CounterNames
<1>9. /\ SameMaps(r2, q) /\ q.stats \in Stats /\ Charged(q.stats)
      /\ q.stats.metadata = r.stats.metadata - BindingBytes
      /\ q.stats.bindings = r.stats.bindings - 1
      /\ q.stats.resident = r.stats.resident /\ q.stats.build = r.stats.build
      /\ \A f \in CounterNames : f # "bindings" => q.stats[f] = r.stats[f]
  BY <1>a, <1>c, <1>5, <1>7, <1>8, LessMetadata
<1>10. /\ q.stats.canonicals = r.stats.canonicals /\ q.stats.indexes = r.stats.indexes
       /\ q.stats.generations = r.stats.generations /\ q.stats.tombstones = r.stats.tombstones
       /\ q.stats.cursors = r.stats.cursors
  BY <1>9 DEF CounterNames
<1>11. /\ Record(q) /\ q.canon = r.canon /\ q.lru = r.lru /\ q.index = r.index
       /\ q.ilru = r.ilru /\ q.gens = r.gens /\ q.tlru = r.tlru /\ q.cursor = r.cursor
       /\ q.clru = r.clru /\ q.binding = Without(r.binding, {n})
  BY <1>7, <1>9 DEF SameMaps
<1>12. MapOf(q.binding, {"st"}, Digest) /\ DOMAIN q.binding = DOMAIN r.binding \ {n}
  <2>1. MapOf(Without(r.binding, {n}), {"st"}, Digest)
    BY <1>1, WithoutMap
  <2> QED
    BY <1>11, <2>1 DEF Without
<1>13. Typed(q)
  BY <1>9, <1>11, <1>12 DEF RepoInv, Typed
<1>14. Linked(q) /\ NotYetResident(q)
  BY <1>11 DEF RepoInv, Linked, NotYetResident
<1>15. Described(q.stats)
  BY <1>1, <1>9, <1>10, BindingDescribed
<1>16. Tallied(q)
  BY <1>2, <1>9, <1>10, <1>11, <1>12 DEF RepoInv, Tallied
<1>17. Shrunk(r, q)
  <2>1. r.stats.resident \in Nat /\ r.stats.build \in Nat
    BY <1>1 DEF Stats
  <2> QED
    BY <1>9, <1>11, <2>1 DEF Shrunk, Part
<1> QED
  BY <1>9, <1>11, <1>13, <1>14, <1>15, <1>16, <1>17 DEF RepoInv

LEMMA EraseMetadata ==
  ASSUME NEW r, RepoInv(r), HasMetadata(r), NEW q, q = erase_one_releasable_metadata(r)
  PROVE  RepoInv(q) /\ Shrunk(r, q) /\ q.canon = r.canon /\ q.index = r.index
<1>1. CASE r.tlru # <<>>
  <2>1. PICK s : s = erase_tombstone(r, Head(r.tlru))
    OBVIOUS
  <2>2. q = erase_generation_if_unreferenced(s, Head(r.tlru))
    BY <1>1, <2>1 DEF erase_one_releasable_metadata
  <2>3. RepoInv(s) /\ Shrunk(r, s) /\ s.canon = r.canon /\ s.index = r.index
    BY <2>1, EraseTombstone
  <2>4. RepoInv(q) /\ Shrunk(s, q) /\ q.canon = s.canon /\ q.index = s.index
    BY <2>2, <2>3, EraseGeneration
  <2> QED
    BY <2>3, <2>4, ShrunkTwice
<1>2. CASE r.tlru = <<>> /\ r.clru # <<>>
  <2>1. q = erase_cursor(r, Head(r.clru))
    BY <1>2 DEF erase_one_releasable_metadata
  <2> QED
    BY <2>1, EraseCursor
<1>3. CASE r.tlru = <<>> /\ r.clru = <<>>
  <2>1. PICK n : n = CHOOSE b \in DOMAIN r.binding : TRUE
    OBVIOUS
  <2>2. n \in DOMAIN r.binding
    BY <1>3, <2>1 DEF HasMetadata
  <2>3. q = drop_binding(r, n)
    BY <1>3, <2>1 DEF erase_one_releasable_metadata, drop_binding
  <2> QED
    BY <2>2, <2>3, DropBinding
<1> QED
  BY <1>1, <1>2, <1>3

LEMMA EvictIndex ==
  ASSUME NEW r, RepoInv(r), NEW i, NEW q, q = evict_index(r, i)
  PROVE  /\ RepoInv(q) /\ Shrunk(r, q) /\ q.canon = r.canon /\ q.gens = r.gens
         /\ q.cursor = r.cursor /\ DOMAIN q.index = DOMAIN r.index \ {i}
<1>1. CASE i \notin DOMAIN r.index
  <2>1. q = r /\ DOMAIN r.index \ {i} = DOMAIN r.index
    BY <1>1 DEF evict_index
  <2> QED
    BY <2>1, ShrunkSelf
<1>2. CASE i \in DOMAIN r.index
  <2>1. q = erase_indexes(r, {i}) /\ {i} \in SUBSET DOMAIN r.index
    BY <1>2 DEF evict_index
  <2> QED
    BY <2>1, EraseIndexes
<1> QED
  BY <1>1, <1>2

LEMMA EvictCanonical ==
  ASSUME NEW r, RepoInv(r), NEW k, NEW q, q = evict_canonical(r, k)
  PROVE  /\ RepoInv(q) /\ Shrunk(r, q) /\ DOMAIN q.canon = DOMAIN r.canon \ {k}
         /\ DOMAIN q.index = {i \in DOMAIN r.index : i[1] # k}
<1>1. CASE k \notin DOMAIN r.canon
  <2>1. q = r /\ DOMAIN r.canon \ {k} = DOMAIN r.canon
    BY <1>1 DEF evict_canonical
  <2>2. \A i \in DOMAIN r.index : i[1] # k
    BY <1>1 DEF RepoInv, Linked
  <2> QED
    BY <2>1, <2>2, ShrunkSelf
<1>2. CASE k \in DOMAIN r.canon
  <2>1. PICK s : s = erase_canonical_internal(r, k, FALSE)
    OBVIOUS
  <2>2. q = bury(s, k)
    BY <1>2, <2>1 DEF evict_canonical
  <2>3. /\ RepoInv(s) /\ Shrunk(r, s) /\ DOMAIN s.canon = DOMAIN r.canon \ {k}
        /\ DOMAIN s.index = {i \in DOMAIN r.index : i[1] # k}
    BY <2>1, EraseCanonical
  <2>4. k \in CacheKeys
    BY <1>2, ObjectFacts DEF MapOf
  <2>5. RepoInv(q) /\ Shrunk(s, q) /\ q.canon = s.canon /\ q.index = s.index
    BY <2>2, <2>3, <2>4, Bury
  <2> QED
    BY <2>3, <2>5, ShrunkTwice
<1> QED
  BY <1>1, <1>2

(***************************************************************************)
(* Loops over a sequence.  A fold takes the positions of the sequence away *)
(* from the last to the first.                                             *)
(***************************************************************************)
Top(u) == CHOOSE x \in u : \A y \in u : x >= y

\* A set of positions has a last one.
LEMMA LastPosition ==
  ASSUME NEW n \in Nat, NEW u \in SUBSET (1..n), u # {}
  PROVE  Top(u) \in u
<1>1. SUFFICES \E x \in u : \A y \in u : x >= y
  BY DEF Top
<1>2. SUFFICES ASSUME \A x \in u : \E y \in u : ~(x >= y) PROVE FALSE
  OBVIOUS
<1> DEFINE Above == {m \in Nat : \E x \in u : x >= m}
<1>3. 0 \in Above
  <2>1. PICK x \in u : TRUE
    OBVIOUS
  <2>2. x \in Nat /\ x >= 0
    BY <2>1
  <2> QED
    BY <2>2
<1>4. ASSUME NEW m \in Above PROVE m + 1 \in Above
  <2>1. PICK x \in u : x >= m
    OBVIOUS
  <2>2. PICK y \in u : ~(x >= y)
    BY <1>2
  <2>3. y >= m + 1 /\ m + 1 \in Nat
    BY <2>1, <2>2
  <2> QED
    BY <2>3
<1>5. Above = Nat
  <2>1. Above \in SUBSET Nat
    OBVIOUS
  <2> HIDE DEF Above
  <2> QED
    BY <1>3, <1>4, <2>1, NumbersFromZero
<1>6. n + 1 \in Above
  BY <1>5
<1> QED
  BY <1>6

LEMMA TopChooses ==
  ASSUME NEW T, NEW s \in Seq(T), NEW c, c = [u \in SUBSET DOMAIN s |-> Top(u)]
  PROVE  /\ Chooses(c, DOMAIN s) /\ IsFiniteSet(DOMAIN s)
         /\ \A u \in SUBSET DOMAIN s : u # {} => Top(u) \in DOMAIN s /\ c[u] = Top(u)
<1>1. Len(s) \in Nat /\ DOMAIN s = 1..Len(s)
  OBVIOUS
<1>2. \A u \in SUBSET DOMAIN s : u # {} => Top(u) \in u
  BY <1>1, LastPosition
<1>3. Chooses(c, DOMAIN s)
  BY <1>2 DEF Chooses
<1>4. IsFiniteSet(1..Len(s))
  BY <1>1, FS_Interval
<1> QED
  BY <1>1, <1>2, <1>3, <1>4

\* g is the loop over the positions D that starts with l and has the rounds F;
\* k is one as long as its values are in X.
Rounds(g, D, l, F) ==
  \A u \in SUBSET D : g[u] = IF u = {} THEN l ELSE F[<<Top(u), g[u \ {Top(u)}]>>]
Follows(k, D, X, l, F) ==
  /\ k[{}] = l
  /\ \A u \in SUBSET D : u # {} /\ k[u \ {Top(u)}] \in X
                           => k[u] = F[<<Top(u), k[u \ {Top(u)}]>>]

LEMMA RoundsExist ==
  ASSUME NEW T, NEW s \in Seq(T), NEW D, D = DOMAIN s, NEW X, NEW l \in X,
         NEW F \in [D \X X -> X]
  PROVE  \E g : g \in [SUBSET D -> X] /\ Rounds(g, D, l, F)
<1>1. PICK c : c = [u \in SUBSET DOMAIN s |-> Top(u)]
  OBVIOUS
<1>2. /\ Chooses(c, D) /\ IsFiniteSet(D)
      /\ \A u \in SUBSET D : u # {} => Top(u) \in D /\ c[u] = Top(u)
  BY <1>1, TopChooses
<1>3. PICK g : Solves(g, D, X, c, l, F)
  BY <1>2, PeelingExists
<1>4. g \in [SUBSET D -> X] /\ \A u \in SUBSET D : g[u] = Peeled(u, c, l, F, g)
  BY <1>3 DEF Solves
<1>5. Rounds(g, D, l, F)
  BY <1>2, <1>4 DEF Peeled, Rounds
<1> QED
  BY <1>4, <1>5

LEMMA RoundsEnd ==
  ASSUME NEW T, NEW s \in Seq(T), NEW D, D = DOMAIN s, NEW X, NEW l \in X,
         NEW F \in [D \X X -> X], NEW k, Follows(k, D, X, l, F)
  PROVE  k[D] \in X
<1>1. PICK c : c = [u \in SUBSET DOMAIN s |-> Top(u)]
  OBVIOUS
<1>2. /\ Chooses(c, D) /\ IsFiniteSet(D)
      /\ \A u \in SUBSET D : u # {} => Top(u) \in D /\ c[u] = Top(u)
  BY <1>1, TopChooses
<1>3. PICK Q : Q = {u \in SUBSET D : k[u] \in X}
  OBVIOUS
<1>4. {} \in Q
  BY <1>3 DEF Follows
<1>5. ASSUME NEW u \in SUBSET D, u # {}, u \ {c[u]} \in Q PROVE u \in Q
  <2>1. Top(u) \in D /\ k[u \ {Top(u)}] \in X
    BY <1>2, <1>3, <1>5
  <2>2. k[u] = F[<<Top(u), k[u \ {Top(u)}]>>]
    BY <1>5, <2>1 DEF Follows
  <2> QED
    BY <1>3, <2>1, <2>2
<1>6. D \in Q
  BY <1>2, <1>4, <1>5, PeelingInduction
<1> QED
  BY <1>3, <1>6

\* The repositories of the right types.
Maps(K, V) == UNION {[D -> V] : D \in SUBSET K}
Repos ==
  [canon : Maps(CacheKeys, Entries), lru : Seq(CacheKeys),
   index : Maps(IndexKeys, IndexEntries), ilru : Seq(IndexKeys),
   gens : Maps(CacheKeys, Nat), tlru : Seq(CacheKeys),
   cursor : Maps(Name, Cursors), clru : Seq(Name),
   binding : Maps({"st"}, Digest), stats : Stats]

LEMMA TypedRepos ==
  ASSUME NEW r, RepoInv(r)
  PROVE  r \in Repos
<1>1. ASSUME NEW f, NEW K, NEW V, MapOf(f, K, V) PROVE f \in Maps(K, V)
  <2>1. f \in [DOMAIN f -> V] /\ DOMAIN f \in SUBSET K
    BY <1>1 DEF MapOf
  <2> QED
    BY <2>1 DEF Maps
<1>2. /\ MapOf(r.canon, CacheKeys, Entries) /\ MapOf(r.index, IndexKeys, IndexEntries)
      /\ MapOf(r.gens, CacheKeys, Nat) /\ MapOf(r.cursor, Name, Cursors)
      /\ MapOf(r.binding, {"st"}, Digest)
  BY DEF RepoInv, Typed
<1>3. /\ r.canon \in Maps(CacheKeys, Entries) /\ r.index \in Maps(IndexKeys, IndexEntries)
      /\ r.gens \in Maps(CacheKeys, Nat) /\ r.cursor \in Maps(Name, Cursors)
      /\ r.binding \in Maps({"st"}, Digest)
  BY <1>1, <1>2
<1>4. /\ r.lru \in Seq(CacheKeys) /\ r.ilru \in Seq(IndexKeys) /\ r.tlru \in Seq(CacheKeys)
      /\ r.clru \in Seq(Name) /\ r.stats \in Stats /\ Record(r)
  BY DEF RepoInv, Typed
<1> QED
  BY <1>3, <1>4 DEF Repos, Record

\* A loop that started from the repository r keeps the invariant, adds nothing,
\* and keeps the results C and the indexes I.
LoopStates(r, C, I) ==
  {a \in [r : Repos, fuel : Int, thrown : BOOLEAN] :
     /\ RepoInv(a.r) /\ Shrunk(r, a.r) /\ C \subseteq DOMAIN a.r.canon
     /\ I \subseteq DOMAIN a.r.index}

LEMMA LoopState ==
  ASSUME NEW r, NEW C, NEW I, NEW q, NEW f \in Int, NEW t \in BOOLEAN,
         RepoInv(q), Shrunk(r, q), C \subseteq DOMAIN q.canon, I \subseteq DOMAIN q.index
  PROVE  [r |-> q, fuel |-> f, thrown |-> t] \in LoopStates(r, C, I)
BY TypedRepos DEF LoopStates

(***************************************************************************)
(* The loops of the budgets.                                               *)
(***************************************************************************)
\* What an eviction must leave: what is being built and what it protects.
Held(r, prot) == {k \in DOMAIN r.canon : r.canon[k].st # "ready" \/ <<k>> = prot}
NamedIdx(r, protIdx) == {i \in DOMAIN r.index : <<i>> = protIdx}
OwnedIdx(r, prot) == {i \in DOMAIN r.index : <<i[1]>> = prot}
HeldIdx(r, prot, protIdx) ==
  {i \in DOMAIN r.index : <<i>> = protIdx /\ <<i[1]>> = prot}

LEMMA EvictRound ==
  ASSUME NEW r, RepoInv(r), NEW C, NEW I, NEW a \in LoopStates(r, C, I), NEW q,
         RepoInv(q), Shrunk(a.r, q), C \subseteq DOMAIN q.canon, I \subseteq DOMAIN q.index,
         NEW limit, NEW new, NEW excl
  PROVE  evict_round(a, q, limit, new, excl) \in LoopStates(r, C, I)
<1>1. /\ a \in [r : Repos, fuel : Int, thrown : BOOLEAN] /\ RepoInv(a.r) /\ Shrunk(r, a.r)
      /\ C \subseteq DOMAIN a.r.canon /\ I \subseteq DOMAIN a.r.index
  BY DEF LoopStates
<1>2. a.fuel - 1 \in Int /\ 0 \in Int
  BY <1>1
<1>3. Shrunk(r, q)
  BY <1>1, ShrunkTwice
<1>4. [r |-> q, fuel |-> a.fuel - 1, thrown |-> FALSE] \in LoopStates(r, C, I)
  BY <1>2, <1>3, LoopState
<1>5. [r |-> a.r, fuel |-> 0, thrown |-> TRUE] \in LoopStates(r, C, I)
  BY <1>1, <1>2, LoopState
<1> QED
  BY <1>4, <1>5 DEF evict_round

\* What filtering the keys in the order of their access returns.
LEMMA Candidates ==
  ASSUME NEW T, NEW s \in Seq(T), NEW S, NEW cands, cands = Filtered(s, S)
  PROVE  cands \in Seq(T) /\ \A j \in DOMAIN cands : cands[j] \in S
<1>1. cands \in Seq(T)
  BY FilteredElements
<1>2. {cands[i] : i \in DOMAIN cands} = {s[i] : i \in DOMAIN s} \cap S
  BY FilteredElements
<1> QED
  BY <1>1, <1>2
LEMMA EvictIndexes ==
  ASSUME NEW l, l \in LoopStates(l.r, {}, {}), NEW limit, NEW new, NEW protIdx, NEW keep,
         NEW excl, NEW m, m = evict_indexes(l, limit, new, protIdx, keep, excl)
  PROVE  m \in LoopStates(l.r, DOMAIN l.r.canon, NamedIdx(l.r, protIdx))
<1>a. PICK r : r = l.r
  OBVIOUS
<1>b. PICK cands : cands = index_candidates(r, protIdx, keep)
  OBVIOUS
<1>c. PICK C : C = DOMAIN r.canon
  OBVIOUS
<1>d. PICK I : I = {i \in DOMAIN r.index : <<i>> = protIdx}
  OBVIOUS
<1>e. PICK X : X = LoopStates(r, C, I)
  OBVIOUS
<1>f. PICK D : D = DOMAIN cands
  OBVIOUS
<1> DEFINE Step(a, x) == evict_round(a, evict_index(a.r, x), limit, new, excl)
           F == [p \in D \X X |-> Step(p[2], cands[p[1]])]
           Fold(k) ==
             k = [u \in SUBSET DOMAIN index_candidates(l.r, protIdx, keep) |->
                    IF u = {} THEN l
                    ELSE evict_round(k[u \ {Top(u)}],
                                     evict_index(k[u \ {Top(u)}].r,
                                       index_candidates(l.r, protIdx, keep)[Top(u)]),
                                     limit, new, excl)]
<1>1. RepoInv(r) /\ l \in [r : Repos, fuel : Int, thrown : BOOLEAN] /\ r.ilru \in Seq(IndexKeys)
  <2>1. RepoInv(l.r) /\ l \in [r : Repos, fuel : Int, thrown : BOOLEAN]
    BY DEF LoopStates
  <2> QED
    BY <1>a, <2>1, ObjectFacts
<1>2. cands \in Seq(IndexKeys) /\ \A j \in D : cands[j] \notin I
  <2>1. PICK S : S = {i \in DOMAIN r.index : /\ r.index[i].st = "ready"
                                             /\ <<i>> # protIdx /\ ~Kept(i[1], keep)}
    OBVIOUS
  <2>2. cands = Filtered(r.ilru, S)
    BY <1>b, <2>1 DEF index_candidates
  <2>3. cands \in Seq(IndexKeys) /\ \A j \in DOMAIN cands : cands[j] \in S
    BY <1>1, <2>2, Candidates
  <2>4. \A x \in S : x \notin I
    BY <1>c, <1>d, <2>1
  <2> QED
    BY <1>f, <2>3, <2>4
<1>3. l \in X
  <2>1. Shrunk(r, r)
    BY <1>1, ShrunkSelf
  <2>2. C \subseteq DOMAIN r.canon /\ I \subseteq DOMAIN r.index
    BY <1>c, <1>d
  <2> QED
    BY <1>1, <1>a, <1>e, <2>1, <2>2 DEF LoopStates
<1>4. ASSUME NEW a \in X, NEW j \in D PROVE Step(a, cands[j]) \in X
  <2>1. RepoInv(a.r) /\ C \subseteq DOMAIN a.r.canon /\ I \subseteq DOMAIN a.r.index
    BY <1>e DEF LoopStates
  <2>2. PICK x : x = cands[j]
    OBVIOUS
  <2>3. PICK q : q = evict_index(a.r, x)
    OBVIOUS
  <2>4. /\ RepoInv(q) /\ Shrunk(a.r, q) /\ q.canon = a.r.canon
       /\ DOMAIN q.index = DOMAIN a.r.index \ {x}
    BY <2>1, <2>3, EvictIndex
  <2>5. C \subseteq DOMAIN q.canon /\ I \subseteq DOMAIN q.index
    BY <1>2, <2>1, <2>2, <2>4
  <2>6. evict_round(a, q, limit, new, excl) \in X
    BY <1>1, <1>e, <2>4, <2>5, EvictRound
  <2> QED
    BY <2>2, <2>3, <2>6
<1> HIDE DEF Step
<1>5. F \in [D \X X -> X]
  BY <1>4
<1>6. PICK g : g \in [SUBSET D -> X] /\ Rounds(g, D, l, F)
  <2> HIDE DEF F
  <2> QED
    BY <1>2, <1>3, <1>5, <1>f, RoundsExist
<1>7. Fold(g)
  <2>1. \A u \in SUBSET D : u # {} => Top(u) \in D
    BY <1>2, <1>f, TopChooses
  <2>2. ASSUME NEW u \in SUBSET D
        PROVE  g[u] = IF u = {} THEN l ELSE Step(g[u \ {Top(u)}], cands[Top(u)])
    <3>1. CASE u = {}
      BY <1>6, <3>1 DEF Rounds
    <3>2. CASE u # {}
      <4>1. g[u] = F[<<Top(u), g[u \ {Top(u)}]>>]
        BY <1>6, <3>2 DEF Rounds
      <4>2. Top(u) \in D /\ g[u \ {Top(u)}] \in X
        BY <1>6, <2>1, <3>2
      <4> QED
        BY <3>2, <4>1, <4>2
    <3> QED
      BY <3>1, <3>2
  <2> QED
    BY <1>6, <1>a, <1>b, <1>f, <2>2 DEF Step
<1>8. PICK k : Fold(k) /\ m = k[D]
  <2>1. \E h : Fold(h)
    BY <1>7
  <2>2. \E k : Fold(k) /\ m = k[DOMAIN index_candidates(l.r, protIdx, keep)]
    BY <2>1 DEF evict_indexes, FoldLeft, MapThenFoldSet, Max, Top
  <2> QED
    BY <1>a, <1>b, <1>f, <2>2
<1>9. Follows(k, D, X, l, F)
  <2>1. \A u \in SUBSET D : u # {} => Top(u) \in D
    BY <1>2, <1>f, TopChooses
  <2>2. \A u \in SUBSET D : k[u] = IF u = {} THEN l
                                    ELSE Step(k[u \ {Top(u)}], cands[Top(u)])
    BY <1>8, <1>a, <1>b, <1>f DEF Step
  <2> HIDE DEF Fold
  <2> QED
    BY <2>1, <2>2 DEF Follows
<1>10. m \in X
  <2> HIDE DEF F, Fold
  <2>1. k[D] \in X
    BY <1>2, <1>3, <1>5, <1>9, <1>f, RoundsEnd
  <2> QED
    BY <1>8, <2>1
<1> QED
  BY <1>10, <1>a, <1>c, <1>d, <1>e DEF NamedIdx

LEMMA EvictCanonicals ==
  ASSUME NEW l, l \in LoopStates(l.r, {}, {}), NEW limit, NEW new, NEW prot, NEW keep,
         NEW excl, NEW m, m = evict_canonicals(l, limit, new, prot, keep, excl)
  PROVE  m \in LoopStates(l.r, Held(l.r, prot), OwnedIdx(l.r, prot))
<1>a. PICK r : r = l.r
  OBVIOUS
<1>b. PICK cands : cands = canonical_candidates(r, prot, keep)
  OBVIOUS
<1>c. PICK C : C = {k \in DOMAIN r.canon : r.canon[k].st # "ready" \/ <<k>> = prot}
  OBVIOUS
<1>d. PICK I : I = {i \in DOMAIN r.index : <<i[1]>> = prot}
  OBVIOUS
<1>e. PICK X : X = LoopStates(r, C, I)
  OBVIOUS
<1>f. PICK D : D = DOMAIN cands
  OBVIOUS
<1> DEFINE Step(a, x) == evict_round(a, evict_canonical(a.r, x), limit, new, excl)
           F == [p \in D \X X |-> Step(p[2], cands[p[1]])]
           Fold(k) ==
             k = [u \in SUBSET DOMAIN canonical_candidates(l.r, prot, keep) |->
                    IF u = {} THEN l
                    ELSE evict_round(k[u \ {Top(u)}],
                                     evict_canonical(k[u \ {Top(u)}].r,
                                       canonical_candidates(l.r, prot, keep)[Top(u)]),
                                     limit, new, excl)]
<1>1. RepoInv(r) /\ l \in [r : Repos, fuel : Int, thrown : BOOLEAN] /\ r.lru \in Seq(CacheKeys)
  <2>1. RepoInv(l.r) /\ l \in [r : Repos, fuel : Int, thrown : BOOLEAN]
    BY DEF LoopStates
  <2> QED
    BY <1>a, <2>1, ObjectFacts
<1>2. cands \in Seq(CacheKeys) /\ \A j \in D : cands[j] \notin C /\ \A i \in I : i[1] # cands[j]
  <2>1. PICK S : S = {k \in DOMAIN r.canon : /\ r.canon[k].st = "ready"
                                             /\ <<k>> # prot /\ ~Kept(k, keep)}
    OBVIOUS
  <2>2. cands = Filtered(r.lru, S)
    BY <1>b, <2>1 DEF canonical_candidates
  <2>3. cands \in Seq(CacheKeys) /\ \A j \in DOMAIN cands : cands[j] \in S
    BY <1>1, <2>2, Candidates
  <2>4. \A x \in S : x \notin C /\ \A i \in I : i[1] # x
    BY <1>c, <1>d, <2>1
  <2> QED
    BY <1>f, <2>3, <2>4
<1>3. l \in X
  <2>1. Shrunk(r, r)
    BY <1>1, ShrunkSelf
  <2>2. C \subseteq DOMAIN r.canon /\ I \subseteq DOMAIN r.index
    BY <1>c, <1>d
  <2> QED
    BY <1>1, <1>a, <1>e, <2>1, <2>2 DEF LoopStates
<1>4. ASSUME NEW a \in X, NEW j \in D PROVE Step(a, cands[j]) \in X
  <2>1. RepoInv(a.r) /\ C \subseteq DOMAIN a.r.canon /\ I \subseteq DOMAIN a.r.index
    BY <1>e DEF LoopStates
  <2>2. PICK x : x = cands[j]
    OBVIOUS
  <2>3. PICK q : q = evict_canonical(a.r, x)
    OBVIOUS
  <2>4. /\ RepoInv(q) /\ Shrunk(a.r, q) /\ DOMAIN q.canon = DOMAIN a.r.canon \ {x}
       /\ DOMAIN q.index = {i \in DOMAIN a.r.index : i[1] # x}
    BY <2>1, <2>3, EvictCanonical
  <2>5. C \subseteq DOMAIN q.canon /\ I \subseteq DOMAIN q.index
    BY <1>2, <2>1, <2>2, <2>4
  <2>6. evict_round(a, q, limit, new, excl) \in X
    BY <1>1, <1>e, <2>4, <2>5, EvictRound
  <2> QED
    BY <2>2, <2>3, <2>6
<1> HIDE DEF Step
<1>5. F \in [D \X X -> X]
  BY <1>4
<1>6. PICK g : g \in [SUBSET D -> X] /\ Rounds(g, D, l, F)
  <2> HIDE DEF F
  <2> QED
    BY <1>2, <1>3, <1>5, <1>f, RoundsExist
<1>7. Fold(g)
  <2>1. \A u \in SUBSET D : u # {} => Top(u) \in D
    BY <1>2, <1>f, TopChooses
  <2>2. ASSUME NEW u \in SUBSET D
        PROVE  g[u] = IF u = {} THEN l ELSE Step(g[u \ {Top(u)}], cands[Top(u)])
    <3>1. CASE u = {}
      BY <1>6, <3>1 DEF Rounds
    <3>2. CASE u # {}
      <4>1. g[u] = F[<<Top(u), g[u \ {Top(u)}]>>]
        BY <1>6, <3>2 DEF Rounds
      <4>2. Top(u) \in D /\ g[u \ {Top(u)}] \in X
        BY <1>6, <2>1, <3>2
      <4> QED
        BY <3>2, <4>1, <4>2
    <3> QED
      BY <3>1, <3>2
  <2> QED
    BY <1>6, <1>a, <1>b, <1>f, <2>2 DEF Step
<1>8. PICK k : Fold(k) /\ m = k[D]
  <2>1. \E h : Fold(h)
    BY <1>7
  <2>2. \E k : Fold(k) /\ m = k[DOMAIN canonical_candidates(l.r, prot, keep)]
    BY <2>1 DEF evict_canonicals, FoldLeft, MapThenFoldSet, Max, Top
  <2> QED
    BY <1>a, <1>b, <1>f, <2>2
<1>9. Follows(k, D, X, l, F)
  <2>1. \A u \in SUBSET D : u # {} => Top(u) \in D
    BY <1>2, <1>f, TopChooses
  <2>2. \A u \in SUBSET D : k[u] = IF u = {} THEN l
                                    ELSE Step(k[u \ {Top(u)}], cands[Top(u)])
    BY <1>8, <1>a, <1>b, <1>f DEF Step
  <2> HIDE DEF Fold
  <2> QED
    BY <2>1, <2>2 DEF Follows
<1>10. m \in X
  <2> HIDE DEF F, Fold
  <2>1. k[D] \in X
    BY <1>2, <1>3, <1>5, <1>9, <1>f, RoundsEnd
  <2> QED
    BY <1>8, <2>1
<1> QED
  BY <1>10, <1>a, <1>c, <1>d, <1>e DEF Held, OwnedIdx
LEMMA ReleaseRound ==
  ASSUME NEW r, RepoInv(r), NEW C, NEW I, NEW a \in LoopStates(r, C, I),
         NEW limit, NEW new, NEW excl
  PROVE  release_round(a, limit, new, excl) \in LoopStates(r, C, I)
<1>1. /\ a \in [r : Repos, fuel : Int, thrown : BOOLEAN] /\ RepoInv(a.r) /\ Shrunk(r, a.r)
      /\ C \subseteq DOMAIN a.r.canon /\ I \subseteq DOMAIN a.r.index
  BY DEF LoopStates
<1>2. CASE a.thrown \/ Fits(a.r, limit, new, excl) \/ ~HasMetadata(a.r)
  BY <1>2 DEF release_round
<1>3. CASE ~(a.thrown \/ Fits(a.r, limit, new, excl) \/ ~HasMetadata(a.r))
  <2>1. PICK q : q = erase_one_releasable_metadata(a.r)
    OBVIOUS
  <2>2. PICK f : f = IF a.fuel = 0 THEN 0 ELSE a.fuel - 1
    OBVIOUS
  <2>3. f \in Int /\ (a.fuel = 0) \in BOOLEAN
    BY <1>1, <2>2
  <2>4. RepoInv(q) /\ Shrunk(a.r, q) /\ q.canon = a.r.canon /\ q.index = a.r.index
    BY <1>1, <1>3, <2>1, EraseMetadata
  <2>5. Shrunk(r, q)
    BY <1>1, <2>4, ShrunkTwice
  <2>6. C \subseteq DOMAIN q.canon /\ I \subseteq DOMAIN q.index
    BY <1>1, <2>4
  <2>7. [r |-> q, fuel |-> f, thrown |-> a.fuel = 0] \in LoopStates(r, C, I)
    BY <2>3, <2>4, <2>5, <2>6, LoopState
  <2> QED
    BY <1>3, <2>1, <2>2, <2>7 DEF release_round
<1> QED
  BY <1>2, <1>3

LEMMA ReleasesMetadata ==
  ASSUME NEW l, l \in LoopStates(l.r, {}, {}), NEW limit, NEW new, NEW excl,
         NEW m, m = ReleaseMetadata(l, limit, new, excl)
  PROVE  m \in LoopStates(l.r, DOMAIN l.r.canon, DOMAIN l.r.index)
<1>a. PICK r : r = l.r
  OBVIOUS
<1>b. PICK n : n = Len(r.tlru) + Len(r.clru) + Cardinality(DOMAIN r.binding)
  OBVIOUS
<1>c. PICK s : s = [i \in 1..n |-> i]
  OBVIOUS
<1>d. PICK D : D = DOMAIN s
  OBVIOUS
<1>e. PICK X : X = LoopStates(r, DOMAIN r.canon, DOMAIN r.index)
  OBVIOUS
<1> DEFINE F == [p \in D \X X |-> release_round(p[2], limit, new, excl)]
           Fold(k) ==
             k = [u \in SUBSET DOMAIN s |->
                    IF u = {} THEN l ELSE release_round(k[u \ {Top(u)}], limit, new, excl)]
<1>1. RepoInv(r) /\ l \in [r : Repos, fuel : Int, thrown : BOOLEAN]
  BY <1>a DEF LoopStates
<1>2. s \in Seq(Int)
  <2>1. r.tlru \in Seq(CacheKeys) /\ r.clru \in Seq(Name) /\ MapOf(r.binding, {"st"}, Digest)
    BY <1>1 DEF RepoInv, Typed
  <2>2. Cardinality(DOMAIN r.binding) \in Nat
    BY <2>1, FS_CardinalityType DEF MapOf
  <2>3. Len(r.tlru) \in Nat /\ Len(r.clru) \in Nat
    BY <2>1
  <2>4. n \in Nat
    <3>1. PICK x \in Nat : x = Len(r.tlru)
      BY <2>3
    <3>2. PICK y \in Nat : y = Len(r.clru)
      BY <2>3
    <3>3. PICK z \in Nat : z = Cardinality(DOMAIN r.binding)
      BY <2>2
    <3>4. n = x + y + z
      BY <1>b, <3>1, <3>2, <3>3
    <3> QED
      BY <3>4
  <2> QED
    BY <1>c, <2>4
<1>3. l \in X
  <2>1. Shrunk(r, r)
    BY <1>1, ShrunkSelf
  <2> QED
    BY <1>1, <1>a, <1>e, <2>1 DEF LoopStates
<1>4. ASSUME NEW a \in X PROVE release_round(a, limit, new, excl) \in X
  BY <1>1, <1>e, <1>4, ReleaseRound
<1>5. F \in [D \X X -> X]
  BY <1>4
<1>6. PICK g : g \in [SUBSET D -> X] /\ Rounds(g, D, l, F)
  <2> HIDE DEF F
  <2> QED
    BY <1>2, <1>3, <1>5, <1>d, RoundsExist
<1>7. Fold(g)
  <2>1. \A u \in SUBSET D : u # {} => Top(u) \in D
    BY <1>2, <1>d, TopChooses
  <2>2. ASSUME NEW u \in SUBSET D
        PROVE  g[u] = IF u = {} THEN l ELSE release_round(g[u \ {Top(u)}], limit, new, excl)
    <3>1. CASE u = {}
      BY <1>6, <3>1 DEF Rounds
    <3>2. CASE u # {}
      <4>1. g[u] = F[<<Top(u), g[u \ {Top(u)}]>>]
        BY <1>6, <3>2 DEF Rounds
      <4>2. Top(u) \in D /\ g[u \ {Top(u)}] \in X
        BY <1>6, <2>1, <3>2
      <4> QED
        BY <3>2, <4>1, <4>2
    <3> QED
      BY <3>1, <3>2
  <2> QED
    BY <1>6, <1>d, <2>2
<1>8. PICK k : Fold(k) /\ m = k[D]
  <2>1. \E h : Fold(h)
    BY <1>7
  <2> DEFINE Runs(k) ==
        k = [u \in SUBSET DOMAIN [i \in 1..(Len(l.r.tlru) + Len(l.r.clru)
                                              + Cardinality(DOMAIN l.r.binding)) |-> i] |->
               IF u = {} THEN l ELSE release_round(k[u \ {Top(u)}], limit, new, excl)]
  <2>2. \E h : Runs(h)
    BY <2>1, <1>a, <1>b, <1>c
  <2>3. \E k : Runs(k) /\ m = k[DOMAIN [i \in 1..(Len(l.r.tlru) + Len(l.r.clru)
                                              + Cardinality(DOMAIN l.r.binding)) |-> i]]
    BY <2>2 DEF ReleaseMetadata, FoldLeft, MapThenFoldSet, Max, Top
  <2> QED
    BY <1>a, <1>b, <1>c, <1>d, <2>3
<1>9. Follows(k, D, X, l, F)
  <2>1. \A u \in SUBSET D : u # {} => Top(u) \in D
    BY <1>2, <1>d, TopChooses
  <2>2. \A u \in SUBSET D : k[u] = IF u = {} THEN l
                                    ELSE release_round(k[u \ {Top(u)}], limit, new, excl)
    BY <1>8, <1>d
  <2> HIDE DEF Fold
  <2> QED
    BY <2>1, <2>2 DEF Follows
<1>10. m \in X
  <2> HIDE DEF F, Fold
  <2>1. k[D] \in X
    BY <1>2, <1>3, <1>5, <1>9, <1>d, RoundsEnd
  <2> QED
    BY <1>8, <2>1
<1> QED
  BY <1>10, <1>a, <1>e

(***************************************************************************)
(* The loops that erase a set of results.                                  *)
(***************************************************************************)
LEMMA SetToSeqFacts ==
  ASSUME NEW S, IsFiniteSet(S), NEW s, s = SetToSeq(S)
  PROVE  s \in Seq(S) /\ S = {s[j] : j \in DOMAIN s}
<1> DEFINE n == Cardinality(S)
<1>1. n \in Nat /\ ExistsBijection(1..n, S)
  BY FS_CardinalityType
<1>2. \E f \in [1..n -> S] : IsInjective(f)
  BY <1>1 DEF ExistsBijection, Bijection, Injection
<1>3. s \in [1..n -> S] /\ IsInjective(s)
  BY <1>2 DEF SetToSeq
<1>4. s \in Injection(1..n, S)
  BY <1>3 DEF Injection
<1>5. Cardinality(1..n) = n
  <2>1. 1 \in Int /\ n \in Int
    BY <1>1
  <2>2. Cardinality(1..n) = IF 1 > n THEN 0 ELSE n - 1 + 1
    BY <2>1, FS_Interval
  <2> HIDE DEF n
  <2> QED
    BY <1>1, <2>2
<1>6. s \in Surjection(1..n, S)
  BY <1>4, <1>5, FS_Injection
<1> HIDE DEF n
<1>7. \A x \in S : \E j \in 1..n : s[j] = x
  BY <1>6 DEF Surjection
<1>8. s \in Seq(S) /\ DOMAIN s = 1..n
  BY <1>1, <1>3
<1> QED
  BY <1>3, <1>7, <1>8

\* q is a without the result k and its indexes.
Erased(a, k, q) ==
  /\ RepoInv(q) /\ Shrunk(a, q)
  /\ DOMAIN q.canon = DOMAIN a.canon \ {k}
  /\ DOMAIN q.index = {i \in DOMAIN a.index : i[1] # k}

Good == {q \in Repos : RepoInv(q)}

Erases(F, D, s) == \A j \in D, a \in Good : Erased(a, s[j], F[<<j, a>>])

\* What is left of r without the results in S.
ErasedAll(r, S, q) ==
  /\ RepoInv(q) /\ Shrunk(r, q)
  /\ DOMAIN q.canon = DOMAIN r.canon \ S
  /\ DOMAIN q.index = {i \in DOMAIN r.index : i[1] \notin S}

Lists(s, D, S) == S = {s[j] : j \in D}

LEMMA ErasingLoop ==
  ASSUME NEW r \in Good, NEW T, NEW s \in Seq(T), NEW D, D = DOMAIN s,
         NEW F \in [D \X Good -> Good], Erases(F, D, s),
         NEW k, Follows(k, D, Good, r, F), NEW S, Lists(s, D, S)
  PROVE  ErasedAll(r, S, k[D])
<1>1. PICK c : c = [u \in SUBSET DOMAIN s |-> Top(u)]
  OBVIOUS
<1>2. /\ Chooses(c, D) /\ IsFiniteSet(D)
      /\ \A u \in SUBSET D : u # {} => Top(u) \in D /\ c[u] = Top(u) /\ Top(u) \in u
  <2>1. /\ Chooses(c, D) /\ IsFiniteSet(D)
        /\ \A u \in SUBSET D : u # {} => Top(u) \in D /\ c[u] = Top(u)
    BY <1>1, TopChooses
  <2> QED
    BY <2>1 DEF Chooses
<1> DEFINE Of(u) == {s[j] : j \in u}
<1>3. PICK Q : Q = {u \in SUBSET D : ErasedAll(r, Of(u), k[u])}
  OBVIOUS
<1>4. {} \in Q
  <2>1. k[{}] = r
    BY DEF Follows
  <2>2. RepoInv(r) /\ Shrunk(r, r)
    BY ShrunkSelf DEF Good
  <2>3. Of({}) = {}
    OBVIOUS
  <2>4. ErasedAll(r, {}, r)
    BY <2>2 DEF ErasedAll
  <2> QED
    BY <1>3, <2>1, <2>3, <2>4
<1>5. ASSUME NEW u \in SUBSET D, u # {}, u \ {c[u]} \in Q PROVE u \in Q
  <2>1. PICK v : v = u \ {Top(u)}
    OBVIOUS
  <2>2. PICK x : x = s[Top(u)]
    OBVIOUS
  <2>3. Top(u) \in D /\ Top(u) \in u /\ ErasedAll(r, Of(v), k[v])
    BY <1>2, <1>3, <1>5, <2>1
  <2>4. k[v] \in Good
    <3>1. RepoInv(k[v])
      BY <2>3 DEF ErasedAll
    <3> QED
      BY <3>1, TypedRepos DEF Good
  <2>5. k[u] = F[<<Top(u), k[v]>>]
    BY <1>5, <2>1, <2>4 DEF Follows
  <2>6. Erased(k[v], x, k[u])
    BY <2>2, <2>3, <2>4, <2>5 DEF Erases
  <2>7. Of(u) = Of(v) \cup {x}
    BY <2>1, <2>2, <2>3
  <2> HIDE DEF Of
  <2>8. RepoInv(r) /\ RepoInv(k[v]) /\ RepoInv(k[u]) /\ Shrunk(r, k[v]) /\ Shrunk(k[v], k[u])
    BY <2>3, <2>6 DEF ErasedAll, Erased, Good
  <2>9. Shrunk(r, k[u])
    BY <2>8, ShrunkTwice
  <2>10. ErasedAll(r, Of(u), k[u])
    <3>1. DOMAIN k[u].canon = DOMAIN r.canon \ Of(u)
      BY <2>3, <2>6, <2>7 DEF ErasedAll, Erased
    <3>2. DOMAIN k[u].index = {i \in DOMAIN r.index : i[1] \notin Of(u)}
      BY <2>3, <2>6, <2>7 DEF ErasedAll, Erased
    <3> QED
      BY <2>8, <2>9, <3>1, <3>2 DEF ErasedAll
  <2> QED
    BY <1>3, <2>10
<1>6. D \in Q
  BY <1>2, <1>4, <1>5, PeelingInduction
<1> QED
  BY <1>3, <1>6 DEF Lists

LEMMA SiblingsErased ==
  ASSUME NEW r, RepoInv(r), NEW full, NEW q, q = erase_stream_sibling_ranges(r, full)
  PROVE  ErasedAll(r, sibling_ranges(r, full), q)
<1>a. PICK s : s = SetToSeq(sibling_ranges(r, full))
  OBVIOUS
<1>b. PICK D : D = DOMAIN s
  OBVIOUS
<1> DEFINE F == [p \in D \X Good |-> erase_canonical_internal(p[2], s[p[1]], TRUE)]
           Fold(k) == k = [u \in SUBSET DOMAIN SetToSeq(sibling_ranges(r, full)) |->
                             IF u = {} THEN r
                             ELSE erase_canonical_internal(k[u \ {Top(u)}], SetToSeq(sibling_ranges(r, full))[Top(u)], TRUE)]
<1>1. s \in Seq(sibling_ranges(r, full)) /\ sibling_ranges(r, full) = {s[j] : j \in D}
  <2>1. IsFiniteSet(DOMAIN r.canon) /\ sibling_ranges(r, full) \in SUBSET DOMAIN r.canon
    BY ObjectFacts DEF sibling_ranges
  <2>2. IsFiniteSet(sibling_ranges(r, full))
    BY <2>1, FS_Subset
  <2> QED
    BY <1>a, <1>b, <2>2, SetToSeqFacts
<1>2. r \in Good
  BY TypedRepos DEF Good
<1>3. ASSUME NEW a \in Good, NEW x PROVE Erased(a, x, erase_canonical_internal(a, x, TRUE))
  <2>1. RepoInv(a) /\ TRUE \in BOOLEAN
    BY DEF Good
  <2>2. PICK b : b = erase_canonical_internal(a, x, TRUE)
    OBVIOUS
  <2>3. /\ RepoInv(b) /\ Shrunk(a, b) /\ DOMAIN b.canon = DOMAIN a.canon \ {x}
        /\ DOMAIN b.index = {i \in DOMAIN a.index : i[1] # x}
    BY <2>1, <2>2, EraseCanonical
  <2> QED
    BY <2>2, <2>3 DEF Erased
<1>4. ASSUME NEW a \in Good, NEW x PROVE erase_canonical_internal(a, x, TRUE) \in Good
  BY <1>3, TypedRepos DEF Good, Erased
<1>5. F \in [D \X Good -> Good]
  BY <1>4
<1>6. Erases(F, D, s)
  BY <1>3 DEF Erases
<1>7. PICK g : g \in [SUBSET D -> Good] /\ Rounds(g, D, r, F)
  <2> HIDE DEF F
  <2> QED
    BY <1>1, <1>2, <1>5, <1>b, RoundsExist
<1>8. \A u \in SUBSET D : u # {} => Top(u) \in D
  BY <1>1, <1>b, TopChooses
<1>9. Fold(g)
  <2>1. ASSUME NEW u \in SUBSET D
        PROVE  g[u] = IF u = {} THEN r ELSE erase_canonical_internal(g[u \ {Top(u)}], s[Top(u)], TRUE)
    <3>1. CASE u = {}
      BY <1>7, <3>1 DEF Rounds
    <3>2. CASE u # {}
      <4>1. g[u] = F[<<Top(u), g[u \ {Top(u)}]>>]
        BY <1>7, <3>2 DEF Rounds
      <4>2. Top(u) \in D /\ g[u \ {Top(u)}] \in Good
        BY <1>7, <1>8, <3>2
      <4> QED
        BY <3>2, <4>1, <4>2
    <3> QED
      BY <3>1, <3>2
  <2> QED
    BY <1>7, <1>a, <1>b, <2>1
<1>10. PICK k : Fold(k) /\ q = k[D]
  <2>1. \E h : Fold(h)
    BY <1>9
  <2>2. \E k : Fold(k) /\ q = k[DOMAIN SetToSeq(sibling_ranges(r, full))]
    BY <2>1 DEF erase_stream_sibling_ranges, FoldLeft, MapThenFoldSet, Max, Top
  <2> QED
    BY <1>a, <1>b, <2>2
<1>11. Follows(k, D, Good, r, F)
  <2>1. \A u \in SUBSET D : k[u] = IF u = {} THEN r
                                    ELSE erase_canonical_internal(k[u \ {Top(u)}], s[Top(u)], TRUE)
    BY <1>10, <1>a, <1>b
  <2> HIDE DEF Fold
  <2> QED
    BY <1>8, <2>1 DEF Follows
<1>12. ErasedAll(r, sibling_ranges(r, full), k[D])
  <2> HIDE DEF F, Fold
  <2>1. Lists(s, D, sibling_ranges(r, full))
    BY <1>1 DEF Lists
  <2> QED
    BY <1>1, <1>2, <1>5, <1>6, <1>11, <1>b, <2>1, ErasingLoop
<1> QED
  BY <1>1, <1>10, <1>12

LEMMA InvalidatesEach ==
  ASSUME NEW r, RepoInv(r), NEW S \in SUBSET DOMAIN r.canon, NEW q, q = invalidate_each(r, S)
  PROVE  ErasedAll(r, S, q)
<1>a. PICK s : s = SetToSeq(S)
  OBVIOUS
<1>b. PICK D : D = DOMAIN s
  OBVIOUS
<1> DEFINE F == [p \in D \X Good |-> invalidate(p[2], s[p[1]])]
           Fold(k) == k = [u \in SUBSET DOMAIN SetToSeq(S) |->
                             IF u = {} THEN r
                             ELSE invalidate(k[u \ {Top(u)}], SetToSeq(S)[Top(u)])]
<1>1. s \in Seq(S) /\ S = {s[j] : j \in D}
  <2>1. IsFiniteSet(DOMAIN r.canon) /\ S \in SUBSET DOMAIN r.canon
    BY ObjectFacts
  <2>2. IsFiniteSet(S)
    BY <2>1, FS_Subset
  <2> QED
    BY <1>a, <1>b, <2>2, SetToSeqFacts
<1>2. r \in Good
  BY TypedRepos DEF Good
<1>3. ASSUME NEW a \in Good, NEW x PROVE Erased(a, x, invalidate(a, x))
  <2>1. RepoInv(a) /\ TRUE \in BOOLEAN
    BY DEF Good
  <2>2. PICK e : e = erase_tombstone(a, x)
    OBVIOUS
  <2>3. PICK b : b = erase_canonical_internal(e, x, TRUE)
    OBVIOUS
  <2>4. RepoInv(e) /\ Shrunk(a, e) /\ e.canon = a.canon /\ e.index = a.index
    BY <2>1, <2>2, EraseTombstone
  <2>5. /\ RepoInv(b) /\ Shrunk(e, b) /\ DOMAIN b.canon = DOMAIN e.canon \ {x}
        /\ DOMAIN b.index = {i \in DOMAIN e.index : i[1] # x}
    <3>1. RepoInv(e) /\ TRUE \in BOOLEAN
      BY <2>4
    <3> QED
      BY <2>3, <3>1, EraseCanonical
  <2>6. Shrunk(a, b)
    BY <2>1, <2>4, <2>5, ShrunkTwice
  <2>7. b = invalidate(a, x)
    BY <2>2, <2>3 DEF invalidate
  <2> QED
    BY <2>4, <2>5, <2>6, <2>7 DEF Erased
<1>4. ASSUME NEW a \in Good, NEW x PROVE invalidate(a, x) \in Good
  BY <1>3, TypedRepos DEF Good, Erased
<1>5. F \in [D \X Good -> Good]
  BY <1>4
<1>6. Erases(F, D, s)
  BY <1>3 DEF Erases
<1>7. PICK g : g \in [SUBSET D -> Good] /\ Rounds(g, D, r, F)
  <2> HIDE DEF F
  <2> QED
    BY <1>1, <1>2, <1>5, <1>b, RoundsExist
<1>8. \A u \in SUBSET D : u # {} => Top(u) \in D
  BY <1>1, <1>b, TopChooses
<1>9. Fold(g)
  <2>1. ASSUME NEW u \in SUBSET D
        PROVE  g[u] = IF u = {} THEN r ELSE invalidate(g[u \ {Top(u)}], s[Top(u)])
    <3>1. CASE u = {}
      BY <1>7, <3>1 DEF Rounds
    <3>2. CASE u # {}
      <4>1. g[u] = F[<<Top(u), g[u \ {Top(u)}]>>]
        BY <1>7, <3>2 DEF Rounds
      <4>2. Top(u) \in D /\ g[u \ {Top(u)}] \in Good
        BY <1>7, <1>8, <3>2
      <4> QED
        BY <3>2, <4>1, <4>2
    <3> QED
      BY <3>1, <3>2
  <2> QED
    BY <1>7, <1>a, <1>b, <2>1
<1>10. PICK k : Fold(k) /\ q = k[D]
  <2>1. \E h : Fold(h)
    BY <1>9
  <2>2. \E k : Fold(k) /\ q = k[DOMAIN SetToSeq(S)]
    BY <2>1 DEF invalidate_each, FoldLeft, MapThenFoldSet, Max, Top
  <2> QED
    BY <1>a, <1>b, <2>2
<1>11. Follows(k, D, Good, r, F)
  <2>1. \A u \in SUBSET D : k[u] = IF u = {} THEN r
                                    ELSE invalidate(k[u \ {Top(u)}], s[Top(u)])
    BY <1>10, <1>a, <1>b
  <2> HIDE DEF Fold
  <2> QED
    BY <1>8, <2>1 DEF Follows
<1>12. ErasedAll(r, S, k[D])
  <2> HIDE DEF F, Fold
  <2>1. Lists(s, D, S)
    BY <1>1 DEF Lists
  <2> QED
    BY <1>1, <1>2, <1>5, <1>6, <1>11, <1>b, <2>1, ErasingLoop
<1> QED
  BY <1>1, <1>10, <1>12

(***************************************************************************)
(* Making room.                                                            *)
(***************************************************************************)
LEMMA EvictsToBudget ==
  ASSUME NEW r, RepoInv(r), NEW fuel \in Int, NEW limit, NEW new, NEW prot, NEW protIdx,
         NEW keep, NEW excl,
         NEW m, m = evict_to_budget(r, fuel, limit, new, prot, protIdx, keep, excl)
  PROVE  m \in LoopStates(r, Held(r, prot), HeldIdx(r, prot, protIdx))
<1>1. PICK l : l = Loop(r, fuel)
  OBVIOUS
<1>2. l.r = r /\ l = [r |-> r, fuel |-> fuel, thrown |-> FALSE]
  BY <1>1 DEF Loop
<1>3. l \in LoopStates(l.r, {}, {})
  <2>1. Shrunk(r, r) /\ FALSE \in BOOLEAN /\ {} \subseteq DOMAIN r.canon
        /\ {} \subseteq DOMAIN r.index
    BY ShrunkSelf
  <2>2. [r |-> r, fuel |-> fuel, thrown |-> FALSE] \in LoopStates(r, {}, {})
    BY <2>1, LoopState
  <2> QED
    BY <1>2, <2>2
<1>4. PICK a : a = evict_indexes(l, limit, new, protIdx, keep, excl)
  OBVIOUS
<1>5. a \in LoopStates(r, DOMAIN r.canon, NamedIdx(r, protIdx))
  <2>1. a \in LoopStates(l.r, DOMAIN l.r.canon, NamedIdx(l.r, protIdx))
    BY <1>3, <1>4, EvictIndexes
  <2> QED
    BY <1>2, <2>1
<1>6. /\ a \in [r : Repos, fuel : Int, thrown : BOOLEAN] /\ RepoInv(a.r) /\ Shrunk(r, a.r)
      /\ DOMAIN r.canon \subseteq DOMAIN a.r.canon
      /\ NamedIdx(r, protIdx) \subseteq DOMAIN a.r.index
  BY <1>5 DEF LoopStates
<1>7. a \in LoopStates(a.r, {}, {})
  <2>1. Shrunk(a.r, a.r)
    BY <1>6, ShrunkSelf
  <2> QED
    BY <1>6, <2>1 DEF LoopStates
<1>8. m = evict_canonicals(a, limit, new, prot, keep, excl)
  BY <1>1, <1>4 DEF evict_to_budget
<1>9. m \in LoopStates(a.r, Held(a.r, prot), OwnedIdx(a.r, prot))
  BY <1>7, <1>8, EvictCanonicals
<1>10. /\ m \in [r : Repos, fuel : Int, thrown : BOOLEAN] /\ RepoInv(m.r) /\ Shrunk(a.r, m.r)
       /\ Held(a.r, prot) \subseteq DOMAIN m.r.canon
       /\ OwnedIdx(a.r, prot) \subseteq DOMAIN m.r.index
  BY <1>9 DEF LoopStates
<1>11. Shrunk(r, m.r)
  BY <1>6, <1>10, ShrunkTwice
<1>12. Held(r, prot) \subseteq DOMAIN m.r.canon
  <2>1. \A k \in DOMAIN r.canon : k \in DOMAIN a.r.canon /\ a.r.canon[k] = r.canon[k]
    BY <1>6 DEF Shrunk, Part
  <2> QED
    BY <1>10, <2>1 DEF Held
<1>13. HeldIdx(r, prot, protIdx) \subseteq DOMAIN m.r.index
  BY <1>6, <1>10 DEF HeldIdx, NamedIdx, OwnedIdx
<1> QED
  BY <1>10, <1>11, <1>12, <1>13 DEF LoopStates

\* Room was asked for in r for a result or index with what it protects, and m is
\* the answer.
Roomy(r, m, new, prot, protIdx, excl) ==
  /\ RepoInv(m.r) /\ Shrunk(r, m.r) /\ m.fuel \in Int /\ m.thrown \in BOOLEAN
  /\ Held(r, prot) \subseteq DOMAIN m.r.canon
  /\ HeldIdx(r, prot, protIdx) \subseteq DOMAIN m.r.index
  /\ ~m.thrown /\ m.ok => Fits(m.r, HardMax, new, excl)

LEMMA HardRoom ==
  ASSUME NEW r, RepoInv(r), NEW fuel \in Int, NEW new, NEW prot, NEW protIdx, NEW key,
         NEW excl, NEW m, m = make_hard_room(r, fuel, new, prot, protIdx, key, excl)
  PROVE  Roomy(r, m, new, prot, protIdx, excl)
<1>1. PICK keep : keep = IF FullStream(key) THEN <<key>> ELSE <<>>
  OBVIOUS
<1>2. PICK a : a = evict_to_budget(r, fuel, HardMax, new, prot, protIdx, keep, excl)
  OBVIOUS
<1>3. PICK b : b = ReleaseMetadata(a, HardMax, new, excl)
  OBVIOUS
<1>4. m = Room(b, new, excl)
  BY <1>1, <1>2, <1>3 DEF make_hard_room
<1>5. a \in LoopStates(r, Held(r, prot), HeldIdx(r, prot, protIdx))
  BY <1>2, EvictsToBudget
<1>6. /\ a \in [r : Repos, fuel : Int, thrown : BOOLEAN] /\ RepoInv(a.r) /\ Shrunk(r, a.r)
      /\ Held(r, prot) \subseteq DOMAIN a.r.canon
      /\ HeldIdx(r, prot, protIdx) \subseteq DOMAIN a.r.index
  BY <1>5 DEF LoopStates
<1>7. a \in LoopStates(a.r, {}, {})
  <2>1. Shrunk(a.r, a.r)
    BY <1>6, ShrunkSelf
  <2> QED
    BY <1>6, <2>1 DEF LoopStates
<1>8. b \in LoopStates(a.r, DOMAIN a.r.canon, DOMAIN a.r.index)
  BY <1>3, <1>7, ReleasesMetadata
<1>9. /\ b \in [r : Repos, fuel : Int, thrown : BOOLEAN] /\ RepoInv(b.r) /\ Shrunk(a.r, b.r)
      /\ DOMAIN a.r.canon \subseteq DOMAIN b.r.canon
      /\ DOMAIN a.r.index \subseteq DOMAIN b.r.index
  BY <1>8 DEF LoopStates
<1>10. Shrunk(r, b.r)
  BY <1>6, <1>9, ShrunkTwice
<1>11. /\ m.r = b.r /\ m.fuel = b.fuel /\ m.thrown = b.thrown
       /\ m.ok => Fits(m.r, HardMax, new, excl)
  <2>1. PICK ok : ok = (~b.thrown /\ Fits(b.r, HardMax, new, excl))
    OBVIOUS
  <2>2. ok => Fits(b.r, HardMax, new, excl)
    BY <2>1, Zenon
  <2>3. m = [r |-> b.r, fuel |-> b.fuel, thrown |-> b.thrown, ok |-> ok]
    BY <1>4, <2>1, Zenon DEF Room
  <2>4. m.r = b.r /\ m.fuel = b.fuel /\ m.thrown = b.thrown /\ m.ok = ok
    BY <2>3
  <2> QED
    BY <2>2, <2>4, Zenon
<1> QED
  BY <1>6, <1>9, <1>10, <1>11 DEF Roomy

LEMMA SoftBudget ==
  ASSUME NEW r, RepoInv(r), NEW fuel \in Int, NEW prot, NEW protIdx,
         NEW m, m = enforce_soft_budget(r, fuel, prot, protIdx)
  PROVE  RepoInv(m.r) /\ Shrunk(r, m.r) /\ m.thrown \in BOOLEAN
<1>1. CASE SoftMax = 0
  <2>1. m.r = r /\ m.thrown = FALSE
    BY <1>1 DEF enforce_soft_budget, Loop
  <2> QED
    BY <2>1, ShrunkSelf
<1>2. CASE SoftMax # 0
  <2>1. PICK limit : limit = SoftMax + charge(r.stats.metadata)
    OBVIOUS
  <2>2. m = evict_to_budget(r, fuel, limit, 0, prot, protIdx, <<>>, <<>>)
    BY <1>2, <2>1 DEF enforce_soft_budget
  <2>3. m \in LoopStates(r, Held(r, prot), HeldIdx(r, prot, protIdx))
    BY <2>2, EvictsToBudget
  <2> QED
    BY <2>3 DEF LoopStates
<1> QED
  BY <1>1, <1>2

(***************************************************************************)
(* The hard budget.                                                        *)
(***************************************************************************)
Within(s) == charge(s.resident) + charge(s.build) <= HardMax

\* What the steps of the analyzers keep: the invariant, the hard budget, and no
\* cursor that was not there.
Outcome(r, q) == RepoInv(q) /\ Within(q.stats) /\ Part(r.cursor, q.cursor)

LEMMA StatsNat ==
  ASSUME NEW r, RepoInv(r)
  PROVE  /\ r.stats.resident \in Nat /\ r.stats.build \in Nat /\ r.stats.metadata \in Nat
         /\ charge(r.stats.resident) \in Nat /\ charge(r.stats.build) \in Nat
         /\ charge(r.stats.metadata) \in Nat
         /\ r.stats.charged = charge(r.stats.resident) + charge(r.stats.build)
                                + charge(r.stats.metadata)
         /\ r.stats \in Stats /\ Record(r) /\ Charged(r.stats) /\ Described(r.stats)
<1>1. r.stats \in Stats /\ Record(r) /\ Charged(r.stats) /\ Described(r.stats)
  BY DEF RepoInv, Typed
<1>2. /\ r.stats.resident \in Nat /\ r.stats.build \in Nat /\ r.stats.metadata \in Nat
  BY <1>1 DEF Stats
<1> QED
  BY <1>1, <1>2, ChargeAdd DEF Charged

LEMMA ChargeMonotone ==
  ASSUME NEW a \in Nat, NEW b \in Nat, a <= b
  PROVE  charge(a) <= charge(b) /\ charge(a) \in Nat /\ charge(b) \in Nat
BY ChargeLess

LEMMA LighterWithin ==
  ASSUME NEW r, RepoInv(r), NEW q, RepoInv(q), Within(r.stats),
         q.stats.resident <= r.stats.resident, q.stats.build <= r.stats.build
  PROVE  Within(q.stats)
<1>1. charge(q.stats.resident) <= charge(r.stats.resident)
  BY StatsNat, ChargeMonotone
<1>2. charge(q.stats.build) <= charge(r.stats.build)
  BY StatsNat, ChargeMonotone
<1>3. charge(r.stats.resident) + charge(r.stats.build) <= HardMax
  BY DEF Within
<1>4. HardMax \in Nat
  BY BudgetAssumption DEF ConfigAccepted
<1>5. /\ charge(q.stats.resident) \in Nat /\ charge(q.stats.build) \in Nat
      /\ charge(r.stats.resident) \in Nat /\ charge(r.stats.build) \in Nat
  BY StatsNat
<1> QED
  BY <1>1, <1>2, <1>3, <1>4, <1>5 DEF Within

LEMMA ShrunkOutcome ==
  ASSUME NEW r, RepoInv(r), Within(r.stats), NEW q, RepoInv(q), Shrunk(r, q)
  PROVE  Outcome(r, q)
<1>1. /\ q.stats.resident <= r.stats.resident /\ q.stats.build <= r.stats.build
      /\ Part(r.cursor, q.cursor)
  BY DEF Shrunk
<1> QED
  BY <1>1, LighterWithin DEF Outcome

LEMMA PartTwice ==
  ASSUME NEW f, NEW g, NEW h, Part(f, g), Part(g, h)
  PROVE  Part(f, h)
BY DEF Part

\* What fits the hard budget with nothing excluded fits beside the objects.
LEMMA FitsObjects ==
  ASSUME NEW r, RepoInv(r), NEW new \in Nat, Fits(r, HardMax, new, <<>>)
  PROVE  charge(r.stats.resident) + charge(r.stats.build) + new <= HardMax
<1>1. BytesOf(r.canon, {}, "res") = 0 /\ BytesOf(r.canon, {}, "bld") = 0
      /\ BytesOf(r.index, {}, "res") = 0 /\ BytesOf(r.index, {}, "bld") = 0
  BY BytesNone
<1>2. current_charged_bytes(r, <<>>) = Less(r.stats.charged, charge(0 + 0 + 0 + 0))
  <2>1. {k \in DOMAIN r.canon : <<>> # <<>> /\ is_stream_sibling_range(k, <<>>[1])} = {}
    OBVIOUS
  <2>2. {i \in DOMAIN r.index : <<>> # <<>> /\ is_stream_sibling_range(i[1], <<>>[1])} = {}
    OBVIOUS
  <2> QED
    BY <1>1, <2>1, <2>2 DEF current_charged_bytes
<1>3. charge(0 + 0 + 0 + 0) = 0
  BY ChargeZero
<1>4. r.stats.charged \in Nat
  BY StatsNat
<1>5. current_charged_bytes(r, <<>>) = r.stats.charged
  BY <1>2, <1>3, <1>4 DEF Less
<1>6. r.stats.charged + new <= HardMax
  BY <1>5 DEF Fits
<1>7. HardMax \in Nat
  BY BudgetAssumption DEF ConfigAccepted
<1>8. /\ charge(r.stats.resident) \in Nat /\ charge(r.stats.build) \in Nat
      /\ charge(r.stats.metadata) \in Nat
      /\ r.stats.charged = charge(r.stats.resident) + charge(r.stats.build)
                                + charge(r.stats.metadata)
  BY StatsNat
<1>9. PICK a \in Nat : a = charge(r.stats.resident)
  BY <1>8
<1>10. PICK b \in Nat : b = charge(r.stats.build)
  BY <1>8
<1>11. PICK c \in Nat : c = charge(r.stats.metadata)
  BY <1>8
<1>12. a + b + c + new <= HardMax
  BY <1>6, <1>8, <1>9, <1>10, <1>11
<1>13. a + b + new <= HardMax
  BY <1>7, <1>12
<1> QED
  BY <1>9, <1>10, <1>13

LEMMA TotalPart ==
  ASSUME NEW f, NEW g, NEW K, NEW V, MapOf(f, K, V), MapOf(g, K, V), Part(f, g),
         NEW S \in SUBSET DOMAIN f, DOMAIN g = DOMAIN f \ S,
         NEW field, Measured(f, field)
  PROVE  /\ Total(g, field) = Total(f, field) - BytesOf(f, S, field)
         /\ BytesOf(f, S, field) \in Nat /\ BytesOf(f, S, field) <= Total(f, field)
         /\ Total(f, field) \in Nat /\ Total(g, field) \in Nat
<1>1. PICK h : h = Without(f, S)
  OBVIOUS
<1>2. h = g
  <2>1. DOMAIN h = DOMAIN g /\ \A x \in DOMAIN g : h[x] = g[x]
    BY <1>1 DEF Without, Part
  <2>2. h = [x \in DOMAIN h |-> h[x]]
    BY <1>1 DEF Without
  <2>3. g = [x \in DOMAIN g |-> g[x]]
    BY DEF MapOf
  <2> QED
    BY <2>1, <2>2, <2>3
<1> QED
  BY <1>1, <1>2, TotalWithout

\* What fits the hard budget when the ranges of a full stream are not counted
\* fits once they are erased.
LEMMA FitsWithoutRanges ==
  ASSUME NEW r, RepoInv(r), NEW new \in Nat, NEW full, Fits(r, HardMax, new, <<full>>),
         NEW q, ErasedAll(r, sibling_ranges(r, full), q)
  PROVE  charge(q.stats.resident) + charge(q.stats.build) + new <= HardMax
<1>1. PICK S : S = sibling_ranges(r, full)
  OBVIOUS
<1>2. PICK J : J = {i \in DOMAIN r.index : is_stream_sibling_range(i[1], full)}
  OBVIOUS
<1>3. /\ RepoInv(q) /\ Part(r.canon, q.canon) /\ Part(r.index, q.index)
      /\ DOMAIN q.canon = DOMAIN r.canon \ S
      /\ DOMAIN q.index = {i \in DOMAIN r.index : i[1] \notin S}
  BY <1>1 DEF ErasedAll, Shrunk
<1>4. DOMAIN q.index = DOMAIN r.index \ J
  <2>1. \A i \in DOMAIN r.index : i[1] \in DOMAIN r.canon
    BY DEF RepoInv, Linked
  <2>2. \A i \in DOMAIN r.index : i[1] \in S <=> i \in J
    BY <1>1, <1>2, <2>1 DEF sibling_ranges
  <2> QED
    BY <1>3, <2>2
<1>5. S \in SUBSET DOMAIN r.canon /\ J \in SUBSET DOMAIN r.index
  BY <1>1, <1>2 DEF sibling_ranges
<1>6. /\ MapOf(r.canon, CacheKeys, Entries) /\ MapOf(r.index, IndexKeys, IndexEntries)
      /\ Measured(r.canon, "res") /\ Measured(r.canon, "bld")
      /\ Measured(r.index, "res") /\ Measured(r.index, "bld")
      /\ r.stats.resident = Total(r.canon, "res") + Total(r.index, "res")
      /\ r.stats.build = Total(r.canon, "bld") + Total(r.index, "bld")
  BY ObjectFacts
<1>7. /\ MapOf(q.canon, CacheKeys, Entries) /\ MapOf(q.index, IndexKeys, IndexEntries)
      /\ q.stats.resident = Total(q.canon, "res") + Total(q.index, "res")
      /\ q.stats.build = Total(q.canon, "bld") + Total(q.index, "bld")
  BY <1>3, ObjectFacts
<1>8. PICK a : a = BytesOf(r.canon, S, "res")
  OBVIOUS
<1>9. PICK b : b = BytesOf(r.canon, S, "bld")
  OBVIOUS
<1>10. PICK c : c = BytesOf(r.index, J, "res")
  OBVIOUS
<1>11. PICK d : d = BytesOf(r.index, J, "bld")
  OBVIOUS
<1>12. /\ Total(q.canon, "res") = Total(r.canon, "res") - a
       /\ a \in Nat /\ a <= Total(r.canon, "res") /\ Total(r.canon, "res") \in Nat
  BY <1>3, <1>5, <1>6, <1>7, <1>8, TotalPart
<1>13. /\ Total(q.canon, "bld") = Total(r.canon, "bld") - b
       /\ b \in Nat /\ b <= Total(r.canon, "bld") /\ Total(r.canon, "bld") \in Nat
  BY <1>3, <1>5, <1>6, <1>7, <1>9, TotalPart
<1>14. /\ Total(q.index, "res") = Total(r.index, "res") - c
       /\ c \in Nat /\ c <= Total(r.index, "res") /\ Total(r.index, "res") \in Nat
  BY <1>3, <1>4, <1>5, <1>6, <1>7, <1>10, TotalPart
<1>15. /\ Total(q.index, "bld") = Total(r.index, "bld") - d
       /\ d \in Nat /\ d <= Total(r.index, "bld") /\ Total(r.index, "bld") \in Nat
  BY <1>3, <1>4, <1>5, <1>6, <1>7, <1>11, TotalPart
<1>16. PICK x \in Nat : x = q.stats.resident
  BY <1>3, StatsNat
<1>17. PICK y \in Nat : y = q.stats.build
  BY <1>3, StatsNat
<1>18. PICK w \in Nat : w = r.stats.metadata
  BY StatsNat
<1>19. r.stats.resident = x + (a + c) /\ r.stats.build = y + (b + d)
  <2>1. r.stats.resident = x + (a + c)
    BY <1>6, <1>7, <1>12, <1>14, <1>16
  <2>2. r.stats.build = y + (b + d)
    BY <1>6, <1>7, <1>13, <1>15, <1>17
  <2> QED
    BY <2>1, <2>2
<1>20. PICK e \in Nat : e = a + b + c + d
  BY <1>12, <1>13, <1>14, <1>15
<1>21. charge(r.stats.resident) + charge(r.stats.build) = charge(x) + charge(y) + charge(e)
  <2>1. PICK ac \in Nat : ac = a + c
    BY <1>12, <1>14
  <2>2. PICK bd \in Nat : bd = b + d
    BY <1>13, <1>15
  <2>3. e = ac + bd
    BY <1>12, <1>13, <1>14, <1>15, <1>20, <2>1, <2>2
  <2>4. charge(x + ac) = charge(x) + charge(ac) /\ charge(x) \in Nat /\ charge(ac) \in Nat
    BY ChargeAdd
  <2>5. charge(y + bd) = charge(y) + charge(bd) /\ charge(y) \in Nat /\ charge(bd) \in Nat
    BY ChargeAdd
  <2>6. charge(ac + bd) = charge(ac) + charge(bd)
    BY ChargeAdd
  <2> QED
    BY <1>19, <2>1, <2>2, <2>3, <2>4, <2>5, <2>6
<1>22. current_charged_bytes(r, <<full>>) = Less(r.stats.charged, charge(e))
  <2>1. {k \in DOMAIN r.canon : /\ <<full>> # <<>>
                                /\ is_stream_sibling_range(k, <<full>>[1])} = S
    BY <1>1 DEF sibling_ranges
  <2>2. {i \in DOMAIN r.index : /\ <<full>> # <<>>
                                /\ is_stream_sibling_range(i[1], <<full>>[1])} = J
    BY <1>2
  <2> QED
    BY <1>8, <1>9, <1>10, <1>11, <1>20, <2>1, <2>2 DEF current_charged_bytes
<1>23. charge(x) \in Nat /\ charge(y) \in Nat /\ charge(e) \in Nat /\ charge(w) \in Nat
  BY ChargeAdd
<1>24. r.stats.charged = charge(x) + charge(y) + charge(e) + charge(w)
  BY <1>18, <1>21, <1>23, StatsNat
<1>25. HardMax \in Nat
  BY BudgetAssumption DEF ConfigAccepted
<1>26. PICK cx \in Nat : cx = charge(x)
  BY <1>23
<1>27. PICK cy \in Nat : cy = charge(y)
  BY <1>23
<1>28. PICK ce \in Nat : ce = charge(e)
  BY <1>23
<1>29. PICK cw \in Nat : cw = charge(w)
  BY <1>23
<1>30. Less(r.stats.charged, ce) = cx + cy + cw
  <2>1. r.stats.charged = cx + cy + ce + cw
    BY <1>24, <1>26, <1>27, <1>28, <1>29
  <2> QED
    BY <2>1 DEF Less
<1>31. (cx + cy + cw) + new <= HardMax
  BY <1>22, <1>28, <1>30 DEF Fits
<1>32. cx + cy + new <= HardMax
  BY <1>25, <1>31
<1> QED
  BY <1>16, <1>17, <1>26, <1>27, <1>32

(***************************************************************************)
(* An object that is put in, or that changes while it is being built.      *)
(***************************************************************************)
\* h is f with the entry of x added, or changed while it was being built.
Puts(f, h, x) ==
  /\ DOMAIN h = DOMAIN f \cup {x}
  /\ \A y \in DOMAIN f : y # x => h[y] = f[y]
  /\ x \in DOMAIN f => f[x].st = "building" /\ f[x].res = 0

Old(f, x) == IF x \in DOMAIN f THEN f[x].bld ELSE 0
One(e) == IF e.st = "ready" THEN 1 ELSE 0

LEMMA EntryTotals ==
  ASSUME NEW f, NEW h, NEW K, NEW x,
         \/ MapOf(f, K, Entries) /\ MapOf(h, K, Entries)
         \/ MapOf(f, K, IndexEntries) /\ MapOf(h, K, IndexEntries),
         Puts(f, h, x)
  PROVE  /\ Total(h, "res") = Total(f, "res") + h[x].res
         /\ Total(h, "bld") = Total(f, "bld") - Old(f, x) + h[x].bld
         /\ Ready(h) = Ready(f) + One(h[x])
         /\ Total(f, "res") \in Nat /\ Total(f, "bld") \in Nat /\ Ready(f) \in Nat
         /\ h[x].res \in Nat /\ h[x].bld \in Nat /\ Old(f, x) \in Nat
         /\ Old(f, x) <= Total(f, "bld")
<1>1. /\ Measured(f, "res") /\ Measured(f, "bld") /\ IsFiniteSet(DOMAIN f)
      /\ Measured(h, "res") /\ Measured(h, "bld")
  BY EntriesMeasured
<1>2. /\ x \in DOMAIN h /\ DOMAIN h = DOMAIN f \cup {x}
      /\ \A y \in DOMAIN f : y # x => h[y] = f[y]
      /\ x \in DOMAIN f => f[x].st # "ready" /\ f[x].res = 0
  BY DEF Puts
<1>3. /\ SameBut(f, h, x, "res") /\ SameBut(f, h, x, "bld")
      /\ \A y \in DOMAIN f : y # x => h[y].st = f[y].st
  BY <1>2 DEF SameBut
<1>4. /\ Total(h, "res") = Total(f, "res") - Was(f, x, "res") + h[x]["res"]
      /\ Total(f, "res") \in Nat /\ h[x]["res"] \in Nat
  BY <1>1, <1>3, TotalChange
<1>5. /\ Total(h, "bld") = Total(f, "bld") - Was(f, x, "bld") + h[x]["bld"]
      /\ Total(f, "bld") \in Nat /\ h[x]["bld"] \in Nat
      /\ Was(f, x, "bld") \in Nat /\ Was(f, x, "bld") <= Total(f, "bld")
  BY <1>1, <1>3, TotalChange
<1>6. /\ Ready(h) = Ready(f) + (IF h[x].st = "ready" /\ ~(x \in DOMAIN f /\ f[x].st = "ready")
                                THEN 1 ELSE 0)
      /\ Ready(f) \in Nat
  BY <1>1, <1>2, <1>3, ReadyChange
<1>7. Total(h, "res") = Total(f, "res") + h[x].res /\ h[x].res \in Nat
  <2>1. Was(f, x, "res") = 0
    BY <1>2 DEF Was
  <2> QED
    BY <1>4, <2>1
<1>8. Total(h, "bld") = Total(f, "bld") - Old(f, x) + h[x].bld /\ h[x].bld \in Nat
  BY <1>5 DEF Old, Was
<1>9. Old(f, x) \in Nat /\ Old(f, x) <= Total(f, "bld")
  BY <1>5 DEF Old, Was
<1>10. Ready(h) = Ready(f) + One(h[x])
  BY <1>2, <1>6 DEF One
<1> QED
  BY <1>4, <1>5, <1>6, <1>7, <1>8, <1>9, <1>10

\* q is r with the result of k put in: its counters and what else may change.
PutCanonical(r, q, k) ==
  /\ Record(q) /\ q.stats \in Stats /\ Charged(q.stats)
  /\ MapOf(q.canon, CacheKeys, Entries) /\ Puts(r.canon, q.canon, k)
  /\ q.lru \in Seq(CacheKeys)
  /\ MapOf(q.gens, CacheKeys, Nat) /\ DOMAIN q.gens = DOMAIN r.gens /\ k \in DOMAIN r.gens
  /\ \A y \in DOMAIN r.gens : y # k => q.gens[y] = r.gens[y]
  /\ q.gens[k] = q.canon[k].gen /\ r.gens[k] <= q.gens[k]
  /\ q.canon[k].st = "building" => q.canon[k].res = 0
  /\ q.index = r.index /\ q.ilru = r.ilru /\ q.tlru = r.tlru /\ q.cursor = r.cursor
  /\ q.clru = r.clru /\ q.binding = r.binding
  /\ q.stats.resident = r.stats.resident + q.canon[k].res
  /\ q.stats.build = r.stats.build - Old(r.canon, k) + q.canon[k].bld
  /\ q.stats.canonicals = r.stats.canonicals + One(q.canon[k])
  /\ q.stats.metadata = r.stats.metadata /\ q.stats.indexes = r.stats.indexes
  /\ q.stats.generations = r.stats.generations /\ q.stats.tombstones = r.stats.tombstones
  /\ q.stats.cursors = r.stats.cursors /\ q.stats.bindings = r.stats.bindings

LEMMA CanonicalPut ==
  ASSUME NEW r, RepoInv(r), NEW q, NEW k, PutCanonical(r, q, k)
  PROVE  RepoInv(q)
<1>1. Typed(q)
  BY DEF RepoInv, Typed, PutCanonical
<1>2. \A i \in DOMAIN r.index : i[1] # k
  BY DEF RepoInv, Linked, PutCanonical, Puts
<1>3. Linked(q)
  <2>1. ASSUME NEW y \in DOMAIN q.canon
        PROVE  y \in DOMAIN q.gens /\ q.canon[y].gen = q.gens[y]
    <3>1. CASE y = k
      BY <3>1 DEF PutCanonical
    <3>2. CASE y # k
      <4>1. y \in DOMAIN r.canon /\ q.canon[y] = r.canon[y]
        BY <2>1, <3>2 DEF PutCanonical, Puts
      <4>2. y \in DOMAIN r.gens /\ r.canon[y].gen = r.gens[y]
        BY <4>1 DEF RepoInv, Linked
      <4> QED
        BY <3>2, <4>1, <4>2 DEF PutCanonical
    <3> QED
      BY <3>1, <3>2
  <2>2. ASSUME NEW c \in DOMAIN q.cursor
        PROVE  q.cursor[c].key \in DOMAIN q.gens /\ q.cursor[c].gen <= q.gens[q.cursor[c].key]
    <3>1. /\ c \in DOMAIN r.cursor /\ q.cursor[c] = r.cursor[c]
          /\ r.cursor[c].key \in DOMAIN r.gens /\ r.cursor[c].gen <= r.gens[r.cursor[c].key]
      BY <2>2 DEF PutCanonical, RepoInv, Linked
    <3>2. /\ r.cursor[c].gen \in Nat
          /\ \A y \in DOMAIN r.gens : r.gens[y] \in Nat /\ q.gens[y] \in Nat
      BY <3>1 DEF RepoInv, Typed, PutCanonical, MapOf, Cursors
    <3>3. DOMAIN q.gens = DOMAIN r.gens
      BY DEF PutCanonical
    <3>4. \A y \in DOMAIN r.gens : r.gens[y] <= q.gens[y]
      BY <3>2 DEF PutCanonical
    <3> QED
      BY <3>1, <3>2, <3>3, <3>4
  <2>3. ASSUME NEW i \in DOMAIN q.index
        PROVE  /\ i[1] \in DOMAIN q.canon /\ q.canon[i[1]].st = "ready"
               /\ q.canon[i[1]].gen = i[2]
    <3>1. i \in DOMAIN r.index /\ i[1] # k
      BY <1>2, <2>3 DEF PutCanonical
    <3>2. i[1] \in DOMAIN r.canon /\ r.canon[i[1]].st = "ready" /\ r.canon[i[1]].gen = i[2]
      BY <3>1 DEF RepoInv, Linked
    <3> QED
      BY <3>1, <3>2 DEF PutCanonical, Puts
  <2> QED
    BY <2>1, <2>2, <2>3 DEF Linked
<1>4. NotYetResident(q)
  BY DEF RepoInv, NotYetResident, PutCanonical, Puts
<1>5. Described(q.stats)
  <2>1. Described(r.stats)
    BY DEF RepoInv
  <2> QED
    BY <2>1 DEF Described, PutCanonical
<1>6. Tallied(q)
  <2>1. PICK f : f = r.canon
    OBVIOUS
  <2>2. PICK h : h = q.canon
    OBVIOUS
  <2>3. /\ MapOf(f, CacheKeys, Entries) /\ MapOf(h, CacheKeys, Entries) /\ Puts(f, h, k)
    BY <2>1, <2>2, ObjectFacts DEF PutCanonical
  <2>4. /\ Total(h, "res") = Total(f, "res") + h[k].res
        /\ Total(h, "bld") = Total(f, "bld") - Old(f, k) + h[k].bld
        /\ Ready(h) = Ready(f) + One(h[k])
        /\ Total(f, "res") \in Nat /\ Total(f, "bld") \in Nat /\ Ready(f) \in Nat
        /\ h[k].res \in Nat /\ h[k].bld \in Nat /\ Old(f, k) \in Nat
        /\ Old(f, k) <= Total(f, "bld")
    BY <2>3, EntryTotals
  <2>5. /\ r.stats.resident = Total(f, "res") + Total(r.index, "res")
        /\ r.stats.build = Total(f, "bld") + Total(r.index, "bld")
        /\ r.stats.canonicals = Ready(f) /\ r.stats.indexes = Ready(r.index)
        /\ Total(r.index, "res") \in Nat /\ Total(r.index, "bld") \in Nat
    BY <2>1, ObjectFacts
  <2>6. /\ r.stats.generations = Cardinality(DOMAIN r.gens)
        /\ r.stats.tombstones = Len(r.tlru)
        /\ r.stats.cursors = Cardinality(DOMAIN r.cursor)
        /\ r.stats.bindings = Cardinality(DOMAIN r.binding)
    BY DEF RepoInv, Tallied
  <2>7. /\ q.stats.resident = r.stats.resident + h[k].res
        /\ q.stats.build = r.stats.build - Old(f, k) + h[k].bld
        /\ q.stats.canonicals = r.stats.canonicals + One(h[k])
        /\ q.index = r.index
    BY <2>1, <2>2 DEF PutCanonical
  <2>8. q.stats.resident = Total(h, "res") + Total(q.index, "res")
    BY <2>4, <2>5, <2>7
  <2>9. q.stats.build = Total(h, "bld") + Total(q.index, "bld")
    BY <2>4, <2>5, <2>7
  <2>10. q.stats.canonicals = Ready(h) /\ q.stats.indexes = Ready(q.index)
    BY <2>4, <2>5, <2>7 DEF PutCanonical
  <2>11. /\ q.stats.generations = Cardinality(DOMAIN q.gens)
         /\ q.stats.tombstones = Len(q.tlru)
         /\ q.stats.cursors = Cardinality(DOMAIN q.cursor)
         /\ q.stats.bindings = Cardinality(DOMAIN q.binding)
    BY <2>6 DEF PutCanonical
  <2> QED
    BY <2>2, <2>8, <2>9, <2>10, <2>11 DEF Tallied
<1> QED
  BY <1>1, <1>3, <1>4, <1>5, <1>6 DEF RepoInv, PutCanonical

\* q is r with the index i put in, on a result of its generation.
PutIndex(r, q, i) ==
  /\ Record(q) /\ q.stats \in Stats /\ Charged(q.stats)
  /\ MapOf(q.index, IndexKeys, IndexEntries) /\ Puts(r.index, q.index, i)
  /\ i[1] \in DOMAIN r.canon /\ r.canon[i[1]].st = "ready" /\ r.canon[i[1]].gen = i[2]
  /\ q.lru \in Seq(CacheKeys) /\ q.ilru \in Seq(IndexKeys)
  /\ q.index[i].st = "building" => q.index[i].res = 0
  /\ q.canon = r.canon /\ q.gens = r.gens /\ q.tlru = r.tlru /\ q.cursor = r.cursor
  /\ q.clru = r.clru /\ q.binding = r.binding
  /\ q.stats.resident = r.stats.resident + q.index[i].res
  /\ q.stats.build = r.stats.build - Old(r.index, i) + q.index[i].bld
  /\ q.stats.indexes = r.stats.indexes + One(q.index[i])
  /\ q.stats.metadata = r.stats.metadata /\ q.stats.canonicals = r.stats.canonicals
  /\ q.stats.generations = r.stats.generations /\ q.stats.tombstones = r.stats.tombstones
  /\ q.stats.cursors = r.stats.cursors /\ q.stats.bindings = r.stats.bindings

LEMMA IndexPut ==
  ASSUME NEW r, RepoInv(r), NEW q, NEW i, PutIndex(r, q, i)
  PROVE  RepoInv(q)
<1>1. Typed(q)
  BY DEF RepoInv, Typed, PutIndex
<1>2. Linked(q)
  BY DEF RepoInv, Linked, PutIndex, Puts
<1>3. NotYetResident(q)
  BY DEF RepoInv, NotYetResident, PutIndex, Puts
<1>4. Described(q.stats)
  <2>1. Described(r.stats)
    BY DEF RepoInv
  <2> QED
    BY <2>1 DEF Described, PutIndex
<1>5. Tallied(q)
  <2>1. PICK f : f = r.index
    OBVIOUS
  <2>2. PICK h : h = q.index
    OBVIOUS
  <2>3. /\ MapOf(f, IndexKeys, IndexEntries) /\ MapOf(h, IndexKeys, IndexEntries)
        /\ Puts(f, h, i)
    BY <2>1, <2>2, ObjectFacts DEF PutIndex
  <2>4. /\ Total(h, "res") = Total(f, "res") + h[i].res
        /\ Total(h, "bld") = Total(f, "bld") - Old(f, i) + h[i].bld
        /\ Ready(h) = Ready(f) + One(h[i])
        /\ Total(f, "res") \in Nat /\ Total(f, "bld") \in Nat /\ Ready(f) \in Nat
        /\ h[i].res \in Nat /\ h[i].bld \in Nat /\ Old(f, i) \in Nat
        /\ Old(f, i) <= Total(f, "bld")
    BY <2>3, EntryTotals
  <2>5. /\ r.stats.resident = Total(r.canon, "res") + Total(f, "res")
        /\ r.stats.build = Total(r.canon, "bld") + Total(f, "bld")
        /\ r.stats.indexes = Ready(f) /\ r.stats.canonicals = Ready(r.canon)
        /\ Total(r.canon, "res") \in Nat /\ Total(r.canon, "bld") \in Nat
    BY <2>1, ObjectFacts
  <2>6. /\ r.stats.generations = Cardinality(DOMAIN r.gens)
        /\ r.stats.tombstones = Len(r.tlru)
        /\ r.stats.cursors = Cardinality(DOMAIN r.cursor)
        /\ r.stats.bindings = Cardinality(DOMAIN r.binding)
    BY DEF RepoInv, Tallied
  <2>7. /\ q.stats.resident = r.stats.resident + h[i].res
        /\ q.stats.build = r.stats.build - Old(f, i) + h[i].bld
        /\ q.stats.indexes = r.stats.indexes + One(h[i])
        /\ q.canon = r.canon
    BY <2>1, <2>2 DEF PutIndex
  <2>8. q.stats.resident = Total(q.canon, "res") + Total(h, "res")
    BY <2>4, <2>5, <2>7
  <2>9. q.stats.build = Total(q.canon, "bld") + Total(h, "bld")
    BY <2>4, <2>5, <2>7
  <2>10. q.stats.indexes = Ready(h) /\ q.stats.canonicals = Ready(q.canon)
    BY <2>4, <2>5, <2>7 DEF PutIndex
  <2>11. /\ q.stats.generations = Cardinality(DOMAIN q.gens)
         /\ q.stats.tombstones = Len(q.tlru)
         /\ q.stats.cursors = Cardinality(DOMAIN q.cursor)
         /\ q.stats.bindings = Cardinality(DOMAIN q.binding)
    BY <2>6 DEF PutIndex
  <2> QED
    BY <2>2, <2>8, <2>9, <2>10, <2>11 DEF Tallied
<1> QED
  BY <1>1, <1>2, <1>3, <1>4, <1>5 DEF RepoInv, PutIndex

\* q is r with its keys in another order of their last access.
Reordered(r, q) ==
  /\ Record(q)
  /\ q.canon = r.canon /\ q.index = r.index /\ q.gens = r.gens /\ q.tlru = r.tlru
  /\ q.cursor = r.cursor /\ q.binding = r.binding /\ q.stats = r.stats
  /\ q.lru \in Seq(CacheKeys) /\ q.ilru \in Seq(IndexKeys) /\ q.clru \in Seq(Name)

LEMMA Reordering ==
  ASSUME NEW r, RepoInv(r), NEW q, Reordered(r, q)
  PROVE  RepoInv(q) /\ Shrunk(r, q)
<1>1. Typed(q)
  BY DEF RepoInv, Typed, Reordered
<1>2. Linked(q) /\ NotYetResident(q)
  BY DEF RepoInv, Linked, NotYetResident, Reordered
<1>3. Charged(q.stats) /\ Described(q.stats)
  BY DEF RepoInv, Reordered
<1>4. Tallied(q)
  BY DEF RepoInv, Tallied, Reordered
<1>5. Shrunk(r, q)
  <2>1. Shrunk(r, r)
    BY ShrunkSelf
  <2> QED
    BY <2>1 DEF Shrunk, Reordered
<1> QED
  BY <1>1, <1>2, <1>3, <1>4, <1>5 DEF RepoInv

(***************************************************************************)
(* The methods on results.                                                 *)
(***************************************************************************)
\* q is r with a generation for k.
MoreGenerations(r, k, q) ==
  /\ Record(q) /\ MapOf(q.gens, CacheKeys, Nat)
  /\ DOMAIN q.gens = DOMAIN r.gens \cup {k}
  /\ \A y \in DOMAIN r.gens : q.gens[y] = r.gens[y]
  /\ q.canon = r.canon /\ q.lru = r.lru /\ q.index = r.index /\ q.ilru = r.ilru
  /\ q.tlru = r.tlru /\ q.cursor = r.cursor /\ q.clru = r.clru /\ q.binding = r.binding
  /\ q.stats.resident = r.stats.resident /\ q.stats.build = r.stats.build

LEMMA AddGeneration ==
  ASSUME NEW r, RepoInv(r), NEW k \in CacheKeys, NEW q, q = add_generation(r, k)
  PROVE  /\ RepoInv(q) /\ MoreGenerations(r, k, q)
         /\ k \notin DOMAIN r.gens => q.gens[k] = 0
<1>0. /\ Record(r) /\ r.stats \in Stats /\ Charged(r.stats) /\ Described(r.stats)
      /\ MapOf(r.gens, CacheKeys, Nat)
  BY DEF RepoInv, Typed
<1>1. CASE k \in DOMAIN r.gens
  <2>1. q = r
    BY <1>1 DEF add_generation
  <2>2. DOMAIN r.gens = DOMAIN r.gens \cup {k}
    BY <1>1
  <2> QED
    BY <1>0, <1>1, <2>1, <2>2 DEF MoreGenerations
<1>2. CASE k \notin DOMAIN r.gens
  <2>1. PICK g : g = With(r.gens, k, 0)
    OBVIOUS
  <2>2. /\ MapOf(g, CacheKeys, Nat) /\ DOMAIN g = DOMAIN r.gens \cup {k} /\ g[k] = 0
        /\ \A y \in DOMAIN r.gens : y # k => g[y] = r.gens[y]
    BY <1>0, <2>1, WithMap
  <2>3. PICK r0 : r0 = [r EXCEPT !.gens = g]
    OBVIOUS
  <2>4. PICK r1 : r1 = add_bytes(r0, "metadata", KeyBytes)
    OBVIOUS
  <2>5. q = counted(r1, "generations", 1)
    BY <1>2, <2>1, <2>3, <2>4 DEF add_generation
  <2>6. /\ Record(r0) /\ r0.stats = r.stats /\ r0.gens = g
        /\ r0.canon = r.canon /\ r0.lru = r.lru /\ r0.index = r.index /\ r0.ilru = r.ilru
        /\ r0.tlru = r.tlru /\ r0.cursor = r.cursor /\ r0.clru = r.clru
        /\ r0.binding = r.binding
    BY <1>0, <2>3 DEF Record
  <2>7. SameMaps(r0, r1)
    BY <1>0, <2>4, <2>6, AddBytes, BudgetAssumption DEF ByteNames
  <2>8. Record(r1) /\ r1.stats = r1.stats
    BY <2>7 DEF SameMaps
  <2>9. /\ SameMaps(r1, q) /\ q.stats \in Stats /\ Charged(q.stats)
        /\ q.stats.generations = r0.stats.generations + 1
        /\ q.stats.resident = r0.stats.resident /\ q.stats.build = r0.stats.build
        /\ \A f \in CounterNames : f # "generations" => q.stats[f] = r0.stats[f]
        /\ Described(q.stats)
    BY <1>0, <2>4, <2>5, <2>6, <2>8, MoreMetadata
  <2>10. /\ q.stats.canonicals = r.stats.canonicals /\ q.stats.indexes = r.stats.indexes
         /\ q.stats.tombstones = r.stats.tombstones /\ q.stats.cursors = r.stats.cursors
         /\ q.stats.bindings = r.stats.bindings
         /\ q.stats.generations = r.stats.generations + 1
         /\ q.stats.resident = r.stats.resident /\ q.stats.build = r.stats.build
    BY <2>6, <2>9 DEF CounterNames
  <2>11. /\ Record(q) /\ q.gens = g
         /\ q.canon = r.canon /\ q.lru = r.lru /\ q.index = r.index /\ q.ilru = r.ilru
         /\ q.tlru = r.tlru /\ q.cursor = r.cursor /\ q.clru = r.clru
         /\ q.binding = r.binding
    BY <2>6, <2>7, <2>9 DEF SameMaps
  <2>12. Typed(q)
    BY <2>2, <2>9, <2>11 DEF RepoInv, Typed
  <2>13. Linked(q) /\ NotYetResident(q)
    BY <1>2, <2>2, <2>11 DEF RepoInv, Linked, NotYetResident
  <2>14. Tallied(q)
    <3>1. Cardinality(DOMAIN g) = Cardinality(DOMAIN r.gens) + 1
      BY <1>0, <1>2, <2>2, FS_AddElement DEF MapOf
    <3> QED
      BY <2>10, <2>11, <3>1 DEF RepoInv, Tallied
  <2>15. MoreGenerations(r, k, q)
    BY <1>2, <2>2, <2>10, <2>11 DEF MoreGenerations
  <2> QED
    BY <2>2, <2>9, <2>11, <2>12, <2>13, <2>14, <2>15 DEF RepoInv
<1> QED
  BY <1>1, <1>2

\* h is f with v at x.
Placed(f, h, x, v) ==
  /\ DOMAIN h = DOMAIN f \cup {x} /\ h[x] = v
  /\ \A y \in DOMAIN f : y # x => h[y] = f[y]

LEMMA PlaceMap ==
  ASSUME NEW f, NEW K, NEW V, MapOf(f, K, V), NEW x \in K, NEW v \in V,
         NEW h, h = With(f, x, v)
  PROVE  MapOf(h, K, V) /\ Placed(f, h, x, v)
<1>1. /\ DOMAIN h = DOMAIN f \cup {x} /\ h[x] = v
      /\ \A y \in DOMAIN f : y # x => h[y] = f[y]
  BY DEF With
<1>2. \A y \in DOMAIN h : h[y] \in V
  BY <1>1 DEF MapOf
<1>3. h = [y \in DOMAIN h |-> h[y]]
  BY DEF With
<1>4. IsFiniteSet(DOMAIN h)
  BY <1>1, FS_AddElement DEF MapOf
<1> QED
  BY <1>1, <1>2, <1>3, <1>4 DEF MapOf, Placed

\* The repository with the entry that begin_canonical makes.
started_canonical(r, k, bytes) ==
  LET g == IF k \in DOMAIN r.gens THEN r.gens[k] + 1 ELSE 1
      obj == [st |-> "building", gen |-> g, res |-> 0, bld |-> bytes]
  IN add_bytes([add_generation(r, k) EXCEPT !.gens[k] = g, !.canon = With(@, k, obj),
                                            !.lru = Touched(@, k)], "build", bytes)

\* There is room for that many bytes beside the objects of r.
RoomFor(r, bytes) == charge(r.stats.resident) + charge(r.stats.build) + bytes <= HardMax

LEMMA StartedCanonical ==
  ASSUME NEW r, RepoInv(r), NEW k \in CacheKeys, k \notin DOMAIN r.canon, NEW bytes \in Nat,
         RoomFor(r, charge(bytes)), NEW q, q = started_canonical(r, k, bytes)
  PROVE  Outcome(r, q)
<1>1. PICK q1 : q1 = add_generation(r, k)
  OBVIOUS
<1>2. /\ RepoInv(q1) /\ MoreGenerations(r, k, q1) /\ (k \notin DOMAIN r.gens => q1.gens[k] = 0)
  BY <1>1, AddGeneration
<1>3. /\ Record(q1) /\ MapOf(q1.gens, CacheKeys, Nat) /\ k \in DOMAIN q1.gens
      /\ q1.canon = r.canon /\ q1.cursor = r.cursor
      /\ q1.stats.resident = r.stats.resident /\ q1.stats.build = r.stats.build
      /\ DOMAIN q1.gens = DOMAIN r.gens \cup {k}
      /\ \A y \in DOMAIN r.gens : q1.gens[y] = r.gens[y]
  BY <1>2 DEF MoreGenerations
<1>4. /\ q1.stats \in Stats /\ Charged(q1.stats) /\ MapOf(q1.canon, CacheKeys, Entries)
      /\ q1.lru \in Seq(CacheKeys)
  BY <1>2 DEF RepoInv, Typed
<1>5. PICK g : g = IF k \in DOMAIN r.gens THEN r.gens[k] + 1 ELSE 1
  OBVIOUS
<1>6. g \in Nat /\ q1.gens[k] <= g
  <2>1. q1.gens[k] \in Nat
    BY <1>3 DEF MapOf
  <2>2. CASE k \in DOMAIN r.gens
    BY <1>3, <1>5, <2>1, <2>2
  <2>3. CASE k \notin DOMAIN r.gens
    BY <1>2, <1>5, <2>1, <2>3
  <2> QED
    BY <2>2, <2>3
<1>7. PICK obj : obj = [st |-> "building", gen |-> g, res |-> 0, bld |-> bytes]
  OBVIOUS
<1>8. /\ obj \in Entries /\ obj.gen = g /\ obj.st = "building" /\ obj.res = 0
      /\ obj.bld = bytes
  BY <1>6, <1>7 DEF Entries
<1>9. PICK c : c = With(q1.canon, k, obj)
  OBVIOUS
<1>10. /\ MapOf(c, CacheKeys, Entries) /\ DOMAIN c = DOMAIN r.canon \cup {k} /\ c[k] = obj
       /\ \A y \in DOMAIN r.canon : y # k => c[y] = r.canon[y]
  <2>1. obj \in Entries /\ MapOf(q1.canon, CacheKeys, Entries)
    BY <1>4, <1>8
  <2>2. /\ MapOf(c, CacheKeys, Entries) /\ DOMAIN c = DOMAIN q1.canon \cup {k} /\ c[k] = obj
        /\ \A y \in DOMAIN q1.canon : y # k => c[y] = q1.canon[y]
    <3>1. Placed(q1.canon, c, k, obj) /\ MapOf(c, CacheKeys, Entries)
      BY <1>9, <2>1, PlaceMap
    <3> QED
      BY <3>1 DEF Placed
  <2> QED
    BY <1>3, <2>2
<1>11. PICK q2 : q2 = [q1 EXCEPT !.gens[k] = g, !.canon = c, !.lru = Touched(@, k)]
  OBVIOUS
<1>12. q = add_bytes(q2, "build", bytes)
  BY <1>1, <1>5, <1>7, <1>9, <1>11 DEF started_canonical
<1>13. /\ Record(q2) /\ q2.stats = q1.stats /\ q2.canon = c /\ q2.lru = Touched(q1.lru, k)
       /\ q2.gens = [q1.gens EXCEPT ![k] = g]
       /\ q2.index = q1.index /\ q2.ilru = q1.ilru /\ q2.tlru = q1.tlru
       /\ q2.cursor = q1.cursor /\ q2.clru = q1.clru /\ q2.binding = q1.binding
  BY <1>3, <1>11 DEF Record
<1>14. /\ SameMaps(q2, q) /\ q.stats \in Stats /\ Charged(q.stats)
       /\ q.stats.build = q2.stats.build + bytes /\ AgreeBut(q2.stats, q.stats, "build")
  BY <1>4, <1>12, <1>13, AddBytes DEF ByteNames
<1>15. /\ q.stats.build = q1.stats.build + bytes /\ q.stats.resident = q1.stats.resident
       /\ q.stats.metadata = q1.stats.metadata /\ q.stats.canonicals = q1.stats.canonicals
       /\ q.stats.indexes = q1.stats.indexes /\ q.stats.generations = q1.stats.generations
       /\ q.stats.tombstones = q1.stats.tombstones /\ q.stats.cursors = q1.stats.cursors
       /\ q.stats.bindings = q1.stats.bindings
  BY <1>13, <1>14 DEF AgreeBut, ByteNames, CounterNames
<1>16. /\ Record(q) /\ q.canon = c /\ q.lru = Touched(q1.lru, k)
       /\ q.gens = [q1.gens EXCEPT ![k] = g]
       /\ q.index = q1.index /\ q.ilru = q1.ilru /\ q.tlru = q1.tlru
       /\ q.cursor = q1.cursor /\ q.clru = q1.clru /\ q.binding = q1.binding
  BY <1>13, <1>14 DEF SameMaps
<1>17. /\ MapOf(q.gens, CacheKeys, Nat) /\ DOMAIN q.gens = DOMAIN q1.gens /\ q.gens[k] = g
       /\ \A y \in DOMAIN q1.gens : y # k => q.gens[y] = q1.gens[y]
  BY <1>3, <1>6, <1>16 DEF MapOf
<1>18. q.lru \in Seq(CacheKeys)
  BY <1>4, <1>16, TouchedSeq
<1>19. /\ q1.stats.resident \in Nat /\ q1.stats.build \in Nat /\ q1.stats.canonicals \in Nat
  BY <1>4 DEF Stats
<1>20. Old(q1.canon, k) = 0 /\ One(q.canon[k]) = 0
  BY <1>3, <1>8, <1>10, <1>16 DEF Old, One
<1>21. Puts(q1.canon, q.canon, k)
  BY <1>3, <1>10, <1>16 DEF Puts
<1>22. PutCanonical(q1, q, k)
  <2>1. /\ q.stats.resident = q1.stats.resident + q.canon[k].res
        /\ q.stats.build = q1.stats.build - Old(q1.canon, k) + q.canon[k].bld
        /\ q.stats.canonicals = q1.stats.canonicals + One(q.canon[k])
    BY <1>8, <1>10, <1>15, <1>16, <1>19, <1>20
  <2>2. /\ q.gens[k] = q.canon[k].gen /\ q1.gens[k] <= q.gens[k]
        /\ q.canon[k].res = 0
    BY <1>6, <1>8, <1>10, <1>16, <1>17
  <2> QED
    BY <1>3, <1>10, <1>14, <1>15, <1>16, <1>17, <1>18, <1>21, <2>1, <2>2 DEF PutCanonical
<1>23. RepoInv(q)
  BY <1>2, <1>22, CanonicalPut
<1>24. Within(q.stats)
  <2>1. charge(r.stats.build + bytes) = charge(r.stats.build) + charge(bytes)
    BY <1>3, <1>19, ChargeAdd
  <2>2. charge(r.stats.resident) \in Nat /\ charge(r.stats.build) \in Nat /\ charge(bytes) \in Nat
    BY <1>3, <1>19, ChargeAdd
  <2>3. q.stats.build = r.stats.build + bytes /\ q.stats.resident = r.stats.resident
    BY <1>3, <1>15
  <2> QED
    BY <2>1, <2>2, <2>3, BudgetAssumption DEF Within, RoomFor, ConfigAccepted
<1> QED
  BY <1>3, <1>16, <1>23, <1>24 DEF Outcome, Part

SetBld(f, x, bytes) == [f EXCEPT ![x].bld = bytes]
SetReady(f, x, bytes) == [f EXCEPT ![x].st = "ready", ![x].res = bytes]

\* h is f with another record of the same generation at x.
Reset(f, h, x) ==
  /\ DOMAIN h = DOMAIN f /\ \A y \in DOMAIN f : y # x => h[y] = f[y]

LEMMA SetsBld ==
  ASSUME NEW f, NEW K, MapOf(f, K, Entries), NEW x \in DOMAIN f, NEW bytes \in Nat,
         NEW h, h = SetBld(f, x, bytes)
  PROVE  /\ MapOf(h, K, Entries) /\ Reset(f, h, x)
         /\ h[x].st = f[x].st /\ h[x].gen = f[x].gen /\ h[x].res = f[x].res
         /\ h[x].bld = bytes
<1>1. f[x] \in Entries
  BY DEF MapOf
<1>2. PICK e : e = [f[x] EXCEPT !.bld = bytes]
  OBVIOUS
<1>3. /\ e \in Entries /\ e.st = f[x].st /\ e.gen = f[x].gen /\ e.res = f[x].res
      /\ e.bld = bytes
  BY <1>1, <1>2 DEF Entries
<1>4. h = [f EXCEPT ![x] = e]
  BY <1>2 DEF SetBld
<1>5. /\ DOMAIN h = DOMAIN f /\ h[x] = e /\ (\A y \in DOMAIN f : y # x => h[y] = f[y])
      /\ h \in [DOMAIN f -> Entries]
  BY <1>3, <1>4 DEF MapOf
<1> QED
  BY <1>3, <1>5 DEF MapOf, Reset

LEMMA SetsReady ==
  ASSUME NEW f, NEW K, MapOf(f, K, Entries), NEW x \in DOMAIN f, NEW bytes \in Nat,
         NEW h, h = SetReady(f, x, bytes)
  PROVE  /\ MapOf(h, K, Entries) /\ Reset(f, h, x)
         /\ h[x].st = "ready" /\ h[x].gen = f[x].gen /\ h[x].res = bytes
         /\ h[x].bld = f[x].bld
<1>1. f[x] \in Entries
  BY DEF MapOf
<1>2. PICK e : e = [f[x] EXCEPT !.st = "ready", !.res = bytes]
  OBVIOUS
<1>3. /\ e \in Entries /\ e.st = "ready" /\ e.gen = f[x].gen /\ e.res = bytes
      /\ e.bld = f[x].bld
  BY <1>1, <1>2 DEF Entries
<1>4. h = [f EXCEPT ![x] = e]
  BY <1>1, <1>2 DEF SetReady, Entries
<1>5. /\ DOMAIN h = DOMAIN f /\ h[x] = e /\ (\A y \in DOMAIN f : y # x => h[y] = f[y])
      /\ h \in [DOMAIN f -> Entries]
  BY <1>3, <1>4 DEF MapOf
<1> QED
  BY <1>3, <1>5 DEF MapOf, Reset

LEMMA SetsIndexBld ==
  ASSUME NEW f, NEW K, MapOf(f, K, IndexEntries), NEW x \in DOMAIN f, NEW bytes \in Nat,
         NEW h, h = SetBld(f, x, bytes)
  PROVE  /\ MapOf(h, K, IndexEntries) /\ Reset(f, h, x)
         /\ h[x].st = f[x].st /\ h[x].res = f[x].res /\ h[x].bld = bytes
<1>1. f[x] \in IndexEntries
  BY DEF MapOf
<1>2. PICK e : e = [f[x] EXCEPT !.bld = bytes]
  OBVIOUS
<1>3. e \in IndexEntries /\ e.st = f[x].st /\ e.res = f[x].res /\ e.bld = bytes
  BY <1>1, <1>2 DEF IndexEntries
<1>4. h = [f EXCEPT ![x] = e]
  BY <1>2 DEF SetBld
<1>5. /\ DOMAIN h = DOMAIN f /\ h[x] = e /\ (\A y \in DOMAIN f : y # x => h[y] = f[y])
      /\ h \in [DOMAIN f -> IndexEntries]
  BY <1>3, <1>4 DEF MapOf
<1> QED
  BY <1>3, <1>5 DEF MapOf, Reset

LEMMA SetsIndexReady ==
  ASSUME NEW f, NEW K, MapOf(f, K, IndexEntries), NEW x \in DOMAIN f, NEW bytes \in Nat,
         NEW h, h = SetReady(f, x, bytes)
  PROVE  /\ MapOf(h, K, IndexEntries) /\ Reset(f, h, x)
         /\ h[x].st = "ready" /\ h[x].res = bytes /\ h[x].bld = f[x].bld
<1>1. f[x] \in IndexEntries
  BY DEF MapOf
<1>2. PICK e : e = [f[x] EXCEPT !.st = "ready", !.res = bytes]
  OBVIOUS
<1>3. e \in IndexEntries /\ e.st = "ready" /\ e.res = bytes /\ e.bld = f[x].bld
  BY <1>1, <1>2 DEF IndexEntries
<1>4. h = [f EXCEPT ![x] = e]
  BY <1>1, <1>2 DEF SetReady, IndexEntries
<1>5. /\ DOMAIN h = DOMAIN f /\ h[x] = e /\ (\A y \in DOMAIN f : y # x => h[y] = f[y])
      /\ h \in [DOMAIN f -> IndexEntries]
  BY <1>3, <1>4 DEF MapOf
<1> QED
  BY <1>3, <1>5 DEF MapOf, Reset

LEMMA BuildBytes ==
  ASSUME NEW r, RepoInv(r)
  PROVE  /\ \A k \in DOMAIN r.canon : r.canon[k].bld \in Nat /\ r.canon[k].bld <= r.stats.build
         /\ \A i \in DOMAIN r.index : r.index[i].bld \in Nat /\ r.index[i].bld <= r.stats.build
<1>1. PICK f : f = r.canon
  OBVIOUS
<1>2. PICK h : h = r.index
  OBVIOUS
<1>3. /\ Measured(f, "bld") /\ Measured(h, "bld")
      /\ r.stats.build = Total(f, "bld") + Total(h, "bld")
      /\ Total(f, "bld") \in Nat /\ Total(h, "bld") \in Nat
  BY <1>1, <1>2, ObjectFacts
<1>4. ASSUME NEW k \in DOMAIN f
      PROVE  f[k].bld \in Nat /\ f[k].bld <= Total(f, "bld")
  <2>1. Countable(f, DOMAIN f, "bld") /\ Countable(f, DOMAIN f \ {k}, "bld")
    BY <1>3, CountableSubset DEF Measured
  <2>2. BytesOf(f, DOMAIN f, "bld") = f[k].bld + BytesOf(f, DOMAIN f \ {k}, "bld")
    BY <2>1, BytesOne
  <2>3. f[k].bld \in Nat /\ BytesOf(f, DOMAIN f \ {k}, "bld") \in Nat
    BY <2>1, BytesNat DEF Countable
  <2> QED
    BY <2>2, <2>3 DEF Total
<1>5. ASSUME NEW i \in DOMAIN h
      PROVE  h[i].bld \in Nat /\ h[i].bld <= Total(h, "bld")
  <2>1. Countable(h, DOMAIN h, "bld") /\ Countable(h, DOMAIN h \ {i}, "bld")
    BY <1>3, CountableSubset DEF Measured
  <2>2. BytesOf(h, DOMAIN h, "bld") = h[i].bld + BytesOf(h, DOMAIN h \ {i}, "bld")
    BY <2>1, BytesOne
  <2>3. h[i].bld \in Nat /\ BytesOf(h, DOMAIN h \ {i}, "bld") \in Nat
    BY <2>1, BytesNat DEF Countable
  <2> QED
    BY <2>2, <2>3 DEF Total
<1> QED
  BY <1>1, <1>2, <1>3, <1>4, <1>5

\* The entry of x is being built and accounts for nothing.
Blank(f, x) ==
  x \in DOMAIN f /\ f[x].st = "building" /\ f[x].res = 0 /\ f[x].bld = 0

\* q has no more bytes of objects than r, and the same cursors.
Lighter(r, q) ==
  /\ q.stats.resident <= r.stats.resident /\ q.stats.build <= r.stats.build
  /\ q.cursor = r.cursor

LEMMA ReturnsBuildBytes ==
  ASSUME NEW r, RepoInv(r), NEW k, BuildingCanonical(r, k), NEW q, q = return_build_bytes(r, k)
  PROVE  RepoInv(q) /\ Lighter(r, q) /\ Blank(q.canon, k)
<1>1. /\ Record(r) /\ r.stats \in Stats /\ Charged(r.stats) /\ r.lru \in Seq(CacheKeys)
      /\ MapOf(r.canon, CacheKeys, Entries) /\ MapOf(r.gens, CacheKeys, Nat)
  BY DEF RepoInv, Typed
<1>2. /\ k \in DOMAIN r.canon /\ r.canon[k].st = "building" /\ r.canon[k].res = 0
      /\ k \in DOMAIN r.gens /\ r.canon[k].gen = r.gens[k]
  BY DEF RepoInv, Linked, NotYetResident, BuildingCanonical
<1>3. PICK b : b = r.canon[k].bld
  OBVIOUS
<1>4. b \in Nat /\ b <= r.stats.build
  BY <1>2, <1>3, BuildBytes
<1>5. PICK r1 : r1 = remove_bytes(r, "build", b)
  OBVIOUS
<1>6. /\ SameMaps(r, r1) /\ r1.stats \in Stats /\ Charged(r1.stats)
      /\ r1.stats.build = r.stats.build - b /\ AgreeBut(r.stats, r1.stats, "build")
  BY <1>1, <1>4, <1>5, RemoveBytes DEF ByteNames
<1>7. q = [r1 EXCEPT !.canon[k].bld = 0]
  BY <1>3, <1>5 DEF return_build_bytes
<1>8. /\ Record(q) /\ q.stats = r1.stats /\ q.canon = SetBld(r.canon, k, 0)
      /\ q.lru = r.lru /\ q.index = r.index /\ q.ilru = r.ilru /\ q.gens = r.gens
      /\ q.tlru = r.tlru /\ q.cursor = r.cursor /\ q.clru = r.clru /\ q.binding = r.binding
  BY <1>6, <1>7 DEF SameMaps, Record, SetBld
<1>9. PICK h : h = q.canon
  OBVIOUS
<1>10. /\ MapOf(h, CacheKeys, Entries) /\ Reset(r.canon, h, k)
       /\ h[k].st = r.canon[k].st /\ h[k].gen = r.canon[k].gen
       /\ h[k].res = r.canon[k].res /\ h[k].bld = 0
  BY <1>1, <1>2, <1>8, <1>9, SetsBld
<1>11. Puts(r.canon, h, k) /\ Old(r.canon, k) = b /\ One(h[k]) = 0
  <2>1. DOMAIN h = DOMAIN r.canon /\ \A y \in DOMAIN r.canon : y # k => h[y] = r.canon[y]
    BY <1>10 DEF Reset
  <2>2. Puts(r.canon, h, k)
    BY <1>2, <2>1 DEF Puts
  <2> QED
    BY <1>2, <1>3, <1>10, <2>2 DEF Old, One
<1>12. /\ q.stats.build = r.stats.build - b /\ q.stats.resident = r.stats.resident
       /\ q.stats.metadata = r.stats.metadata /\ q.stats.canonicals = r.stats.canonicals
       /\ q.stats.indexes = r.stats.indexes /\ q.stats.generations = r.stats.generations
       /\ q.stats.tombstones = r.stats.tombstones /\ q.stats.cursors = r.stats.cursors
       /\ q.stats.bindings = r.stats.bindings
  BY <1>6, <1>8 DEF AgreeBut, ByteNames, CounterNames
<1>13. r.stats.resident \in Nat /\ r.stats.build \in Nat /\ r.stats.canonicals \in Nat
  BY <1>1 DEF Stats
<1>14. PutCanonical(r, q, k)
  <2>1. /\ q.stats.resident = r.stats.resident + h[k].res
        /\ q.stats.build = r.stats.build - Old(r.canon, k) + h[k].bld
        /\ q.stats.canonicals = r.stats.canonicals + One(h[k])
    BY <1>2, <1>4, <1>10, <1>11, <1>12, <1>13
  <2>2. q.gens[k] = h[k].gen /\ r.gens[k] <= q.gens[k] /\ h[k].res = 0
    <3>1. r.gens[k] \in Nat
      BY <1>1, <1>2 DEF MapOf
    <3> QED
      BY <1>2, <1>8, <1>10, <3>1
  <2> QED
    BY <1>1, <1>2, <1>6, <1>8, <1>9, <1>10, <1>11, <1>12, <2>1, <2>2 DEF PutCanonical
<1>15. RepoInv(q)
  BY <1>14, CanonicalPut
<1>16. Lighter(r, q)
  BY <1>4, <1>8, <1>12, <1>13 DEF Lighter
<1>17. Blank(q.canon, k)
  BY <1>2, <1>9, <1>10 DEF Blank, Reset
<1> QED
  BY <1>15, <1>16, <1>17

\* The entry of k with the bytes its build needs now.
refilled_canonical(r, k, bytes) ==
  add_bytes([r EXCEPT !.canon[k].bld = bytes], "build", bytes)

LEMMA RefilledCanonical ==
  ASSUME NEW r, RepoInv(r), NEW k, Blank(r.canon, k), NEW bytes \in Nat,
         RoomFor(r, charge(bytes)), NEW q, q = refilled_canonical(r, k, bytes)
  PROVE  Outcome(r, q) /\ BuildingCanonical(q, k)
<1>1. /\ Record(r) /\ r.stats \in Stats /\ Charged(r.stats) /\ r.lru \in Seq(CacheKeys)
      /\ MapOf(r.canon, CacheKeys, Entries) /\ MapOf(r.gens, CacheKeys, Nat)
  BY DEF RepoInv, Typed
<1>2. /\ k \in DOMAIN r.canon /\ r.canon[k].st = "building" /\ r.canon[k].res = 0
      /\ k \in DOMAIN r.gens /\ r.canon[k].gen = r.gens[k] /\ r.canon[k].bld = 0
  BY DEF RepoInv, Linked, Blank
<1>3. PICK r1 : r1 = [r EXCEPT !.canon[k].bld = bytes]
  OBVIOUS
<1>4. /\ Record(r1) /\ r1.stats = r.stats /\ r1.canon = SetBld(r.canon, k, bytes)
      /\ r1.lru = r.lru /\ r1.index = r.index /\ r1.ilru = r.ilru /\ r1.gens = r.gens
      /\ r1.tlru = r.tlru /\ r1.cursor = r.cursor /\ r1.clru = r.clru
      /\ r1.binding = r.binding
  BY <1>1, <1>3 DEF Record, SetBld
<1>5. q = add_bytes(r1, "build", bytes)
  BY <1>3 DEF refilled_canonical
<1>6. /\ SameMaps(r1, q) /\ q.stats \in Stats /\ Charged(q.stats)
      /\ q.stats.build = r1.stats.build + bytes /\ AgreeBut(r1.stats, q.stats, "build")
  BY <1>1, <1>4, <1>5, AddBytes DEF ByteNames
<1>7. /\ Record(q) /\ q.canon = SetBld(r.canon, k, bytes)
      /\ q.lru = r.lru /\ q.index = r.index /\ q.ilru = r.ilru /\ q.gens = r.gens
      /\ q.tlru = r.tlru /\ q.cursor = r.cursor /\ q.clru = r.clru /\ q.binding = r.binding
  BY <1>4, <1>6 DEF SameMaps
<1>8. PICK h : h = q.canon
  OBVIOUS
<1>9. /\ MapOf(h, CacheKeys, Entries) /\ Reset(r.canon, h, k)
      /\ h[k].st = r.canon[k].st /\ h[k].gen = r.canon[k].gen
      /\ h[k].res = r.canon[k].res /\ h[k].bld = bytes
  BY <1>1, <1>2, <1>7, <1>8, SetsBld
<1>10. Puts(r.canon, h, k) /\ Old(r.canon, k) = 0 /\ One(h[k]) = 0
  <2>1. DOMAIN h = DOMAIN r.canon /\ \A y \in DOMAIN r.canon : y # k => h[y] = r.canon[y]
    BY <1>9 DEF Reset
  <2>2. Puts(r.canon, h, k)
    BY <1>2, <2>1 DEF Puts
  <2> QED
    BY <1>2, <1>9, <2>2 DEF Old, One
<1>11. /\ q.stats.build = r.stats.build + bytes /\ q.stats.resident = r.stats.resident
       /\ q.stats.metadata = r.stats.metadata /\ q.stats.canonicals = r.stats.canonicals
       /\ q.stats.indexes = r.stats.indexes /\ q.stats.generations = r.stats.generations
       /\ q.stats.tombstones = r.stats.tombstones /\ q.stats.cursors = r.stats.cursors
       /\ q.stats.bindings = r.stats.bindings
  BY <1>4, <1>6 DEF AgreeBut, ByteNames, CounterNames
<1>12. r.stats.resident \in Nat /\ r.stats.build \in Nat /\ r.stats.canonicals \in Nat
  BY <1>1 DEF Stats
<1>13. PutCanonical(r, q, k)
  <2>1. /\ q.stats.resident = r.stats.resident + h[k].res
        /\ q.stats.build = r.stats.build - Old(r.canon, k) + h[k].bld
        /\ q.stats.canonicals = r.stats.canonicals + One(h[k])
    BY <1>2, <1>9, <1>10, <1>11, <1>12
  <2>2. q.gens[k] = h[k].gen /\ r.gens[k] <= q.gens[k] /\ h[k].res = 0
    <3>1. r.gens[k] \in Nat
      BY <1>1, <1>2 DEF MapOf
    <3> QED
      BY <1>2, <1>7, <1>9, <3>1
  <2> QED
    BY <1>1, <1>2, <1>6, <1>7, <1>8, <1>9, <1>10, <1>11, <2>1, <2>2 DEF PutCanonical
<1>14. RepoInv(q)
  BY <1>13, CanonicalPut
<1>15. Within(q.stats)
  <2>1. charge(r.stats.build + bytes) = charge(r.stats.build) + charge(bytes)
    BY <1>12, ChargeAdd
  <2>2. charge(r.stats.resident) \in Nat /\ charge(r.stats.build) \in Nat /\ charge(bytes) \in Nat
    BY <1>12, ChargeAdd
  <2> QED
    BY <1>11, <2>1, <2>2, BudgetAssumption DEF Within, RoomFor, ConfigAccepted
<1>16. BuildingCanonical(q, k)
  BY <1>2, <1>8, <1>9 DEF BuildingCanonical, Reset
<1> QED
  BY <1>7, <1>14, <1>15, <1>16 DEF Outcome, Part

LEMMA MarkedReady ==
  ASSUME NEW r, RepoInv(r), NEW k, Blank(r.canon, k), NEW bytes \in Nat,
         RoomFor(r, charge(bytes)), NEW q, q = mark_ready(r, k, bytes)
  PROVE  Outcome(r, q)
<1>1. /\ Record(r) /\ r.stats \in Stats /\ Charged(r.stats) /\ r.lru \in Seq(CacheKeys)
      /\ MapOf(r.canon, CacheKeys, Entries) /\ MapOf(r.gens, CacheKeys, Nat)
  BY DEF RepoInv, Typed
<1>2. /\ k \in DOMAIN r.canon /\ r.canon[k].st = "building" /\ r.canon[k].res = 0
      /\ k \in DOMAIN r.gens /\ r.canon[k].gen = r.gens[k] /\ r.canon[k].bld = 0
  BY DEF RepoInv, Linked, Blank
<1>3. PICK r1 : r1 = [r EXCEPT !.canon[k].st = "ready", !.canon[k].res = bytes,
                               !.lru = Touched(@, k)]
  OBVIOUS
<1>4. /\ Record(r1) /\ r1.stats = r.stats /\ r1.canon = SetReady(r.canon, k, bytes)
      /\ r1.lru = Touched(r.lru, k) /\ r1.index = r.index /\ r1.ilru = r.ilru
      /\ r1.gens = r.gens /\ r1.tlru = r.tlru /\ r1.cursor = r.cursor /\ r1.clru = r.clru
      /\ r1.binding = r.binding
  BY <1>1, <1>3 DEF Record, SetReady
<1>5. PICK r2 : r2 = add_bytes(r1, "resident", bytes)
  OBVIOUS
<1>6. q = counted(r2, "canonicals", 1)
  BY <1>3, <1>5 DEF mark_ready
<1>7. /\ SameMaps(r1, r2) /\ r2.stats \in Stats /\ Charged(r2.stats)
      /\ r2.stats.resident = r1.stats.resident + bytes
      /\ AgreeBut(r1.stats, r2.stats, "resident")
  BY <1>1, <1>4, <1>5, AddBytes DEF ByteNames
<1>8. Record(r2)
  BY <1>7 DEF SameMaps
<1>9. /\ SameMaps(r2, q) /\ q.stats \in Stats /\ Charged(q.stats)
      /\ q.stats.canonicals = r2.stats.canonicals + 1
      /\ AgreeBut(r2.stats, q.stats, "canonicals")
  BY <1>6, <1>7, <1>8, Counting DEF CounterNames
<1>10. /\ Record(q) /\ q.canon = SetReady(r.canon, k, bytes) /\ q.lru = Touched(r.lru, k)
       /\ q.index = r.index /\ q.ilru = r.ilru /\ q.gens = r.gens
       /\ q.tlru = r.tlru /\ q.cursor = r.cursor /\ q.clru = r.clru /\ q.binding = r.binding
  BY <1>4, <1>7, <1>9 DEF SameMaps
<1>11. PICK h : h = q.canon
  OBVIOUS
<1>12. /\ MapOf(h, CacheKeys, Entries) /\ Reset(r.canon, h, k)
       /\ h[k].st = "ready" /\ h[k].gen = r.canon[k].gen
       /\ h[k].res = bytes /\ h[k].bld = r.canon[k].bld
  BY <1>1, <1>2, <1>10, <1>11, SetsReady
<1>13. Puts(r.canon, h, k) /\ Old(r.canon, k) = 0 /\ One(h[k]) = 1
  <2>1. DOMAIN h = DOMAIN r.canon /\ \A y \in DOMAIN r.canon : y # k => h[y] = r.canon[y]
    BY <1>12 DEF Reset
  <2>2. Puts(r.canon, h, k)
    BY <1>2, <2>1 DEF Puts
  <2> QED
    BY <1>2, <1>12, <2>2 DEF Old, One
<1>14. /\ r2.stats.build = r.stats.build /\ r2.stats.resident = r.stats.resident + bytes
       /\ r2.stats.metadata = r.stats.metadata /\ r2.stats.canonicals = r.stats.canonicals
       /\ r2.stats.indexes = r.stats.indexes /\ r2.stats.generations = r.stats.generations
       /\ r2.stats.tombstones = r.stats.tombstones /\ r2.stats.cursors = r.stats.cursors
       /\ r2.stats.bindings = r.stats.bindings
  BY <1>4, <1>7 DEF AgreeBut, ByteNames, CounterNames
<1>15. /\ q.stats.build = r2.stats.build /\ q.stats.resident = r2.stats.resident
       /\ q.stats.metadata = r2.stats.metadata
       /\ q.stats.canonicals = r2.stats.canonicals + 1
       /\ q.stats.indexes = r2.stats.indexes /\ q.stats.generations = r2.stats.generations
       /\ q.stats.tombstones = r2.stats.tombstones /\ q.stats.cursors = r2.stats.cursors
       /\ q.stats.bindings = r2.stats.bindings
  BY <1>9 DEF AgreeBut, ByteNames, CounterNames
<1>16. r.stats.resident \in Nat /\ r.stats.build \in Nat /\ r.stats.canonicals \in Nat
  BY <1>1 DEF Stats
<1>17. q.lru \in Seq(CacheKeys)
  <2>1. k \in CacheKeys
    BY <1>1, <1>2 DEF MapOf
  <2> QED
    BY <1>1, <1>10, <2>1, TouchedSeq
<1>18. PutCanonical(r, q, k)
  <2>1. /\ q.stats.resident = r.stats.resident + h[k].res
        /\ q.stats.build = r.stats.build - Old(r.canon, k) + h[k].bld
        /\ q.stats.canonicals = r.stats.canonicals + One(h[k])
    BY <1>2, <1>12, <1>13, <1>14, <1>15, <1>16
  <2>2. q.gens[k] = h[k].gen /\ r.gens[k] <= q.gens[k] /\ h[k].st # "building"
    <3>1. r.gens[k] \in Nat
      BY <1>1, <1>2 DEF MapOf
    <3> QED
      BY <1>2, <1>10, <1>12, <3>1
  <2> QED
    BY <1>1, <1>2, <1>9, <1>10, <1>11, <1>12, <1>13, <1>14, <1>15, <1>17, <2>1, <2>2
    DEF PutCanonical
<1>19. RepoInv(q)
  BY <1>18, CanonicalPut
<1>20. Within(q.stats)
  <2>1. charge(r.stats.resident + bytes) = charge(r.stats.resident) + charge(bytes)
    BY <1>16, ChargeAdd
  <2>2. charge(r.stats.resident) \in Nat /\ charge(r.stats.build) \in Nat /\ charge(bytes) \in Nat
    BY <1>16, ChargeAdd
  <2> QED
    BY <1>14, <1>15, <2>1, <2>2, BudgetAssumption DEF Within, RoomFor, ConfigAccepted
<1> QED
  BY <1>10, <1>19, <1>20 DEF Outcome, Part

\* A blank entry that is dropped leaves every counter as it is.
LEMMA AbandonsCanonical ==
  ASSUME NEW r, RepoInv(r), NEW k, Blank(r.canon, k), NEW q, q = abandon_canonical(r, k)
  PROVE  RepoInv(q) /\ Shrunk(r, q)
<1>1. /\ Record(r) /\ r.stats \in Stats /\ Charged(r.stats)
  BY DEF RepoInv, Typed
<1>2. /\ k \in DOMAIN r.canon /\ r.canon[k].st = "building" /\ r.canon[k].res = 0
      /\ r.canon[k].bld = 0 /\ \A i \in DOMAIN r.index : i[1] # k
  BY DEF RepoInv, Linked, Blank
<1>3. PICK o : o = r.canon[k]
  OBVIOUS
<1>4. PICK r1 : r1 = remove_bytes(r, "resident", 0)
  OBVIOUS
<1>5. PICK r2 : r2 = remove_bytes(r1, "build", 0)
  OBVIOUS
<1>6. PICK e : e = erase_object(r, k, o)
  OBVIOUS
<1>7. e = uncounted(erase_entry(r2, k), "canonicals", 0)
  BY <1>2, <1>3, <1>4, <1>5, <1>6 DEF erase_object
<1>8. RepoInv(e) /\ Shrunk(r, e)
  BY <1>2, <1>3, <1>6, EraseObject
<1>9. /\ SameMaps(r, r1) /\ r1.stats \in Stats /\ Charged(r1.stats)
      /\ r1.stats.resident = r.stats.resident - 0 /\ AgreeBut(r.stats, r1.stats, "resident")
  <2>1. 0 <= r.stats["resident"]
    BY <1>1 DEF Stats
  <2> QED
    BY <1>1, <1>4, <2>1, RemoveBytes DEF ByteNames
<1>10. /\ SameMaps(r1, r2) /\ r2.stats \in Stats /\ Charged(r2.stats)
       /\ r2.stats.build = r1.stats.build - 0 /\ AgreeBut(r1.stats, r2.stats, "build")
  <2>1. 0 <= r1.stats["build"] /\ Record(r1)
    BY <1>9 DEF Stats, SameMaps
  <2> QED
    BY <1>5, <1>9, <2>1, RemoveBytes DEF ByteNames
<1>11. PICK r3 : r3 = erase_entry(r2, k)
  OBVIOUS
<1>12. /\ Record(r3) /\ r3.stats = r2.stats /\ r3.canon = Without(r.canon, {k})
       /\ r3.lru = Dropped(r.lru, {k}) /\ r3.index = r.index /\ r3.ilru = r.ilru
       /\ r3.gens = r.gens /\ r3.tlru = r.tlru /\ r3.cursor = r.cursor /\ r3.clru = r.clru
       /\ r3.binding = r.binding
  BY <1>9, <1>10, <1>11 DEF erase_entry, SameMaps, Record
<1>13. /\ SameMaps(r3, e) /\ e.stats \in Stats
       /\ e.stats.canonicals = r3.stats.canonicals - 0
       /\ AgreeBut(r3.stats, e.stats, "canonicals")
  <2>1. 0 <= r3.stats["canonicals"] /\ r3.stats \in Stats
    BY <1>10, <1>12 DEF Stats
  <2> QED
    BY <1>7, <1>11, <1>12, <2>1, Uncounting DEF CounterNames
<1>14. PICK s : s = erase_entry(r, k)
  OBVIOUS
<1>15. /\ Record(s) /\ s.stats = r.stats /\ s.canon = e.canon
       /\ s.lru = e.lru /\ s.index = e.index /\ s.ilru = e.ilru
       /\ s.gens = e.gens /\ s.tlru = e.tlru /\ s.cursor = e.cursor /\ s.clru = e.clru
       /\ s.binding = e.binding
  <2>1. /\ e.canon = Without(r.canon, {k}) /\ e.lru = Dropped(r.lru, {k})
        /\ e.index = r.index /\ e.ilru = r.ilru /\ e.gens = r.gens /\ e.tlru = r.tlru
        /\ e.cursor = r.cursor /\ e.clru = r.clru /\ e.binding = r.binding
    BY <1>12, <1>13 DEF SameMaps
  <2> QED
    BY <1>1, <1>14, <2>1 DEF erase_entry, Record
<1>16. /\ e.stats.build = r.stats.build /\ e.stats.resident = r.stats.resident
       /\ e.stats.metadata = r.stats.metadata /\ e.stats.canonicals = r.stats.canonicals
       /\ e.stats.indexes = r.stats.indexes /\ e.stats.generations = r.stats.generations
       /\ e.stats.tombstones = r.stats.tombstones /\ e.stats.cursors = r.stats.cursors
       /\ e.stats.bindings = r.stats.bindings
  <2>1. r.stats.resident \in Nat /\ r.stats.build \in Nat /\ r.stats.canonicals \in Nat
    BY <1>1 DEF Stats
  <2>2. /\ r1.stats.build = r.stats.build /\ r1.stats.resident = r.stats.resident
        /\ r1.stats.metadata = r.stats.metadata /\ r1.stats.canonicals = r.stats.canonicals
        /\ r1.stats.indexes = r.stats.indexes /\ r1.stats.generations = r.stats.generations
        /\ r1.stats.tombstones = r.stats.tombstones /\ r1.stats.cursors = r.stats.cursors
        /\ r1.stats.bindings = r.stats.bindings
    BY <1>9, <2>1 DEF AgreeBut, ByteNames, CounterNames
  <2>3. /\ r2.stats.build = r.stats.build /\ r2.stats.resident = r.stats.resident
        /\ r2.stats.metadata = r.stats.metadata /\ r2.stats.canonicals = r.stats.canonicals
        /\ r2.stats.indexes = r.stats.indexes /\ r2.stats.generations = r.stats.generations
        /\ r2.stats.tombstones = r.stats.tombstones /\ r2.stats.cursors = r.stats.cursors
        /\ r2.stats.bindings = r.stats.bindings
    BY <1>10, <2>1, <2>2 DEF AgreeBut, ByteNames, CounterNames
  <2> QED
    BY <1>12, <1>13, <2>1, <2>3 DEF AgreeBut, ByteNames, CounterNames
<1>17. RepoInv(s) /\ Shrunk(r, s)
  <2>1. Typed(s)
    BY <1>1, <1>8, <1>15 DEF RepoInv, Typed
  <2>2. Linked(s) /\ NotYetResident(s)
    BY <1>8, <1>15 DEF RepoInv, Linked, NotYetResident
  <2>3. Charged(s.stats) /\ Described(s.stats)
    BY <1>15 DEF RepoInv
  <2>4. Tallied(s)
    BY <1>8, <1>15, <1>16 DEF RepoInv, Tallied
  <2>5. Shrunk(r, s)
    BY <1>8, <1>15, <1>16 DEF Shrunk
  <2> QED
    BY <2>1, <2>2, <2>3, <2>4, <2>5 DEF RepoInv
<1>18. q = erase_generation_if_unreferenced(s, k)
  BY <1>14 DEF abandon_canonical
<1>19. RepoInv(q) /\ Shrunk(s, q)
  BY <1>17, <1>18, EraseGeneration
<1> QED
  BY <1>17, <1>19, ShrunkTwice

LEMMA OutcomeTwice ==
  ASSUME NEW r, NEW s, NEW q, Outcome(r, s), Outcome(s, q)
  PROVE  Outcome(r, q)
BY PartTwice DEF Outcome

LEMMA LighterOutcome ==
  ASSUME NEW r, RepoInv(r), Within(r.stats), NEW q, RepoInv(q), Lighter(r, q)
  PROVE  Outcome(r, q)
<1>1. Within(q.stats)
  BY LighterWithin DEF Lighter
<1> QED
  BY <1>1 DEF Outcome, Lighter, Part

\* Room that was granted with nothing excluded is room beside the objects.
LEMMA RoomGranted ==
  ASSUME NEW r, NEW m, NEW new \in Nat, NEW prot, NEW protIdx,
         Roomy(r, m, new, prot, protIdx, <<>>), ~m.thrown, m.ok
  PROVE  RoomFor(m.r, new)
<1>1. RepoInv(m.r) /\ Fits(m.r, HardMax, new, <<>>)
  BY DEF Roomy
<1> QED
  BY <1>1, FitsObjects DEF RoomFor

\* Room for more is room for less.
LEMMA RoomLess ==
  ASSUME NEW r, RepoInv(r), NEW a \in Nat, NEW b \in Nat, RoomFor(r, a + b)
  PROVE  RoomFor(r, a)
<1>1. charge(r.stats.resident) \in Nat /\ charge(r.stats.build) \in Nat
  BY StatsNat
<1> QED
  BY <1>1, BudgetAssumption DEF RoomFor, ConfigAccepted

\* An entry that is being built, or named, is still there after making room.
LEMMA BlankHeld ==
  ASSUME NEW r, RepoInv(r), NEW k, Blank(r.canon, k), NEW m, NEW new, NEW prot, NEW protIdx,
         NEW excl, Roomy(r, m, new, prot, protIdx, excl)
  PROVE  Blank(m.r.canon, k)
<1>1. k \in Held(r, prot)
  BY DEF Held, Blank
<1>2. k \in DOMAIN m.r.canon /\ Part(r.canon, m.r.canon)
  BY <1>1 DEF Roomy, Shrunk
<1>3. m.r.canon[k] = r.canon[k]
  BY <1>2 DEF Part
<1> QED
  BY <1>2, <1>3 DEF Blank

LEMMA BeginCanonical ==
  ASSUME NEW r, RepoInv(r), Within(r.stats), NEW fuel \in Int, NEW k \in CacheKeys,
         NEW bytes \in Nat, NEW res, res = begin_canonical(r, fuel, k, bytes)
  PROVE  Outcome(r, res.r)
<1>1. CASE k \in DOMAIN r.canon /\ r.canon[k].st = "building"
  <2>1. res.r = r
    BY <1>1 DEF begin_canonical, Result
  <2>2. Shrunk(r, r)
    BY ShrunkSelf
  <2> QED
    BY <2>1, <2>2, ShrunkOutcome
<1>2. CASE k \in DOMAIN r.canon /\ r.canon[k].st # "building"
  <2>1. PICK q : q = [r EXCEPT !.lru = Touched(@, k)]
    OBVIOUS
  <2>2. res.r = q
    BY <1>2, <2>1 DEF begin_canonical, Result
  <2>3. Record(r) /\ r.lru \in Seq(CacheKeys) /\ r.ilru \in Seq(IndexKeys) /\ r.clru \in Seq(Name)
    BY DEF RepoInv, Typed
  <2>4. /\ Record(q) /\ q.lru = Touched(r.lru, k) /\ q.ilru = r.ilru /\ q.clru = r.clru
        /\ q.canon = r.canon /\ q.index = r.index /\ q.gens = r.gens /\ q.tlru = r.tlru
        /\ q.cursor = r.cursor /\ q.binding = r.binding /\ q.stats = r.stats
    BY <2>1, <2>3 DEF Record
  <2>5. Reordered(r, q)
    BY <2>3, <2>4, TouchedSeq DEF Reordered
  <2>6. RepoInv(q) /\ Shrunk(r, q)
    BY <2>5, Reordering
  <2> QED
    BY <2>2, <2>6, ShrunkOutcome
<1>3. CASE k \notin DOMAIN r.canon
  <2>1. PICK more : more = IF k \in DOMAIN r.gens THEN 0 ELSE charge(KeyBytes)
    OBVIOUS
  <2>2. PICK m : m = make_hard_room(r, fuel, charge(bytes) + more, <<>>, <<>>, k, <<>>)
    OBVIOUS
  <2>3. res = start_canonical(m, k, bytes)
    BY <1>3, <2>1, <2>2 DEF begin_canonical
  <2>4. Roomy(r, m, charge(bytes) + more, <<>>, <<>>, <<>>)
    BY <2>2, HardRoom
  <2>5. RepoInv(m.r) /\ Shrunk(r, m.r)
    BY <2>4 DEF Roomy
  <2>6. Outcome(r, m.r)
    BY <2>5, ShrunkOutcome
  <2>7. CASE m.thrown \/ ~m.ok
    <3>1. res.r = m.r
      BY <2>3, <2>7 DEF start_canonical, Result
    <3> QED
      BY <2>6, <3>1
  <2>8. CASE ~(m.thrown \/ ~m.ok)
    <3>1. charge(bytes) \in Nat /\ more \in Nat
      <4>1. charge(bytes) \in Nat /\ charge(KeyBytes) \in Nat
        BY ChargeAdd, BudgetAssumption
      <4> QED
        BY <2>1, <4>1
    <3>2. PICK new \in Nat : new = charge(bytes) + more
      BY <3>1
    <3>3. Roomy(r, m, new, <<>>, <<>>, <<>>) /\ ~m.thrown /\ m.ok
      BY <2>4, <2>8, <3>2
    <3>4. RoomFor(m.r, new)
      BY <3>3, RoomGranted
    <3>5. RoomFor(m.r, charge(bytes))
      BY <2>5, <3>1, <3>2, <3>4, RoomLess
    <3>6. k \notin DOMAIN m.r.canon
      BY <1>3, <2>5 DEF Shrunk, Part
    <3>7. res.r = started_canonical(m.r, k, bytes)
      BY <2>3, <2>8 DEF start_canonical, started_canonical, Result
    <3>8. Outcome(m.r, res.r)
      BY <2>5, <3>5, <3>6, <3>7, StartedCanonical
    <3> QED
      BY <2>6, <3>8, OutcomeTwice
  <2> QED
    BY <2>7, <2>8
<1> QED
  BY <1>1, <1>2, <1>3

LEMMA UpdateCanonical ==
  ASSUME NEW r, RepoInv(r), Within(r.stats), NEW fuel \in Int, NEW k, NEW bytes \in Nat,
         NEW res, res = update_canonical_build_bytes(r, fuel, k, bytes)
  PROVE  Outcome(r, res.r)
<1>1. CASE ~BuildingCanonical(r, k)
  <2>1. res.r = r
    BY <1>1 DEF update_canonical_build_bytes, Result
  <2>2. Shrunk(r, r)
    BY ShrunkSelf
  <2> QED
    BY <2>1, <2>2, ShrunkOutcome
<1>2. CASE BuildingCanonical(r, k)
  <2>1. PICK q : q = return_build_bytes(r, k)
    OBVIOUS
  <2>2. RepoInv(q) /\ Lighter(r, q) /\ Blank(q.canon, k)
    BY <1>2, <2>1, ReturnsBuildBytes
  <2>3. Outcome(r, q) /\ Within(q.stats)
    BY <2>2, LighterOutcome DEF Outcome
  <2>4. PICK new \in Nat : new = charge(bytes)
    BY ChargeAdd
  <2>5. PICK m : m = make_hard_room(q, fuel, new, <<k>>, <<>>, k, <<>>)
    OBVIOUS
  <2>6. res = rebuild_canonical(m, k, bytes)
    BY <1>2, <2>1, <2>4, <2>5 DEF update_canonical_build_bytes
  <2>7. Roomy(q, m, new, <<k>>, <<>>, <<>>)
    BY <2>2, <2>5, HardRoom
  <2>8. RepoInv(m.r) /\ Shrunk(q, m.r) /\ m.thrown \in BOOLEAN
    BY <2>7 DEF Roomy
  <2>9. Outcome(q, m.r) /\ Within(m.r.stats)
    BY <2>2, <2>3, <2>8, ShrunkOutcome DEF Outcome
  <2>10. Blank(m.r.canon, k)
    BY <2>2, <2>7, BlankHeld
  <2>11. Outcome(m.r, res.r)
    <3>1. CASE m.thrown
      <4>1. res.r = m.r
        BY <2>6, <3>1 DEF rebuild_canonical, with_room, Result
      <4>2. Shrunk(m.r, m.r)
        BY <2>8, ShrunkSelf
      <4> QED
        BY <2>8, <2>9, <4>1, <4>2, ShrunkOutcome
    <3>2. CASE ~m.thrown /\ ~m.ok
      <4>1. res.r = abandon_canonical(m.r, k)
        BY <2>6, <3>2 DEF rebuild_canonical, with_room, Result
      <4>2. RepoInv(res.r) /\ Shrunk(m.r, res.r)
        BY <2>8, <2>10, <4>1, AbandonsCanonical
      <4> QED
        BY <2>8, <2>9, <4>2, ShrunkOutcome
    <3>3. CASE ~m.thrown /\ m.ok
      <4>1. res.r = refilled_canonical(m.r, k, bytes)
        BY <2>6, <3>3 DEF rebuild_canonical, with_room, refilled_canonical, Result
      <4>2. RoomFor(m.r, charge(bytes))
        BY <2>4, <2>7, <3>3, RoomGranted
      <4> QED
        BY <2>8, <2>10, <4>1, <4>2, RefilledCanonical
    <3> QED
      BY <3>1, <3>2, <3>3
  <2> QED
    BY <2>3, <2>9, <2>11, OutcomeTwice
<1> QED
  BY <1>1, <1>2

LEMMA FailCanonical ==
  ASSUME NEW r, RepoInv(r), Within(r.stats), NEW k, NEW q, q = fail_canonical(r, k)
  PROVE  Outcome(r, q)
<1>1. CASE ~BuildingCanonical(r, k)
  <2>1. q = r
    BY <1>1 DEF fail_canonical
  <2>2. Shrunk(r, r)
    BY ShrunkSelf
  <2> QED
    BY <2>1, <2>2, ShrunkOutcome
<1>2. CASE BuildingCanonical(r, k)
  <2>1. PICK s : s = return_build_bytes(r, k)
    OBVIOUS
  <2>2. RepoInv(s) /\ Lighter(r, s) /\ Blank(s.canon, k)
    BY <1>2, <2>1, ReturnsBuildBytes
  <2>3. Outcome(r, s) /\ Within(s.stats)
    BY <2>2, LighterOutcome DEF Outcome
  <2>4. q = abandon_canonical(s, k)
    BY <1>2, <2>1 DEF fail_canonical
  <2>5. RepoInv(q) /\ Shrunk(s, q)
    BY <2>2, <2>4, AbandonsCanonical
  <2>6. Outcome(s, q)
    BY <2>2, <2>3, <2>5, ShrunkOutcome
  <2> QED
    BY <2>3, <2>6, OutcomeTwice
<1> QED
  BY <1>1, <1>2

\* The soft budget and the tombstone, after a result has become ready.
LEMMA Settles ==
  ASSUME NEW r, RepoInv(r), Within(r.stats), NEW fuel \in Int, NEW k, NEW prot, NEW protIdx,
         NEW res, res = settled(enforce_soft_budget(r, fuel, prot, protIdx), k)
  PROVE  Outcome(r, res.r)
<1>1. PICK l : l = enforce_soft_budget(r, fuel, prot, protIdx)
  OBVIOUS
<1>2. res = settled(l, k)
  BY <1>1
<1>3. RepoInv(l.r) /\ Shrunk(r, l.r)
  BY <1>1, SoftBudget
<1>4. Outcome(r, l.r) /\ Within(l.r.stats)
  BY <1>3, ShrunkOutcome DEF Outcome
<1>5. CASE l.thrown
  BY <1>2, <1>4, <1>5 DEF settled, Result
<1>6. CASE ~l.thrown
  <2>1. res.r = erase_tombstone(l.r, k)
    BY <1>2, <1>6 DEF settled, Result
  <2>2. RepoInv(res.r) /\ Shrunk(l.r, res.r)
    BY <1>3, <2>1, EraseTombstone
  <2>3. Outcome(l.r, res.r)
    BY <1>3, <1>4, <2>2, ShrunkOutcome
  <2> QED
    BY <1>4, <2>3, OutcomeTwice
<1> QED
  BY <1>5, <1>6

\* Room that was granted for a full stream beside its ranges is room once they
\* are gone.
LEMMA RangesMakeRoom ==
  ASSUME NEW r, NEW m, NEW new \in Nat, NEW k, NEW prot, NEW protIdx,
         Roomy(r, m, new, prot, protIdx, <<k>>), ~m.thrown, m.ok, FullStream(k),
         Blank(m.r.canon, k), Within(m.r.stats),
         NEW q, q = erase_stream_sibling_ranges(m.r, k)
  PROVE  Outcome(m.r, q) /\ RoomFor(q, new) /\ Blank(q.canon, k)
<1>1. RepoInv(m.r) /\ Fits(m.r, HardMax, new, <<k>>)
  BY DEF Roomy
<1>2. ErasedAll(m.r, sibling_ranges(m.r, k), q)
  BY <1>1, SiblingsErased
<1>3. RoomFor(q, new)
  BY <1>1, <1>2, FitsWithoutRanges DEF RoomFor
<1>4. RepoInv(q) /\ Shrunk(m.r, q) /\ DOMAIN q.canon = DOMAIN m.r.canon \ sibling_ranges(m.r, k)
  BY <1>2 DEF ErasedAll
<1>5. Outcome(m.r, q)
  BY <1>1, <1>4, ShrunkOutcome
<1>6. k \notin sibling_ranges(m.r, k)
  BY DEF sibling_ranges, is_stream_sibling_range
<1>7. Blank(q.canon, k)
  BY <1>4, <1>6 DEF Blank, Shrunk, Part
<1> QED
  BY <1>3, <1>5, <1>7

LEMMA PublishCanonical ==
  ASSUME NEW r, RepoInv(r), Within(r.stats), NEW fuel \in Int, NEW k, NEW bytes \in Nat,
         NEW res, res = publish_canonical(r, fuel, k, bytes)
  PROVE  Outcome(r, res.r)
<1>1. CASE ~BuildingCanonical(r, k)
  <2>1. res.r = r
    BY <1>1 DEF publish_canonical, Result
  <2>2. Shrunk(r, r)
    BY ShrunkSelf
  <2> QED
    BY <2>1, <2>2, ShrunkOutcome
<1>2. CASE BuildingCanonical(r, k)
  <2>1. PICK q : q = return_build_bytes(r, k)
    OBVIOUS
  <2>2. RepoInv(q) /\ Lighter(r, q) /\ Blank(q.canon, k)
    BY <1>2, <2>1, ReturnsBuildBytes
  <2>3. Outcome(r, q) /\ Within(q.stats)
    BY <2>2, LighterOutcome DEF Outcome
  <2>4. PICK new \in Nat : new = charge(bytes)
    BY ChargeAdd
  <2>5. PICK excl : excl = IF FullStream(k) THEN <<k>> ELSE <<>>
    OBVIOUS
  <2>6. PICK m : m = make_hard_room(q, fuel, new, <<k>>, <<>>, k, excl)
    OBVIOUS
  <2>7. res = ready_canonical(m, k, bytes)
    BY <1>2, <2>1, <2>4, <2>5, <2>6 DEF publish_canonical
  <2>8. Roomy(q, m, new, <<k>>, <<>>, excl)
    BY <2>2, <2>6, HardRoom
  <2>9. RepoInv(m.r) /\ Shrunk(q, m.r) /\ m.thrown \in BOOLEAN /\ m.fuel \in Int
    BY <2>8 DEF Roomy
  <2>10. Outcome(q, m.r) /\ Within(m.r.stats)
    BY <2>2, <2>3, <2>9, ShrunkOutcome DEF Outcome
  <2>11. Blank(m.r.canon, k)
    BY <2>2, <2>8, BlankHeld
  <2>12. Outcome(m.r, res.r)
    <3>1. CASE m.thrown
      <4>1. res.r = m.r
        BY <2>7, <3>1 DEF ready_canonical, with_room, Result
      <4>2. Shrunk(m.r, m.r)
        BY <2>9, ShrunkSelf
      <4> QED
        BY <2>9, <2>10, <4>1, <4>2, ShrunkOutcome
    <3>2. CASE ~m.thrown /\ ~m.ok
      <4>1. res.r = abandon_canonical(m.r, k)
        BY <2>7, <3>2 DEF ready_canonical, with_room, Result
      <4>2. RepoInv(res.r) /\ Shrunk(m.r, res.r)
        BY <2>9, <2>11, <4>1, AbandonsCanonical
      <4> QED
        BY <2>9, <2>10, <4>2, ShrunkOutcome
    <3>3. CASE ~m.thrown /\ m.ok
      <4>1. PICK e : e = IF FullStream(k) THEN erase_stream_sibling_ranges(m.r, k) ELSE m.r
        OBVIOUS
      <4>2. PICK s : s = mark_ready(e, k, bytes)
        OBVIOUS
      <4>3. res = settled(enforce_soft_budget(s, m.fuel, <<k>>, <<>>), k)
        BY <2>7, <3>3, <4>1, <4>2 DEF ready_canonical, with_room
      <4>4. Outcome(m.r, e) /\ RoomFor(e, new) /\ Blank(e.canon, k)
        <5>1. CASE FullStream(k)
          <6>1. Roomy(q, m, new, <<k>>, <<>>, <<k>>)
            BY <2>5, <2>8, <5>1
          <6>2. e = erase_stream_sibling_ranges(m.r, k)
            BY <4>1, <5>1
          <6> QED
            BY <2>10, <2>11, <3>3, <5>1, <6>1, <6>2, RangesMakeRoom
        <5>2. CASE ~FullStream(k)
          <6>1. Roomy(q, m, new, <<k>>, <<>>, <<>>)
            BY <2>5, <2>8, <5>2
          <6>2. e = m.r
            BY <4>1, <5>2
          <6>3. RoomFor(m.r, new)
            BY <3>3, <6>1, RoomGranted
          <6>4. Outcome(m.r, m.r)
            BY <2>9, <2>10, ShrunkSelf, ShrunkOutcome
          <6> QED
            BY <2>11, <6>2, <6>3, <6>4
        <5> QED
          BY <5>1, <5>2
      <4>5. RepoInv(e) /\ RoomFor(e, charge(bytes))
        BY <2>4, <4>4 DEF Outcome
      <4>6. Outcome(e, s)
        BY <4>2, <4>4, <4>5, MarkedReady
      <4>7. RepoInv(s) /\ Within(s.stats)
        BY <4>6 DEF Outcome
      <4>8. Outcome(s, res.r)
        BY <2>9, <4>3, <4>7, Settles
      <4> QED
        BY <4>4, <4>6, <4>8, OutcomeTwice
    <3> QED
      BY <3>1, <3>2, <3>3
  <2> QED
    BY <2>3, <2>10, <2>12, OutcomeTwice
<1> QED
  BY <1>1, <1>2

(***************************************************************************)
(* The methods on indexes.                                                 *)
(***************************************************************************)
\* The owner of the index i is there and ready, with the generation i names.
Owned(r, i) ==
  i[1] \in DOMAIN r.canon /\ r.canon[i[1]].st = "ready" /\ r.canon[i[1]].gen = i[2]

LEMMA Peeks ==
  ASSUME NEW r, NEW k, NEW g, peek_canonical(r, k) = <<g>>
  PROVE  k \in DOMAIN r.canon /\ r.canon[k].st = "ready" /\ r.canon[k].gen = g
<1>1. peek_canonical(r, k) # <<>>
  OBVIOUS
<1>2. k \in DOMAIN r.canon /\ r.canon[k].st = "ready"
  BY <1>1 DEF peek_canonical
<1>3. peek_canonical(r, k) = <<r.canon[k].gen>>
  BY <1>2 DEF peek_canonical
<1>4. <<r.canon[k].gen>> = <<g>>
  BY <1>3
<1>5. r.canon[k].gen = g
  BY <1>4
<1> QED
  BY <1>2, <1>5

LEMMA OwnedInShrunk ==
  ASSUME NEW r, NEW s, NEW i, Owned(r, i), Shrunk(r, s), i[1] \in DOMAIN s.canon
  PROVE  Owned(s, i)
BY DEF Owned, Shrunk, Part

\* The owner of an index is protected while room is made for the index.
LEMMA OwnerHeld ==
  ASSUME NEW r, NEW i, Owned(r, i), NEW m, NEW new, NEW protIdx, NEW excl,
         Roomy(r, m, new, <<i[1]>>, protIdx, excl)
  PROVE  Owned(m.r, i)
<1>1. i[1] \in Held(r, <<i[1]>>)
  BY DEF Held, Owned
<1>2. i[1] \in DOMAIN m.r.canon /\ Shrunk(r, m.r)
  BY <1>1 DEF Roomy
<1> QED
  BY <1>2, OwnedInShrunk

LEMMA BlankIndexHeld ==
  ASSUME NEW r, NEW i, Blank(r.index, i), NEW m, NEW new, NEW excl,
         Roomy(r, m, new, <<i[1]>>, <<i>>, excl)
  PROVE  Blank(m.r.index, i)
<1>1. i \in HeldIdx(r, <<i[1]>>, <<i>>)
  BY DEF HeldIdx, Blank
<1>2. i \in DOMAIN m.r.index /\ Part(r.index, m.r.index)
  BY <1>1 DEF Roomy, Shrunk
<1>3. m.r.index[i] = r.index[i]
  BY <1>2 DEF Part
<1> QED
  BY <1>2, <1>3 DEF Blank

\* The repository with the entry that begin_index makes.
started_index(r, i, bytes) ==
  add_bytes([r EXCEPT !.index = With(@, i, [st |-> "building", res |-> 0, bld |-> bytes]),
                      !.ilru = Touched(@, i)], "build", bytes)

LEMMA StartedIndex ==
  ASSUME NEW r, RepoInv(r), NEW i \in IndexKeys, i \notin DOMAIN r.index, Owned(r, i),
         NEW bytes \in Nat, RoomFor(r, charge(bytes)), NEW q, q = started_index(r, i, bytes)
  PROVE  Outcome(r, q) /\ i \in DOMAIN q.index
<1>1. /\ Record(r) /\ r.stats \in Stats /\ Charged(r.stats) /\ r.lru \in Seq(CacheKeys)
      /\ MapOf(r.index, IndexKeys, IndexEntries) /\ r.ilru \in Seq(IndexKeys)
  BY DEF RepoInv, Typed
<1>2. PICK obj : obj = [st |-> "building", res |-> 0, bld |-> bytes]
  OBVIOUS
<1>3. obj \in IndexEntries /\ obj.st = "building" /\ obj.res = 0 /\ obj.bld = bytes
  BY <1>2 DEF IndexEntries
<1>4. PICK c : c = With(r.index, i, obj)
  OBVIOUS
<1>5. /\ MapOf(c, IndexKeys, IndexEntries) /\ DOMAIN c = DOMAIN r.index \cup {i} /\ c[i] = obj
      /\ \A y \in DOMAIN r.index : y # i => c[y] = r.index[y]
  <2>1. obj \in IndexEntries /\ MapOf(r.index, IndexKeys, IndexEntries)
    BY <1>1, <1>3
  <2>2. Placed(r.index, c, i, obj) /\ MapOf(c, IndexKeys, IndexEntries)
    BY <1>4, <2>1, PlaceMap
  <2> QED
    BY <2>2 DEF Placed
<1>6. PICK r1 : r1 = [r EXCEPT !.index = c, !.ilru = Touched(@, i)]
  OBVIOUS
<1>7. q = add_bytes(r1, "build", bytes)
  BY <1>2, <1>4, <1>6 DEF started_index
<1>8. /\ Record(r1) /\ r1.stats = r.stats /\ r1.index = c /\ r1.ilru = Touched(r.ilru, i)
      /\ r1.canon = r.canon /\ r1.lru = r.lru /\ r1.gens = r.gens /\ r1.tlru = r.tlru
      /\ r1.cursor = r.cursor /\ r1.clru = r.clru /\ r1.binding = r.binding
  BY <1>1, <1>6 DEF Record
<1>9. /\ SameMaps(r1, q) /\ q.stats \in Stats /\ Charged(q.stats)
      /\ q.stats.build = r1.stats.build + bytes /\ AgreeBut(r1.stats, q.stats, "build")
  BY <1>1, <1>7, <1>8, AddBytes DEF ByteNames
<1>10. /\ q.stats.build = r.stats.build + bytes /\ q.stats.resident = r.stats.resident
       /\ q.stats.metadata = r.stats.metadata /\ q.stats.canonicals = r.stats.canonicals
       /\ q.stats.indexes = r.stats.indexes /\ q.stats.generations = r.stats.generations
       /\ q.stats.tombstones = r.stats.tombstones /\ q.stats.cursors = r.stats.cursors
       /\ q.stats.bindings = r.stats.bindings
  BY <1>8, <1>9 DEF AgreeBut, ByteNames, CounterNames
<1>11. /\ Record(q) /\ q.index = c /\ q.ilru = Touched(r.ilru, i)
       /\ q.canon = r.canon /\ q.lru = r.lru /\ q.gens = r.gens /\ q.tlru = r.tlru
       /\ q.cursor = r.cursor /\ q.clru = r.clru /\ q.binding = r.binding
  BY <1>8, <1>9 DEF SameMaps
<1>12. q.ilru \in Seq(IndexKeys)
  BY <1>1, <1>11, TouchedSeq
<1>13. r.stats.resident \in Nat /\ r.stats.build \in Nat /\ r.stats.indexes \in Nat
  BY <1>1 DEF Stats
<1>14. Puts(r.index, q.index, i) /\ Old(r.index, i) = 0 /\ One(q.index[i]) = 0
  BY <1>3, <1>5, <1>11 DEF Puts, Old, One
<1>15. PutIndex(r, q, i)
  <2>1. /\ q.stats.resident = r.stats.resident + q.index[i].res
        /\ q.stats.build = r.stats.build - Old(r.index, i) + q.index[i].bld
        /\ q.stats.indexes = r.stats.indexes + One(q.index[i])
        /\ q.index[i].res = 0
    BY <1>3, <1>5, <1>10, <1>11, <1>13, <1>14
  <2> QED
    BY <1>1, <1>5, <1>9, <1>10, <1>11, <1>12, <1>14, <2>1 DEF PutIndex, Owned
<1>16. RepoInv(q)
  BY <1>15, IndexPut
<1>17. Within(q.stats)
  <2>1. charge(r.stats.build + bytes) = charge(r.stats.build) + charge(bytes)
    BY <1>13, ChargeAdd
  <2>2. charge(r.stats.resident) \in Nat /\ charge(r.stats.build) \in Nat /\ charge(bytes) \in Nat
    BY <1>13, ChargeAdd
  <2> QED
    BY <1>10, <2>1, <2>2, BudgetAssumption DEF Within, RoomFor, ConfigAccepted
<1> QED
  BY <1>5, <1>11, <1>16, <1>17 DEF Outcome, Part

LEMMA ReturnsIndexBytes ==
  ASSUME NEW r, RepoInv(r), NEW i, BuildingIndex(r, i), NEW q, q = return_index_bytes(r, i)
  PROVE  RepoInv(q) /\ Lighter(r, q) /\ Blank(q.index, i) /\ Owned(q, i)
<1>1. /\ Record(r) /\ r.stats \in Stats /\ Charged(r.stats) /\ r.lru \in Seq(CacheKeys)
      /\ MapOf(r.index, IndexKeys, IndexEntries) /\ r.ilru \in Seq(IndexKeys)
  BY DEF RepoInv, Typed
<1>2. /\ i \in DOMAIN r.index /\ r.index[i].st = "building" /\ r.index[i].res = 0
      /\ Owned(r, i)
  BY DEF RepoInv, Linked, NotYetResident, BuildingIndex, Owned
<1>3. PICK b : b = r.index[i].bld
  OBVIOUS
<1>4. b \in Nat /\ b <= r.stats.build
  BY <1>2, <1>3, BuildBytes
<1>5. PICK r1 : r1 = remove_bytes(r, "build", b)
  OBVIOUS
<1>6. /\ SameMaps(r, r1) /\ r1.stats \in Stats /\ Charged(r1.stats)
      /\ r1.stats.build = r.stats.build - b /\ AgreeBut(r.stats, r1.stats, "build")
  BY <1>1, <1>4, <1>5, RemoveBytes DEF ByteNames
<1>7. q = [r1 EXCEPT !.index[i].bld = 0]
  BY <1>3, <1>5 DEF return_index_bytes
<1>8. /\ Record(q) /\ q.stats = r1.stats /\ q.index = SetBld(r.index, i, 0)
      /\ q.lru = r.lru /\ q.canon = r.canon /\ q.ilru = r.ilru /\ q.gens = r.gens
      /\ q.tlru = r.tlru /\ q.cursor = r.cursor /\ q.clru = r.clru /\ q.binding = r.binding
  BY <1>6, <1>7 DEF SameMaps, Record, SetBld
<1>9. PICK h : h = q.index
  OBVIOUS
<1>10. /\ MapOf(h, IndexKeys, IndexEntries) /\ Reset(r.index, h, i)
       /\ h[i].st = r.index[i].st /\ h[i].res = r.index[i].res /\ h[i].bld = 0
  BY <1>1, <1>2, <1>8, <1>9, SetsIndexBld
<1>11. Puts(r.index, h, i) /\ Old(r.index, i) = b /\ One(h[i]) = 0
  <2>1. DOMAIN h = DOMAIN r.index /\ \A y \in DOMAIN r.index : y # i => h[y] = r.index[y]
    BY <1>10 DEF Reset
  <2>2. Puts(r.index, h, i)
    BY <1>2, <2>1 DEF Puts
  <2> QED
    BY <1>2, <1>3, <1>10, <2>2 DEF Old, One
<1>12. /\ q.stats.build = r.stats.build - b /\ q.stats.resident = r.stats.resident
       /\ q.stats.metadata = r.stats.metadata /\ q.stats.canonicals = r.stats.canonicals
       /\ q.stats.indexes = r.stats.indexes /\ q.stats.generations = r.stats.generations
       /\ q.stats.tombstones = r.stats.tombstones /\ q.stats.cursors = r.stats.cursors
       /\ q.stats.bindings = r.stats.bindings
  BY <1>6, <1>8 DEF AgreeBut, ByteNames, CounterNames
<1>13. r.stats.resident \in Nat /\ r.stats.build \in Nat /\ r.stats.indexes \in Nat
  BY <1>1 DEF Stats
<1>14. PutIndex(r, q, i)
  <2>1. /\ q.stats.resident = r.stats.resident + h[i].res
        /\ q.stats.build = r.stats.build - Old(r.index, i) + h[i].bld
        /\ q.stats.indexes = r.stats.indexes + One(h[i])
        /\ h[i].res = 0
    BY <1>2, <1>4, <1>10, <1>11, <1>12, <1>13
  <2> QED
    BY <1>1, <1>2, <1>6, <1>8, <1>9, <1>10, <1>11, <1>12, <2>1 DEF PutIndex, Owned
<1>15. RepoInv(q)
  BY <1>14, IndexPut
<1>16. Lighter(r, q)
  BY <1>4, <1>8, <1>12, <1>13 DEF Lighter
<1>17. Blank(q.index, i)
  BY <1>2, <1>9, <1>10 DEF Blank, Reset
<1>18. Owned(q, i)
  BY <1>2, <1>8 DEF Owned
<1> QED
  BY <1>15, <1>16, <1>17, <1>18

\* The entry of i with the bytes its build needs now.
refilled_index(r, i, bytes) == add_bytes([r EXCEPT !.index[i].bld = bytes], "build", bytes)

LEMMA RefilledIndex ==
  ASSUME NEW r, RepoInv(r), NEW i, Blank(r.index, i), NEW bytes \in Nat,
         RoomFor(r, charge(bytes)), NEW q, q = refilled_index(r, i, bytes)
  PROVE  Outcome(r, q) /\ BuildingIndex(q, i)
<1>1. /\ Record(r) /\ r.stats \in Stats /\ Charged(r.stats) /\ r.lru \in Seq(CacheKeys)
      /\ MapOf(r.index, IndexKeys, IndexEntries) /\ r.ilru \in Seq(IndexKeys)
  BY DEF RepoInv, Typed
<1>2. /\ i \in DOMAIN r.index /\ r.index[i].st = "building" /\ r.index[i].res = 0
      /\ r.index[i].bld = 0 /\ Owned(r, i)
  BY DEF RepoInv, Linked, Blank, Owned
<1>3. PICK r1 : r1 = [r EXCEPT !.index[i].bld = bytes]
  OBVIOUS
<1>4. /\ Record(r1) /\ r1.stats = r.stats /\ r1.index = SetBld(r.index, i, bytes)
      /\ r1.lru = r.lru /\ r1.canon = r.canon /\ r1.ilru = r.ilru /\ r1.gens = r.gens
      /\ r1.tlru = r.tlru /\ r1.cursor = r.cursor /\ r1.clru = r.clru
      /\ r1.binding = r.binding
  BY <1>1, <1>3 DEF Record, SetBld
<1>5. q = add_bytes(r1, "build", bytes)
  BY <1>3 DEF refilled_index
<1>6. /\ SameMaps(r1, q) /\ q.stats \in Stats /\ Charged(q.stats)
      /\ q.stats.build = r1.stats.build + bytes /\ AgreeBut(r1.stats, q.stats, "build")
  BY <1>1, <1>4, <1>5, AddBytes DEF ByteNames
<1>7. /\ Record(q) /\ q.index = SetBld(r.index, i, bytes)
      /\ q.lru = r.lru /\ q.canon = r.canon /\ q.ilru = r.ilru /\ q.gens = r.gens
      /\ q.tlru = r.tlru /\ q.cursor = r.cursor /\ q.clru = r.clru /\ q.binding = r.binding
  BY <1>4, <1>6 DEF SameMaps
<1>8. PICK h : h = q.index
  OBVIOUS
<1>9. /\ MapOf(h, IndexKeys, IndexEntries) /\ Reset(r.index, h, i)
      /\ h[i].st = r.index[i].st /\ h[i].res = r.index[i].res /\ h[i].bld = bytes
  BY <1>1, <1>2, <1>7, <1>8, SetsIndexBld
<1>10. Puts(r.index, h, i) /\ Old(r.index, i) = 0 /\ One(h[i]) = 0
  <2>1. DOMAIN h = DOMAIN r.index /\ \A y \in DOMAIN r.index : y # i => h[y] = r.index[y]
    BY <1>9 DEF Reset
  <2>2. Puts(r.index, h, i)
    BY <1>2, <2>1 DEF Puts
  <2> QED
    BY <1>2, <1>9, <2>2 DEF Old, One
<1>11. /\ q.stats.build = r.stats.build + bytes /\ q.stats.resident = r.stats.resident
       /\ q.stats.metadata = r.stats.metadata /\ q.stats.canonicals = r.stats.canonicals
       /\ q.stats.indexes = r.stats.indexes /\ q.stats.generations = r.stats.generations
       /\ q.stats.tombstones = r.stats.tombstones /\ q.stats.cursors = r.stats.cursors
       /\ q.stats.bindings = r.stats.bindings
  BY <1>4, <1>6 DEF AgreeBut, ByteNames, CounterNames
<1>12. r.stats.resident \in Nat /\ r.stats.build \in Nat /\ r.stats.indexes \in Nat
  BY <1>1 DEF Stats
<1>13. PutIndex(r, q, i)
  <2>1. /\ q.stats.resident = r.stats.resident + h[i].res
        /\ q.stats.build = r.stats.build - Old(r.index, i) + h[i].bld
        /\ q.stats.indexes = r.stats.indexes + One(h[i])
        /\ h[i].res = 0
    BY <1>2, <1>9, <1>10, <1>11, <1>12
  <2> QED
    BY <1>1, <1>2, <1>6, <1>7, <1>8, <1>9, <1>10, <1>11, <2>1 DEF PutIndex, Owned
<1>14. RepoInv(q)
  BY <1>13, IndexPut
<1>15. Within(q.stats)
  <2>1. charge(r.stats.build + bytes) = charge(r.stats.build) + charge(bytes)
    BY <1>12, ChargeAdd
  <2>2. charge(r.stats.resident) \in Nat /\ charge(r.stats.build) \in Nat /\ charge(bytes) \in Nat
    BY <1>12, ChargeAdd
  <2> QED
    BY <1>11, <2>1, <2>2, BudgetAssumption DEF Within, RoomFor, ConfigAccepted
<1>16. BuildingIndex(q, i)
  BY <1>2, <1>8, <1>9 DEF BuildingIndex, Reset
<1> QED
  BY <1>7, <1>14, <1>15, <1>16 DEF Outcome, Part

LEMMA MarkedIndexReady ==
  ASSUME NEW r, RepoInv(r), NEW i, Blank(r.index, i), NEW bytes \in Nat,
         RoomFor(r, charge(bytes)), NEW q, q = mark_index_ready(r, i, bytes)
  PROVE  Outcome(r, q) /\ i \in IndexKeys
<1>1. /\ Record(r) /\ r.stats \in Stats /\ Charged(r.stats) /\ r.lru \in Seq(CacheKeys)
      /\ MapOf(r.index, IndexKeys, IndexEntries) /\ r.ilru \in Seq(IndexKeys)
  BY DEF RepoInv, Typed
<1>2. /\ i \in DOMAIN r.index /\ r.index[i].st = "building" /\ r.index[i].res = 0
      /\ r.index[i].bld = 0 /\ Owned(r, i)
  BY DEF RepoInv, Linked, Blank, Owned
<1>3. PICK r1 : r1 = [r EXCEPT !.index[i].st = "ready", !.index[i].res = bytes]
  OBVIOUS
<1>4. /\ Record(r1) /\ r1.stats = r.stats /\ r1.index = SetReady(r.index, i, bytes)
      /\ r1.lru = r.lru /\ r1.canon = r.canon /\ r1.ilru = r.ilru
      /\ r1.gens = r.gens /\ r1.tlru = r.tlru /\ r1.cursor = r.cursor /\ r1.clru = r.clru
      /\ r1.binding = r.binding
  BY <1>1, <1>3 DEF Record, SetReady
<1>5. PICK r2 : r2 = add_bytes(r1, "resident", bytes)
  OBVIOUS
<1>6. q = counted(r2, "indexes", 1)
  BY <1>3, <1>5 DEF mark_index_ready
<1>7. /\ SameMaps(r1, r2) /\ r2.stats \in Stats /\ Charged(r2.stats)
      /\ r2.stats.resident = r1.stats.resident + bytes
      /\ AgreeBut(r1.stats, r2.stats, "resident")
  BY <1>1, <1>4, <1>5, AddBytes DEF ByteNames
<1>8. Record(r2)
  BY <1>7 DEF SameMaps
<1>9. /\ SameMaps(r2, q) /\ q.stats \in Stats /\ Charged(q.stats)
      /\ q.stats.indexes = r2.stats.indexes + 1
      /\ AgreeBut(r2.stats, q.stats, "indexes")
  BY <1>6, <1>7, <1>8, Counting DEF CounterNames
<1>10. /\ Record(q) /\ q.index = SetReady(r.index, i, bytes) /\ q.lru = r.lru
       /\ q.canon = r.canon /\ q.ilru = r.ilru /\ q.gens = r.gens
       /\ q.tlru = r.tlru /\ q.cursor = r.cursor /\ q.clru = r.clru /\ q.binding = r.binding
  BY <1>4, <1>7, <1>9 DEF SameMaps
<1>11. PICK h : h = q.index
  OBVIOUS
<1>12. /\ MapOf(h, IndexKeys, IndexEntries) /\ Reset(r.index, h, i)
       /\ h[i].st = "ready" /\ h[i].res = bytes /\ h[i].bld = r.index[i].bld
  BY <1>1, <1>2, <1>10, <1>11, SetsIndexReady
<1>13. Puts(r.index, h, i) /\ Old(r.index, i) = 0 /\ One(h[i]) = 1
  <2>1. DOMAIN h = DOMAIN r.index /\ \A y \in DOMAIN r.index : y # i => h[y] = r.index[y]
    BY <1>12 DEF Reset
  <2>2. Puts(r.index, h, i)
    BY <1>2, <2>1 DEF Puts
  <2> QED
    BY <1>2, <1>12, <2>2 DEF Old, One
<1>14. /\ r2.stats.build = r.stats.build /\ r2.stats.resident = r.stats.resident + bytes
       /\ r2.stats.metadata = r.stats.metadata /\ r2.stats.canonicals = r.stats.canonicals
       /\ r2.stats.indexes = r.stats.indexes /\ r2.stats.generations = r.stats.generations
       /\ r2.stats.tombstones = r.stats.tombstones /\ r2.stats.cursors = r.stats.cursors
       /\ r2.stats.bindings = r.stats.bindings
  BY <1>4, <1>7 DEF AgreeBut, ByteNames, CounterNames
<1>15. /\ q.stats.build = r2.stats.build /\ q.stats.resident = r2.stats.resident
       /\ q.stats.metadata = r2.stats.metadata
       /\ q.stats.indexes = r2.stats.indexes + 1
       /\ q.stats.canonicals = r2.stats.canonicals /\ q.stats.generations = r2.stats.generations
       /\ q.stats.tombstones = r2.stats.tombstones /\ q.stats.cursors = r2.stats.cursors
       /\ q.stats.bindings = r2.stats.bindings
  BY <1>9 DEF AgreeBut, ByteNames, CounterNames
<1>16. r.stats.resident \in Nat /\ r.stats.build \in Nat /\ r.stats.indexes \in Nat
  BY <1>1 DEF Stats
<1>17. i \in IndexKeys
  BY <1>1, <1>2 DEF MapOf
<1>18. PutIndex(r, q, i)
  <2>1. /\ q.stats.resident = r.stats.resident + h[i].res
        /\ q.stats.build = r.stats.build - Old(r.index, i) + h[i].bld
        /\ q.stats.indexes = r.stats.indexes + One(h[i])
        /\ h[i].st # "building"
    BY <1>2, <1>12, <1>13, <1>14, <1>15, <1>16
  <2> QED
    BY <1>1, <1>2, <1>9, <1>10, <1>11, <1>12, <1>13, <1>14, <1>15, <2>1
    DEF PutIndex, Owned
<1>19. RepoInv(q)
  BY <1>18, IndexPut
<1>20. Within(q.stats)
  <2>1. charge(r.stats.resident + bytes) = charge(r.stats.resident) + charge(bytes)
    BY <1>16, ChargeAdd
  <2>2. charge(r.stats.resident) \in Nat /\ charge(r.stats.build) \in Nat /\ charge(bytes) \in Nat
    BY <1>16, ChargeAdd
  <2> QED
    BY <1>14, <1>15, <2>1, <2>2, BudgetAssumption DEF Within, RoomFor, ConfigAccepted
<1> QED
  BY <1>10, <1>17, <1>19, <1>20 DEF Outcome, Part

\* A blank index that is dropped leaves every counter as it is.
LEMMA DropsIndex ==
  ASSUME NEW r, RepoInv(r), NEW i, Blank(r.index, i), NEW q, q = drop_index(r, i)
  PROVE  RepoInv(q) /\ Shrunk(r, q)
<1>1. /\ Record(r) /\ MapOf(r.index, IndexKeys, IndexEntries) /\ r.ilru \in Seq(IndexKeys)
      /\ r.stats \in Stats
  BY DEF RepoInv, Typed
<1>2. /\ Record(q) /\ q.index = Without(r.index, {i}) /\ q.ilru = Dropped(r.ilru, {i})
      /\ q.canon = r.canon /\ q.lru = r.lru /\ q.gens = r.gens /\ q.tlru = r.tlru
      /\ q.cursor = r.cursor /\ q.clru = r.clru /\ q.binding = r.binding /\ q.stats = r.stats
  BY <1>1 DEF drop_index, Record
<1>3. PICK f : f = r.index
  OBVIOUS
<1>4. PICK h : h = Without(f, {i})
  OBVIOUS
<1>5. MapOf(f, IndexKeys, IndexEntries) /\ Measured(f, "res") /\ Measured(f, "bld")
      /\ IsFiniteSet(DOMAIN f) /\ {i} \in SUBSET DOMAIN f
  BY <1>3, ObjectFacts DEF Blank
<1>6. /\ MapOf(h, IndexKeys, IndexEntries) /\ DOMAIN h = DOMAIN f \ {i}
      /\ \A x \in DOMAIN f \ {i} : h[x] = f[x]
  BY <1>4, <1>5, WithoutMap
<1>7. q.ilru \in Seq(IndexKeys)
  BY <1>1, <1>2, DroppedSeq
<1>8. Typed(q)
  BY <1>2, <1>3, <1>4, <1>6, <1>7 DEF RepoInv, Typed
<1>9. Part(r.index, q.index)
  BY <1>2, <1>3, <1>4, <1>6 DEF Part
<1>10. Linked(q) /\ NotYetResident(q)
  <2>1. \A x \in DOMAIN q.index : x \in DOMAIN r.index /\ q.index[x] = r.index[x]
    BY <1>9 DEF Part
  <2>2. \A x \in DOMAIN q.index : Owned(r, x)
    BY <2>1 DEF RepoInv, Linked, Owned
  <2>3. Linked(r) /\ NotYetResident(r)
    BY DEF RepoInv
  <2>4. Linked(q)
    BY <1>2, <2>2, <2>3 DEF Linked, Owned
  <2> QED
    BY <1>2, <2>1, <2>3, <2>4 DEF NotYetResident
<1>11. ASSUME NEW field \in {"res", "bld"}
       PROVE  Total(h, field) = Total(f, field)
  <2>1. Measured(f, field) /\ f[i][field] = 0
    BY <1>3, <1>5 DEF Blank
  <2>2. Countable(f, {i}, field) /\ i \in {i}
    BY <1>5, <2>1, CountableSubset DEF Measured
  <2>3. {i} \ {i} = {}
    OBVIOUS
  <2>4. BytesOf(f, {i}, field) = f[i][field] + BytesOf(f, {}, field)
    BY <2>2, <2>3, BytesOne
  <2>5. BytesOf(f, {i}, field) = 0
    BY <2>1, <2>4, BytesNone
  <2>6. /\ Total(Without(f, {i}), field) = Total(f, field) - BytesOf(f, {i}, field)
        /\ Total(f, field) \in Nat
    BY <1>5, <2>1, TotalWithout
  <2> QED
    BY <1>4, <2>5, <2>6
<1>12. Ready(h) = Ready(f)
  <2>1. {x \in {i} : f[x].st = "ready"} = {}
    BY <1>3 DEF Blank
  <2>2. ReadyCount(f, {i}) = 0
    BY <2>1, FS_EmptySet DEF ReadyCount
  <2>3. Ready(Without(f, {i})) = Ready(f) - ReadyCount(f, {i}) /\ Ready(f) \in Nat
    BY <1>5, ReadyWithout
  <2> QED
    BY <1>4, <2>2, <2>3
<1>13. Tallied(q)
  <2>1. Total(q.index, "res") = Total(r.index, "res") /\ Total(q.index, "bld") = Total(r.index, "bld")
    BY <1>2, <1>3, <1>4, <1>11
  <2>2. Ready(q.index) = Ready(r.index)
    BY <1>2, <1>3, <1>4, <1>12
  <2> QED
    BY <1>2, <2>1, <2>2 DEF RepoInv, Tallied
<1>14. Shrunk(r, q)
  <2>1. r.stats.resident \in Nat /\ r.stats.build \in Nat
    BY <1>1 DEF Stats
  <2>2. Part(r.canon, q.canon) /\ Part(r.cursor, q.cursor) /\ Part(r.gens, q.gens)
    BY <1>2 DEF Part
  <2> QED
    BY <1>2, <1>9, <2>1, <2>2 DEF Shrunk
<1> QED
  BY <1>2, <1>8, <1>10, <1>13, <1>14 DEF RepoInv

\* Recording an access to an index changes no counter and no map.
LEMMA TouchesIndex ==
  ASSUME NEW r, RepoInv(r), NEW i \in IndexKeys, NEW q, q = touch_index(r, i)
  PROVE  RepoInv(q) /\ Shrunk(r, q) /\ q.index = r.index
<1>1. Record(r) /\ r.lru \in Seq(CacheKeys) /\ r.ilru \in Seq(IndexKeys) /\ r.clru \in Seq(Name)
  BY DEF RepoInv, Typed
<1>2. /\ Record(q) /\ q.lru = Touched(r.lru, i[1]) /\ q.ilru = Touched(r.ilru, i)
      /\ q.clru = r.clru /\ q.canon = r.canon /\ q.index = r.index /\ q.gens = r.gens
      /\ q.tlru = r.tlru /\ q.cursor = r.cursor /\ q.binding = r.binding /\ q.stats = r.stats
  BY <1>1 DEF touch_index, Record
<1>3. PICK k \in CacheKeys : k = i[1]
  BY DEF IndexKeys
<1>4. q.lru \in Seq(CacheKeys)
  BY <1>1, <1>2, <1>3, TouchedSeq
<1>5. q.ilru \in Seq(IndexKeys)
  BY <1>1, <1>2, TouchedSeq
<1>6. Reordered(r, q)
  BY <1>1, <1>2, <1>4, <1>5 DEF Reordered
<1> QED
  BY <1>2, <1>6, Reordering

\* A started build leaves its index in the repository.
LEMMA BeginIndex ==
  ASSUME NEW r, RepoInv(r), Within(r.stats), NEW fuel \in Int, NEW i \in IndexKeys,
         NEW bytes \in Nat, NEW res, res = begin_index(r, fuel, i, bytes)
  PROVE  /\ Outcome(r, res.r)
         /\ ~res.thrown /\ res.status = "started" => i \in DOMAIN res.r.index
<1>0. Outcome(r, r)
  BY ShrunkSelf, ShrunkOutcome
<1>1. CASE peek_canonical(r, i[1]) # <<i[2]>>
  <2>1. res = Result(r, FALSE, "rejected")
    BY <1>1 DEF begin_index
  <2> QED
    BY <1>0, <2>1 DEF Result
<1>2. CASE peek_canonical(r, i[1]) = <<i[2]>> /\ i \in DOMAIN r.index
  <2>1. CASE r.index[i].st = "building"
    <3>1. res = Result(r, FALSE, "reentrant")
      BY <1>2, <2>1 DEF begin_index
    <3> QED
      BY <1>0, <3>1 DEF Result
  <2>2. CASE r.index[i].st # "building"
    <3>1. PICK q : q = touch_index(r, i)
      OBVIOUS
    <3>2. res = Result(q, FALSE, "hit")
      BY <1>2, <2>2, <3>1 DEF begin_index
    <3>3. RepoInv(q) /\ Shrunk(r, q)
      BY <3>1, TouchesIndex
    <3>4. Outcome(r, q)
      BY <3>3, ShrunkOutcome
    <3> QED
      BY <3>2, <3>4 DEF Result
  <2> QED
    BY <2>1, <2>2
<1>3. CASE peek_canonical(r, i[1]) = <<i[2]>> /\ i \notin DOMAIN r.index
  <2>1. PICK new \in Nat : new = charge(bytes)
    BY ChargeAdd
  <2>2. PICK m : m = make_hard_room(r, fuel, new, <<i[1]>>, <<>>, i[1], <<>>)
    OBVIOUS
  <2>3. res = start_index(m, i, bytes)
    BY <1>3, <2>1, <2>2 DEF begin_index
  <2>4. Roomy(r, m, new, <<i[1]>>, <<>>, <<>>)
    BY <2>2, HardRoom
  <2>5. RepoInv(m.r) /\ Shrunk(r, m.r) /\ m.thrown \in BOOLEAN
    BY <2>4 DEF Roomy
  <2>6. Outcome(r, m.r)
    BY <2>5, ShrunkOutcome
  <2>7. CASE m.thrown \/ ~m.ok
    <3>1. res = Result(m.r, m.thrown, "rejected")
      BY <2>3, <2>7 DEF start_index
    <3> QED
      BY <2>6, <3>1 DEF Result
  <2>8. CASE ~(m.thrown \/ ~m.ok)
    <3>1. ~m.thrown /\ m.ok
      BY <2>8
    <3>2. RoomFor(m.r, charge(bytes))
      BY <2>1, <2>4, <3>1, RoomGranted
    <3>3. Owned(r, i)
      BY <1>3, Peeks DEF Owned
    <3>4. Owned(m.r, i)
      BY <2>4, <3>3, OwnerHeld
    <3>5. i \notin DOMAIN m.r.index
      BY <1>3, <2>5 DEF Shrunk, Part
    <3>6. res.r = started_index(m.r, i, bytes)
      BY <2>3, <2>8 DEF start_index, started_index, Result
    <3>7. Outcome(m.r, res.r) /\ i \in DOMAIN res.r.index
      BY <2>5, <3>2, <3>4, <3>5, <3>6, StartedIndex
    <3> QED
      BY <2>6, <3>7, OutcomeTwice
  <2> QED
    BY <2>7, <2>8
<1> QED
  BY <1>1, <1>2, <1>3

LEMMA UpdateIndex ==
  ASSUME NEW r, RepoInv(r), Within(r.stats), NEW fuel \in Int, NEW i, NEW bytes \in Nat,
         NEW res, res = update_index_build_bytes(r, fuel, i, bytes)
  PROVE  /\ Outcome(r, res.r)
         /\ ~res.thrown /\ res.status = "ok" => i \in DOMAIN res.r.index
<1>1. CASE ~BuildingIndex(r, i)
  <2>1. res = Result(r, FALSE, "rejected")
    BY <1>1 DEF update_index_build_bytes
  <2>2. Outcome(r, r)
    BY ShrunkSelf, ShrunkOutcome
  <2> QED
    BY <2>1, <2>2 DEF Result
<1>2. CASE BuildingIndex(r, i)
  <2>1. PICK q : q = return_index_bytes(r, i)
    OBVIOUS
  <2>2. RepoInv(q) /\ Lighter(r, q) /\ Blank(q.index, i) /\ Owned(q, i)
    BY <1>2, <2>1, ReturnsIndexBytes
  <2>3. Outcome(r, q) /\ Within(q.stats)
    BY <2>2, LighterOutcome DEF Outcome
  <2>4. PICK new \in Nat : new = charge(bytes)
    BY ChargeAdd
  <2>5. PICK m : m = make_hard_room(q, fuel, new, <<i[1]>>, <<i>>, i[1], <<>>)
    OBVIOUS
  <2>6. res = rebuild_index(m, i, bytes)
    BY <1>2, <2>1, <2>4, <2>5 DEF update_index_build_bytes, index_room
  <2>7. Roomy(q, m, new, <<i[1]>>, <<i>>, <<>>)
    BY <2>2, <2>5, HardRoom
  <2>8. RepoInv(m.r) /\ Shrunk(q, m.r) /\ m.thrown \in BOOLEAN
    BY <2>7 DEF Roomy
  <2>9. Outcome(q, m.r) /\ Within(m.r.stats)
    BY <2>2, <2>3, <2>8, ShrunkOutcome DEF Outcome
  <2>10. Blank(m.r.index, i)
    BY <2>2, <2>7, BlankIndexHeld
  <2>11. /\ Outcome(m.r, res.r)
         /\ ~res.thrown /\ res.status = "ok" => i \in DOMAIN res.r.index
    <3>1. CASE m.thrown
      <4>1. res = Result(m.r, TRUE, "rejected")
        BY <2>6, <3>1 DEF rebuild_index, with_index_room
      <4>2. Shrunk(m.r, m.r)
        BY <2>8, ShrunkSelf
      <4>3. Outcome(m.r, m.r)
        BY <2>8, <2>9, <4>2, ShrunkOutcome
      <4> QED
        BY <4>1, <4>3 DEF Result
    <3>2. CASE ~m.thrown /\ ~m.ok
      <4>1. PICK d : d = drop_index(m.r, i)
        OBVIOUS
      <4>2. res = Result(d, FALSE, "rejected")
        BY <2>6, <3>2, <4>1 DEF rebuild_index, with_index_room
      <4>3. RepoInv(d) /\ Shrunk(m.r, d)
        BY <2>8, <2>10, <4>1, DropsIndex
      <4>4. Outcome(m.r, d)
        BY <2>8, <2>9, <4>3, ShrunkOutcome
      <4> QED
        BY <4>2, <4>4 DEF Result
    <3>3. CASE ~m.thrown /\ m.ok
      <4>1. res.r = refilled_index(m.r, i, bytes)
        BY <2>6, <3>3 DEF rebuild_index, with_index_room, refilled_index, Result
      <4>2. RoomFor(m.r, charge(bytes))
        BY <2>4, <2>7, <3>3, RoomGranted
      <4>3. Outcome(m.r, res.r) /\ BuildingIndex(res.r, i)
        BY <2>8, <2>10, <4>1, <4>2, RefilledIndex
      <4> QED
        BY <4>3 DEF BuildingIndex
    <3> QED
      BY <3>1, <3>2, <3>3
  <2>12. Outcome(r, m.r)
    BY <2>3, <2>9, OutcomeTwice
  <2>13. Outcome(r, res.r)
    BY <2>11, <2>12, OutcomeTwice
  <2> QED
    BY <2>11, <2>13
<1> QED
  BY <1>1, <1>2

LEMMA FailIndex ==
  ASSUME NEW r, RepoInv(r), Within(r.stats), NEW i, NEW q, q = fail_index(r, i)
  PROVE  Outcome(r, q)
<1>1. CASE ~BuildingIndex(r, i)
  <2>1. q = r
    BY <1>1 DEF fail_index
  <2> QED
    BY <2>1, ShrunkSelf, ShrunkOutcome
<1>2. CASE BuildingIndex(r, i)
  <2>1. PICK s : s = return_index_bytes(r, i)
    OBVIOUS
  <2>2. RepoInv(s) /\ Lighter(r, s) /\ Blank(s.index, i)
    BY <1>2, <2>1, ReturnsIndexBytes
  <2>3. Outcome(r, s) /\ Within(s.stats)
    BY <2>2, LighterOutcome DEF Outcome
  <2>4. q = drop_index(s, i)
    BY <1>2, <2>1 DEF fail_index
  <2>5. RepoInv(q) /\ Shrunk(s, q)
    BY <2>2, <2>4, DropsIndex
  <2>6. Outcome(s, q)
    BY <2>2, <2>3, <2>5, ShrunkOutcome
  <2> QED
    BY <2>3, <2>6, OutcomeTwice
<1> QED
  BY <1>1, <1>2

LEMMA PublishIndex ==
  ASSUME NEW r, RepoInv(r), Within(r.stats), NEW fuel \in Int, NEW i, NEW bytes \in Nat,
         NEW res, res = publish_index(r, fuel, i, bytes)
  PROVE  Outcome(r, res.r)
<1>1. CASE ~BuildingIndex(r, i)
  <2>1. res = Result(r, FALSE, "rejected")
    BY <1>1 DEF publish_index
  <2>2. Outcome(r, r)
    BY ShrunkSelf, ShrunkOutcome
  <2> QED
    BY <2>1, <2>2 DEF Result
<1>2. CASE BuildingIndex(r, i)
  <2>1. PICK q : q = return_index_bytes(r, i)
    OBVIOUS
  <2>2. RepoInv(q) /\ Lighter(r, q) /\ Blank(q.index, i) /\ Owned(q, i)
    BY <1>2, <2>1, ReturnsIndexBytes
  <2>3. Outcome(r, q) /\ Within(q.stats)
    BY <2>2, LighterOutcome DEF Outcome
  <2>4. PICK new \in Nat : new = charge(bytes)
    BY ChargeAdd
  <2>5. PICK m : m = make_hard_room(q, fuel, new, <<i[1]>>, <<i>>, i[1], <<>>)
    OBVIOUS
  <2>6. res = ready_index(m, i, bytes)
    BY <1>2, <2>1, <2>4, <2>5 DEF publish_index, index_room
  <2>7. Roomy(q, m, new, <<i[1]>>, <<i>>, <<>>)
    BY <2>2, <2>5, HardRoom
  <2>8. RepoInv(m.r) /\ Shrunk(q, m.r) /\ m.thrown \in BOOLEAN /\ m.fuel \in Int
    BY <2>7 DEF Roomy
  <2>9. Outcome(q, m.r) /\ Within(m.r.stats)
    BY <2>2, <2>3, <2>8, ShrunkOutcome DEF Outcome
  <2>10. Blank(m.r.index, i)
    BY <2>2, <2>7, BlankIndexHeld
  <2>11. Outcome(m.r, res.r)
    <3>1. CASE m.thrown
      <4>1. res.r = m.r
        BY <2>6, <3>1 DEF ready_index, with_index_room, Result
      <4>2. Shrunk(m.r, m.r)
        BY <2>8, ShrunkSelf
      <4> QED
        BY <2>8, <2>9, <4>1, <4>2, ShrunkOutcome
    <3>2. CASE ~m.thrown /\ ~m.ok
      <4>1. res.r = drop_index(m.r, i)
        BY <2>6, <3>2 DEF ready_index, with_index_room, Result
      <4>2. RepoInv(res.r) /\ Shrunk(m.r, res.r)
        BY <2>8, <2>10, <4>1, DropsIndex
      <4> QED
        BY <2>8, <2>9, <4>2, ShrunkOutcome
    <3>3. CASE ~m.thrown /\ m.ok
      <4>1. PICK s : s = mark_index_ready(m.r, i, bytes)
        OBVIOUS
      <4>2. PICK u : u = touch_index(s, i)
        OBVIOUS
      <4>3. PICK l : l = enforce_soft_budget(u, m.fuel, <<i[1]>>, <<i>>)
        OBVIOUS
      <4>4. res.r = l.r
        BY <2>6, <3>3, <4>1, <4>2, <4>3 DEF ready_index, with_index_room, settled_index, Result
      <4>5. RoomFor(m.r, charge(bytes))
        BY <2>4, <2>7, <3>3, RoomGranted
      <4>6. Outcome(m.r, s) /\ i \in IndexKeys
        BY <2>8, <2>10, <4>1, <4>5, MarkedIndexReady
      <4>7. RepoInv(s) /\ Within(s.stats)
        BY <4>6 DEF Outcome
      <4>8. RepoInv(u) /\ Shrunk(s, u)
        BY <4>2, <4>6, <4>7, TouchesIndex
      <4>9. Outcome(s, u) /\ Within(u.stats)
        BY <4>7, <4>8, ShrunkOutcome DEF Outcome
      <4>10. RepoInv(l.r) /\ Shrunk(u, l.r)
        BY <2>8, <4>3, <4>8, SoftBudget
      <4>11. Outcome(u, l.r)
        BY <4>8, <4>9, <4>10, ShrunkOutcome
      <4> QED
        BY <4>4, <4>6, <4>9, <4>11, OutcomeTwice
    <3> QED
      BY <3>1, <3>2, <3>3
  <2> QED
    BY <2>3, <2>9, <2>11, OutcomeTwice
<1> QED
  BY <1>1, <1>2

(***************************************************************************)
(* The methods on cursors and bindings.                                    *)
(***************************************************************************)
\* A record is replaced: its bytes go and come back.
LEMMA ReplacedMetadata ==
  ASSUME NEW r, RepoInv(r), NEW bytes \in Nat, bytes <= r.stats.metadata,
         NEW r1, r1 = remove_bytes(r, "metadata", bytes),
         NEW r2, Record(r2), r2.stats = r1.stats,
         NEW q, q = add_bytes(r2, "metadata", bytes)
  PROVE  /\ SameMaps(r, r1) /\ SameMaps(r2, q)
         /\ q.stats \in Stats /\ Charged(q.stats) /\ Described(q.stats)
         /\ q.stats.resident = r.stats.resident /\ q.stats.build = r.stats.build
         /\ q.stats.metadata = r.stats.metadata
         /\ \A f \in CounterNames : q.stats[f] = r.stats[f]
<1>1. /\ Record(r) /\ r.stats \in Stats /\ Charged(r.stats) /\ Described(r.stats)
      /\ r.stats.metadata \in Nat
  BY StatsNat
<1>2. /\ SameMaps(r, r1) /\ r1.stats \in Stats /\ Charged(r1.stats)
      /\ r1.stats.metadata = r.stats.metadata - bytes
      /\ AgreeBut(r.stats, r1.stats, "metadata")
  BY <1>1, RemoveBytes DEF ByteNames
<1>3. /\ SameMaps(r2, q) /\ q.stats \in Stats /\ Charged(q.stats)
      /\ q.stats.metadata = r2.stats.metadata + bytes
      /\ AgreeBut(r2.stats, q.stats, "metadata")
  BY <1>2, AddBytes DEF ByteNames
<1>4. q.stats.metadata = r.stats.metadata
  BY <1>1, <1>2, <1>3
<1>5. \A f \in ByteNames \cup CounterNames : f # "metadata" => q.stats[f] = r.stats[f]
  BY <1>2, <1>3 DEF AgreeBut
<1>6. q.stats.resident = r.stats.resident /\ q.stats.build = r.stats.build
  BY <1>5 DEF ByteNames
<1>7. \A f \in CounterNames : q.stats[f] = r.stats[f]
  BY <1>5 DEF CounterNames
<1>8. /\ q.stats.generations = r.stats.generations /\ q.stats.tombstones = r.stats.tombstones
      /\ q.stats.cursors = r.stats.cursors /\ q.stats.bindings = r.stats.bindings
  BY <1>7 DEF CounterNames
<1>9. Described(q.stats)
  BY <1>1, <1>4, <1>8 DEF Described
<1> QED
  BY <1>2, <1>3, <1>4, <1>6, <1>7, <1>9

\* A record comes in: its count, its map, its bytes.
LEMMA CountedMetadata ==
  ASSUME NEW r, RepoInv(r), NEW field \in {"cursors", "bindings"}, NEW bytes \in Nat,
         NEW r1, r1 = counted(r, field, 1),
         NEW r2, Record(r2), r2.stats = r1.stats,
         NEW q, q = add_bytes(r2, "metadata", bytes)
  PROVE  /\ SameMaps(r, r1) /\ SameMaps(r2, q)
         /\ q.stats \in Stats /\ Charged(q.stats)
         /\ q.stats.resident = r.stats.resident /\ q.stats.build = r.stats.build
         /\ q.stats.metadata = r.stats.metadata + bytes
         /\ q.stats[field] = r.stats[field] + 1
         /\ \A f \in CounterNames : f # field => q.stats[f] = r.stats[f]
<1>1. /\ Record(r) /\ r.stats \in Stats /\ Charged(r.stats)
  BY StatsNat
<1>2. field \in CounterNames /\ field \notin ByteNames
  BY DEF CounterNames, ByteNames
<1>3. /\ SameMaps(r, r1) /\ r1.stats \in Stats /\ Charged(r1.stats)
      /\ r1.stats[field] = r.stats[field] + 1
      /\ AgreeBut(r.stats, r1.stats, field)
  BY <1>1, <1>2, Counting
<1>4. /\ SameMaps(r2, q) /\ q.stats \in Stats /\ Charged(q.stats)
      /\ q.stats.metadata = r2.stats.metadata + bytes
      /\ AgreeBut(r2.stats, q.stats, "metadata")
  BY <1>3, AddBytes DEF ByteNames
<1>5. q.stats.metadata = r.stats.metadata + bytes
  BY <1>3, <1>4 DEF AgreeBut, ByteNames
<1>6. q.stats.resident = r.stats.resident /\ q.stats.build = r.stats.build
  BY <1>3, <1>4 DEF AgreeBut, ByteNames
<1>7. q.stats[field] = r.stats[field] + 1
  BY <1>3, <1>4 DEF AgreeBut, CounterNames
<1>8. \A f \in CounterNames : f # field => q.stats[f] = r.stats[f]
  BY <1>3, <1>4 DEF AgreeBut, CounterNames
<1> QED
  BY <1>3, <1>4, <1>5, <1>6, <1>7, <1>8

\* q is r with the cursor c put in for the name id.
PutCursor(r, q, id, c) ==
  /\ Record(q) /\ q.stats \in Stats /\ Charged(q.stats) /\ Described(q.stats)
  /\ MapOf(q.cursor, Name, Cursors) /\ Placed(r.cursor, q.cursor, id, c)
  /\ c.key \in DOMAIN r.gens /\ c.gen <= r.gens[c.key]
  /\ q.clru \in Seq(Name) /\ q.stats.cursors = Cardinality(DOMAIN q.cursor)
  /\ q.canon = r.canon /\ q.lru = r.lru /\ q.index = r.index /\ q.ilru = r.ilru
  /\ q.gens = r.gens /\ q.tlru = r.tlru /\ q.binding = r.binding
  /\ q.stats.resident = r.stats.resident /\ q.stats.build = r.stats.build
  /\ q.stats.canonicals = r.stats.canonicals /\ q.stats.indexes = r.stats.indexes
  /\ q.stats.generations = r.stats.generations /\ q.stats.tombstones = r.stats.tombstones
  /\ q.stats.bindings = r.stats.bindings

LEMMA CursorPut ==
  ASSUME NEW r, RepoInv(r), NEW q, NEW id, NEW c, PutCursor(r, q, id, c)
  PROVE  RepoInv(q) /\ (Within(r.stats) => Within(q.stats))
<1>1. Typed(q)
  BY DEF RepoInv, Typed, PutCursor
<1>2. Linked(q)
  <2>1. ASSUME NEW n \in DOMAIN q.cursor
        PROVE  q.cursor[n].key \in DOMAIN q.gens /\ q.cursor[n].gen <= q.gens[q.cursor[n].key]
    <3>1. CASE n = id
      BY <3>1 DEF PutCursor, Placed
    <3>2. CASE n # id
      <4>1. n \in DOMAIN r.cursor /\ q.cursor[n] = r.cursor[n]
        BY <2>1, <3>2 DEF PutCursor, Placed
      <4> QED
        BY <4>1 DEF PutCursor, RepoInv, Linked
    <3> QED
      BY <3>1, <3>2
  <2>2. Linked(r) /\ q.canon = r.canon /\ q.gens = r.gens /\ q.index = r.index
    BY DEF PutCursor, RepoInv
  <2> QED
    BY <2>1, <2>2 DEF Linked
<1>3. NotYetResident(q)
  BY DEF RepoInv, NotYetResident, PutCursor
<1>4. Tallied(q)
  BY DEF RepoInv, Tallied, PutCursor
<1>5. Within(r.stats) => Within(q.stats)
  BY DEF Within, PutCursor
<1> QED
  BY <1>1, <1>2, <1>3, <1>4, <1>5 DEF RepoInv, PutCursor

\* The repository with the record that put_cursor stores.
stored_cursor(r, id, c, old) ==
  LET less == IF id \in DOMAIN r.cursor THEN remove_bytes(r, "metadata", old)
              ELSE counted(r, "cursors", 1)
  IN add_bytes([less EXCEPT !.cursor = With(@, id, c), !.clru = Touched(@, id)],
               "metadata", CursorBytes)

LEMMA StoredCursor ==
  ASSUME NEW r, RepoInv(r), NEW id \in Name, NEW c \in Cursors,
         c.key \in DOMAIN r.gens, c.gen <= r.gens[c.key],
         NEW old, id \in DOMAIN r.cursor => old = CursorBytes,
         NEW q, q = stored_cursor(r, id, c, old)
  PROVE  PutCursor(r, q, id, c)
<1>1. /\ Record(r) /\ r.stats \in Stats /\ Charged(r.stats) /\ Described(r.stats)
      /\ MapOf(r.cursor, Name, Cursors) /\ r.clru \in Seq(Name)
      /\ r.stats.cursors = Cardinality(DOMAIN r.cursor) /\ IsFiniteSet(DOMAIN r.cursor)
  BY DEF RepoInv, Typed, Tallied, MapOf
<1>2. PICK g : g = With(r.cursor, id, c)
  OBVIOUS
<1>3. MapOf(g, Name, Cursors) /\ Placed(r.cursor, g, id, c)
  BY <1>1, <1>2, PlaceMap
<1>4. PICK r1 : r1 = IF id \in DOMAIN r.cursor THEN remove_bytes(r, "metadata", old)
                     ELSE counted(r, "cursors", 1)
  OBVIOUS
<1>5. SameMaps(r, r1) => r1.cursor = r.cursor /\ r1.clru = r.clru
  BY DEF SameMaps
<1>6. PICK r2 : r2 = [r1 EXCEPT !.cursor = With(@, id, c), !.clru = Touched(@, id)]
  OBVIOUS
<1>7. q = add_bytes(r2, "metadata", CursorBytes)
  BY <1>4, <1>6 DEF stored_cursor
<1>8. SameMaps(r, r1)
      => /\ Record(r2) /\ r2.stats = r1.stats /\ r2.cursor = g
         /\ r2.clru = Touched(r.clru, id) /\ r2.canon = r.canon /\ r2.lru = r.lru
         /\ r2.index = r.index /\ r2.ilru = r.ilru /\ r2.gens = r.gens /\ r2.tlru = r.tlru
         /\ r2.binding = r.binding
  BY <1>2, <1>6 DEF SameMaps, Record
<1>9. SameMaps(r, r1) /\ SameMaps(r2, q)
      => /\ Record(q) /\ q.cursor = g
         /\ q.clru = Touched(r.clru, id) /\ q.canon = r.canon /\ q.lru = r.lru
         /\ q.index = r.index /\ q.ilru = r.ilru /\ q.gens = r.gens /\ q.tlru = r.tlru
         /\ q.binding = r.binding
  BY <1>8 DEF SameMaps
<1>10. Touched(r.clru, id) \in Seq(Name)
  BY <1>1, TouchedSeq
<1>11. CASE id \in DOMAIN r.cursor
  <2>1. r1 = remove_bytes(r, "metadata", CursorBytes)
    BY <1>4, <1>11
  <2>2. CursorBytes \in Nat /\ CursorBytes <= r.stats.metadata
    <3>1. 1 <= r.stats.cursors
      <4>1. Cardinality(DOMAIN r.cursor) \in Nat /\ Cardinality(DOMAIN r.cursor) # 0
        BY <1>1, <1>11, FS_CardinalityType, FS_EmptySet
      <4> QED
        BY <1>1, <4>1
    <3>2. CursorBytes * 1 <= r.stats.metadata
      BY <1>1, <3>1, MetadataHolds
    <3> QED
      BY <3>2, BudgetAssumption
  <2>3. SameMaps(r, r1)
    BY <1>1, <2>1, <2>2, RemoveBytes DEF ByteNames
  <2>4. Record(r2) /\ r2.stats = r1.stats
    BY <1>8, <2>3
  <2>5. /\ SameMaps(r2, q) /\ q.stats \in Stats /\ Charged(q.stats) /\ Described(q.stats)
        /\ q.stats.resident = r.stats.resident /\ q.stats.build = r.stats.build
        /\ \A f \in CounterNames : q.stats[f] = r.stats[f]
    BY <1>7, <2>1, <2>2, <2>4, ReplacedMetadata
  <2>6. /\ q.stats.canonicals = r.stats.canonicals /\ q.stats.indexes = r.stats.indexes
        /\ q.stats.generations = r.stats.generations /\ q.stats.tombstones = r.stats.tombstones
        /\ q.stats.bindings = r.stats.bindings /\ q.stats.cursors = r.stats.cursors
    BY <2>5 DEF CounterNames
  <2>7. DOMAIN g = DOMAIN r.cursor
    BY <1>3, <1>11 DEF Placed
  <2>8. q.stats.cursors = Cardinality(DOMAIN q.cursor)
    BY <1>1, <1>9, <2>3, <2>5, <2>6, <2>7
  <2> QED
    BY <1>3, <1>9, <1>10, <2>3, <2>5, <2>6, <2>8 DEF PutCursor
<1>12. CASE id \notin DOMAIN r.cursor
  <2>1. r1 = counted(r, "cursors", 1)
    BY <1>4, <1>12
  <2>2. CursorBytes \in Nat
    BY BudgetAssumption
  <2>3. SameMaps(r, r1)
    BY <1>1, <2>1, Counting DEF CounterNames
  <2>4. Record(r2) /\ r2.stats = r1.stats
    BY <1>8, <2>3
  <2>5. /\ SameMaps(r2, q) /\ q.stats \in Stats /\ Charged(q.stats)
        /\ q.stats.resident = r.stats.resident /\ q.stats.build = r.stats.build
        /\ q.stats.metadata = r.stats.metadata + CursorBytes
        /\ q.stats.cursors = r.stats.cursors + 1
        /\ \A f \in CounterNames : f # "cursors" => q.stats[f] = r.stats[f]
    BY <1>7, <2>1, <2>2, <2>4, CountedMetadata
  <2>6. /\ q.stats.canonicals = r.stats.canonicals /\ q.stats.indexes = r.stats.indexes
        /\ q.stats.generations = r.stats.generations /\ q.stats.tombstones = r.stats.tombstones
        /\ q.stats.bindings = r.stats.bindings
    BY <2>5 DEF CounterNames
  <2>7. Described(q.stats)
    <3>1. PICK s \in Stats : s = r.stats
      BY <1>1
    <3>2. PICK t \in Stats : t = q.stats
      BY <2>5
    <3>3. /\ s.cursors = t.cursors - 1 /\ s.generations = t.generations
          /\ s.tombstones = t.tombstones /\ s.bindings = t.bindings
          /\ s.metadata = t.metadata - CursorBytes * 1
      BY <2>2, <2>5, <2>6, <3>1, <3>2 DEF Stats
    <3>4. Described(s) <=> Described(t)
      BY <3>3, CursorsDescribed
    <3> QED
      BY <1>1, <3>1, <3>2, <3>4
  <2>8. q.stats.cursors = Cardinality(DOMAIN q.cursor)
    <3>1. DOMAIN g = DOMAIN r.cursor \cup {id}
      BY <1>3 DEF Placed
    <3>2. Cardinality(DOMAIN r.cursor \cup {id}) = Cardinality(DOMAIN r.cursor) + 1
      BY <1>1, <1>12, FS_AddElement
    <3> QED
      BY <1>1, <1>9, <2>3, <2>5, <3>1, <3>2
  <2> QED
    BY <1>3, <1>9, <1>10, <2>3, <2>5, <2>6, <2>7, <2>8 DEF PutCursor
<1> QED
  BY <1>11, <1>12

\* The cursors of q are those of r, but the one of id, which may be at key.
BoundOutcome(r, id, key, q) ==
  /\ RepoInv(q) /\ Within(q.stats)
  /\ \A n \in DOMAIN q.cursor : \/ n = id /\ q.cursor[n].key = key
                                \/ n \in DOMAIN r.cursor /\ q.cursor[n].key = r.cursor[n].key

LEMMA OutcomeBound ==
  ASSUME NEW r, NEW q, NEW id, NEW key, Outcome(r, q)
  PROVE  BoundOutcome(r, id, key, q)
BY DEF Outcome, BoundOutcome, Part

LEMMA CursorPutBound ==
  ASSUME NEW r, RepoInv(r), Within(r.stats), NEW q, NEW id, NEW c, PutCursor(r, q, id, c)
  PROVE  BoundOutcome(r, id, c.key, q)
<1>1. RepoInv(q) /\ Within(q.stats)
  BY CursorPut
<1>2. Placed(r.cursor, q.cursor, id, c)
  BY DEF PutCursor
<1> QED
  BY <1>1, <1>2 DEF BoundOutcome, Placed

LEMMA BoundTwice ==
  ASSUME NEW r, NEW s, NEW q, NEW id, NEW key, BoundOutcome(r, id, key, s),
         BoundOutcome(s, id, key, q)
  PROVE  BoundOutcome(r, id, key, q)
BY DEF BoundOutcome

LEMMA PutsCursor ==
  ASSUME NEW r, RepoInv(r), Within(r.stats), NEW fuel \in Int, NEW id \in Name, NEW c \in Cursors,
         c.key \in DOMAIN r.canon, c.gen = r.canon[c.key].gen,
         NEW res, res = put_cursor(r, fuel, id, c)
  PROVE  BoundOutcome(r, id, c.key, res.r)
<1>1. PICK old : old = IF id \in DOMAIN r.cursor THEN CursorBytes ELSE 0
  OBVIOUS
<1>2. CASE CursorBytes > old
  <2>1. id \notin DOMAIN r.cursor
    BY <1>1, <1>2, BudgetAssumption
  <2>2. PICK new : new = charge(CursorBytes - old)
    OBVIOUS
  <2>3. PICK m : m = make_hard_room(r, fuel, new, <<c.key>>, <<>>, c.key, <<>>)
    OBVIOUS
  <2>4. res = store_cursor(m, id, c, old)
    BY <1>1, <1>2, <2>2, <2>3 DEF put_cursor
  <2>5. Roomy(r, m, new, <<c.key>>, <<>>, <<>>)
    BY <2>3, HardRoom
  <2>6. RepoInv(m.r) /\ Shrunk(r, m.r)
    BY <2>5 DEF Roomy
  <2>7. Outcome(r, m.r) /\ Within(m.r.stats)
    BY <2>6, ShrunkOutcome DEF Outcome
  <2>8. CASE m.thrown \/ ~m.ok
    <3>1. res.r = m.r
      BY <2>4, <2>8 DEF store_cursor, Result
    <3> QED
      BY <2>7, <3>1, OutcomeBound
  <2>9. CASE ~(m.thrown \/ ~m.ok)
    <3>1. res.r = stored_cursor(m.r, id, c, old)
      BY <2>4, <2>9 DEF store_cursor, stored_cursor, Result
    <3>2. c.key \in DOMAIN m.r.canon /\ m.r.canon[c.key].gen = c.gen
      <4>1. c.key \in Held(r, <<c.key>>)
        BY DEF Held
      <4>2. c.key \in DOMAIN m.r.canon
        BY <2>5, <4>1 DEF Roomy
      <4> QED
        BY <2>6, <4>2 DEF Shrunk, Part
    <3>3. c.key \in DOMAIN m.r.gens /\ c.gen <= m.r.gens[c.key]
      <4>1. c.key \in DOMAIN m.r.gens /\ m.r.gens[c.key] = c.gen
        BY <2>6, <3>2 DEF RepoInv, Linked
      <4>2. c.gen \in Nat
        BY DEF Cursors
      <4> QED
        BY <4>1, <4>2
    <3>4. id \notin DOMAIN m.r.cursor
      BY <2>1, <2>6 DEF Shrunk, Part
    <3>5. PutCursor(m.r, res.r, id, c)
      BY <2>6, <3>1, <3>3, <3>4, StoredCursor
    <3>6. BoundOutcome(m.r, id, c.key, res.r)
      BY <2>6, <2>7, <3>5, CursorPutBound
    <3>7. BoundOutcome(r, id, c.key, m.r)
      BY <2>7, OutcomeBound
    <3> QED
      BY <3>6, <3>7, BoundTwice
  <2> QED
    BY <2>8, <2>9
<1>3. CASE ~(CursorBytes > old)
  <2>1. res = store_cursor([r |-> r, fuel |-> fuel, thrown |-> FALSE, ok |-> TRUE], id, c, old)
    BY <1>1, <1>3 DEF put_cursor
  <2>2. res.r = stored_cursor(r, id, c, old)
    BY <2>1 DEF store_cursor, stored_cursor, Result
  <2>3. c.key \in DOMAIN r.gens /\ c.gen <= r.gens[c.key]
    <3>1. c.key \in DOMAIN r.gens /\ r.gens[c.key] = c.gen
      BY DEF RepoInv, Linked
    <3>2. c.gen \in Nat
      BY DEF Cursors
    <3> QED
      BY <3>1, <3>2
  <2>4. id \in DOMAIN r.cursor => old = CursorBytes
    BY <1>1
  <2>5. PutCursor(r, res.r, id, c)
    BY <2>2, <2>3, <2>4, StoredCursor
  <2> QED
    BY <2>5, CursorPutBound
<1> QED
  BY <1>2, <1>3

SetGen(f, x, gen) == [f EXCEPT ![x].gen = gen]

LEMMA SetsGen ==
  ASSUME NEW f, NEW K, MapOf(f, K, Cursors), NEW x \in DOMAIN f, NEW gen \in Nat,
         NEW h, h = SetGen(f, x, gen)
  PROVE  /\ MapOf(h, K, Cursors) /\ Placed(f, h, x, h[x])
         /\ h[x].key = f[x].key /\ h[x].gen = gen /\ h[x].pos = f[x].pos
<1>1. f[x] \in Cursors
  BY DEF MapOf
<1>2. PICK e : e = [f[x] EXCEPT !.gen = gen]
  OBVIOUS
<1>3. e \in Cursors /\ e.key = f[x].key /\ e.gen = gen /\ e.pos = f[x].pos
  BY <1>1, <1>2 DEF Cursors
<1>4. h = [f EXCEPT ![x] = e]
  BY <1>2 DEF SetGen
<1>5. /\ DOMAIN h = DOMAIN f /\ h[x] = e /\ (\A y \in DOMAIN f : y # x => h[y] = f[y])
      /\ h \in [DOMAIN f -> Cursors]
  BY <1>3, <1>4 DEF MapOf
<1>6. DOMAIN h = DOMAIN f \cup {x}
  BY <1>5
<1> QED
  BY <1>3, <1>5, <1>6 DEF MapOf, Placed

LEMMA ResumesCursor ==
  ASSUME NEW r, RepoInv(r), Within(r.stats), NEW id \in Name, NEW k, NEW gen \in Nat,
         k \in DOMAIN r.gens, gen <= r.gens[k], NEW res, res = resume_cursor(r, id, k, gen)
  PROVE  /\ BoundOutcome(r, id, k, res.r) /\ res.r.canon = r.canon
         /\ res.status = "ok" => /\ id \in DOMAIN res.r.cursor /\ res.r.cursor[id].key = k
                                 /\ res.r.cursor[id].gen = gen
<1>1. CASE id \notin DOMAIN r.cursor \/ r.cursor[id].key # k
  <2>1. res = Result(r, FALSE, "rejected")
    BY <1>1 DEF resume_cursor
  <2>2. BoundOutcome(r, id, k, r)
    BY ShrunkSelf, ShrunkOutcome, OutcomeBound
  <2> QED
    BY <2>1, <2>2 DEF Result
<1>2. CASE id \in DOMAIN r.cursor /\ r.cursor[id].key = k
  <2>1. PICK q : q = [r EXCEPT !.cursor[id].gen = gen, !.clru = Touched(@, id)]
    OBVIOUS
  <2>2. res = Result(q, FALSE, "ok")
    BY <1>2, <2>1 DEF resume_cursor
  <2>3. /\ Record(r) /\ r.stats \in Stats /\ Charged(r.stats) /\ Described(r.stats)
        /\ MapOf(r.cursor, Name, Cursors) /\ r.clru \in Seq(Name)
        /\ r.stats.cursors = Cardinality(DOMAIN r.cursor)
    BY DEF RepoInv, Typed, Tallied
  <2>4. /\ Record(q) /\ q.cursor = SetGen(r.cursor, id, gen) /\ q.clru = Touched(r.clru, id)
        /\ q.canon = r.canon /\ q.lru = r.lru /\ q.index = r.index /\ q.ilru = r.ilru
        /\ q.gens = r.gens /\ q.tlru = r.tlru /\ q.binding = r.binding /\ q.stats = r.stats
    BY <2>1, <2>3 DEF Record, SetGen
  <2>5. PICK h : h = q.cursor
    OBVIOUS
  <2>6. /\ MapOf(h, Name, Cursors) /\ Placed(r.cursor, h, id, h[id])
        /\ h[id].key = r.cursor[id].key /\ h[id].gen = gen
    BY <1>2, <2>3, <2>4, <2>5, SetsGen
  <2>7. DOMAIN h = DOMAIN r.cursor
    BY <1>2, <2>6 DEF Placed
  <2>8. q.clru \in Seq(Name)
    BY <2>3, <2>4, TouchedSeq
  <2>9. PICK c : c = h[id]
    OBVIOUS
  <2>10. PutCursor(r, q, id, c)
    BY <1>2, <2>3, <2>4, <2>5, <2>6, <2>7, <2>8, <2>9 DEF PutCursor
  <2>11. BoundOutcome(r, id, c.key, q)
    BY <2>10, CursorPutBound
  <2>12. c.key = k /\ id \in DOMAIN q.cursor /\ q.cursor[id].key = k /\ q.cursor[id].gen = gen
    BY <1>2, <2>5, <2>6, <2>7, <2>9
  <2> QED
    BY <2>2, <2>4, <2>11, <2>12 DEF Result
<1> QED
  BY <1>1, <1>2

LEMMA BindsStream ==
  ASSUME NEW r, RepoInv(r), Within(r.stats), NEW d \in Digest,
         NEW q, q = bind_stream(r, "st", d)
  PROVE  Outcome(r, q)
<1>1. /\ Record(r) /\ r.stats \in Stats /\ Charged(r.stats) /\ Described(r.stats)
      /\ MapOf(r.binding, {"st"}, Digest) /\ IsFiniteSet(DOMAIN r.binding)
      /\ Cardinality(DOMAIN r.binding) = r.stats.bindings
  BY DEF RepoInv, Typed, Tallied, MapOf
<1>2. PICK g : g = With(r.binding, "st", d)
  OBVIOUS
<1>3. MapOf(g, {"st"}, Digest) /\ Placed(r.binding, g, "st", d)
  <2>1. "st" \in {"st"}
    OBVIOUS
  <2> QED
    BY <1>1, <1>2, <2>1, PlaceMap
<1>4. PICK r1 : r1 = IF "st" \in DOMAIN r.binding
                     THEN remove_bytes(r, "metadata", BindingBytes)
                     ELSE counted(r, "bindings", 1)
  OBVIOUS
<1>5. PICK r2 : r2 = [r1 EXCEPT !.binding = With(@, "st", d)]
  OBVIOUS
<1>6. q = add_bytes(r2, "metadata", BindingBytes)
  BY <1>4, <1>5 DEF bind_stream
<1>7. SameMaps(r, r1)
      => /\ Record(r2) /\ r2.stats = r1.stats /\ r2.binding = g
         /\ r2.canon = r.canon /\ r2.lru = r.lru /\ r2.index = r.index /\ r2.ilru = r.ilru
         /\ r2.gens = r.gens /\ r2.tlru = r.tlru /\ r2.cursor = r.cursor /\ r2.clru = r.clru
  BY <1>2, <1>5 DEF SameMaps, Record
<1>8. SameMaps(r, r1) /\ SameMaps(r2, q)
      => /\ Record(q) /\ q.binding = g
         /\ q.canon = r.canon /\ q.lru = r.lru /\ q.index = r.index /\ q.ilru = r.ilru
         /\ q.gens = r.gens /\ q.tlru = r.tlru /\ q.cursor = r.cursor /\ q.clru = r.clru
  BY <1>7 DEF SameMaps
<1>9. /\ SameMaps(r, r1) /\ SameMaps(r2, q)
      /\ q.stats \in Stats /\ Charged(q.stats) /\ Described(q.stats)
      /\ q.stats.resident = r.stats.resident /\ q.stats.build = r.stats.build
      /\ q.stats.canonicals = r.stats.canonicals /\ q.stats.indexes = r.stats.indexes
      /\ q.stats.generations = r.stats.generations /\ q.stats.tombstones = r.stats.tombstones
      /\ q.stats.cursors = r.stats.cursors
      /\ q.stats.bindings = Cardinality(DOMAIN g)
  <2>1. CASE "st" \in DOMAIN r.binding
    <3>1. r1 = remove_bytes(r, "metadata", BindingBytes)
      BY <1>4, <2>1
    <3>2. BindingBytes \in Nat /\ BindingBytes <= r.stats.metadata
      <4>1. Cardinality(DOMAIN r.binding) \in Nat /\ Cardinality(DOMAIN r.binding) # 0
        BY <1>1, <2>1, FS_CardinalityType, FS_EmptySet
      <4>2. r.stats.bindings >= 1
        BY <1>1, <4>1
      <4> QED
        BY <1>1, <4>2, MetadataHolds, BudgetAssumption
    <3>3. SameMaps(r, r1)
      BY <1>1, <3>1, <3>2, RemoveBytes DEF ByteNames
    <3>4. Record(r2) /\ r2.stats = r1.stats
      BY <1>7, <3>3
    <3>5. /\ SameMaps(r2, q) /\ q.stats \in Stats /\ Charged(q.stats) /\ Described(q.stats)
          /\ q.stats.resident = r.stats.resident /\ q.stats.build = r.stats.build
          /\ \A f \in CounterNames : q.stats[f] = r.stats[f]
      BY <1>6, <3>1, <3>2, <3>4, ReplacedMetadata
    <3>6. DOMAIN g = DOMAIN r.binding
      BY <1>3, <2>1 DEF Placed
    <3> QED
      BY <1>1, <3>3, <3>5, <3>6 DEF CounterNames
  <2>2. CASE "st" \notin DOMAIN r.binding
    <3>1. r1 = counted(r, "bindings", 1)
      BY <1>4, <2>2
    <3>2. BindingBytes \in Nat
      BY BudgetAssumption
    <3>3. SameMaps(r, r1)
      BY <1>1, <3>1, Counting DEF CounterNames
    <3>4. Record(r2) /\ r2.stats = r1.stats
      BY <1>7, <3>3
    <3>5. /\ SameMaps(r2, q) /\ q.stats \in Stats /\ Charged(q.stats)
          /\ q.stats.resident = r.stats.resident /\ q.stats.build = r.stats.build
          /\ q.stats.metadata = r.stats.metadata + BindingBytes
          /\ q.stats.bindings = r.stats.bindings + 1
          /\ \A f \in CounterNames : f # "bindings" => q.stats[f] = r.stats[f]
      BY <1>6, <3>1, <3>2, <3>4, CountedMetadata
    <3>6. /\ q.stats.canonicals = r.stats.canonicals /\ q.stats.indexes = r.stats.indexes
          /\ q.stats.generations = r.stats.generations
          /\ q.stats.tombstones = r.stats.tombstones
          /\ q.stats.cursors = r.stats.cursors
      BY <3>5 DEF CounterNames
    <3>7. Described(q.stats)
      <4>1. PICK s \in Stats : s = r.stats
        BY <1>1
      <4>2. PICK t \in Stats : t = q.stats
        BY <3>5
      <4>3. /\ s.bindings = t.bindings - 1 /\ s.generations = t.generations
            /\ s.cursors = t.cursors /\ s.tombstones = t.tombstones
            /\ s.metadata = t.metadata - BindingBytes
        BY <3>2, <3>5, <3>6, <4>1, <4>2 DEF Stats
      <4>4. Described(s) <=> Described(t)
        BY <4>3, BindingDescribed
      <4> QED
        BY <1>1, <4>1, <4>2, <4>4
    <3>8. Cardinality(DOMAIN g) = Cardinality(DOMAIN r.binding) + 1
      <4>1. DOMAIN g = DOMAIN r.binding \cup {"st"}
        BY <1>3 DEF Placed
      <4>2. Cardinality(DOMAIN r.binding \cup {"st"}) = Cardinality(DOMAIN r.binding) + 1
        BY <1>1, <2>2, FS_AddElement
      <4> QED
        BY <4>1, <4>2
    <3> QED
      BY <1>1, <3>3, <3>5, <3>6, <3>7, <3>8
  <2> QED
    BY <2>1, <2>2
<1>10. /\ Record(q) /\ q.binding = g
       /\ q.canon = r.canon /\ q.lru = r.lru /\ q.index = r.index /\ q.ilru = r.ilru
       /\ q.gens = r.gens /\ q.tlru = r.tlru /\ q.cursor = r.cursor /\ q.clru = r.clru
  BY <1>8, <1>9
<1>11. Typed(q)
  BY <1>3, <1>9, <1>10 DEF RepoInv, Typed
<1>12. Linked(q) /\ NotYetResident(q)
  BY <1>10 DEF RepoInv, Linked, NotYetResident
<1>13. Tallied(q)
  BY <1>9, <1>10 DEF RepoInv, Tallied
<1>14. RepoInv(q)
  BY <1>9, <1>11, <1>12, <1>13 DEF RepoInv
<1>15. Within(q.stats)
  BY <1>9 DEF Within
<1> QED
  BY <1>10, <1>14, <1>15 DEF Outcome, Part

LEMMA Notifies ==
  ASSUME NEW r, RepoInv(r), Within(r.stats), NEW fuel \in Int, NEW old, NEW d \in Digest,
         NEW res, res = notify_stream_config_change(r, fuel, "st", old, d)
  PROVE  Outcome(r, res.r)
<1>1. CASE fuel = 0
  <2>1. res.r = r
    BY <1>1 DEF notify_stream_config_change, Result
  <2> QED
    BY <2>1, ShrunkSelf, ShrunkOutcome
<1>2. CASE fuel # 0
  <2>1. PICK b : b = bind_stream(r, "st", d)
    OBVIOUS
  <2>2. PICK e : e = evict_to_budget(b, fuel - 1, HardMax, 0, <<>>, <<>>, <<>>, <<>>)
    OBVIOUS
  <2>3. PICK l : l = ReleaseMetadata(e, HardMax, 0, <<>>)
    OBVIOUS
  <2>4. res = retire_digest(l, old, d)
    BY <1>2, <2>1, <2>2, <2>3 DEF notify_stream_config_change
  <2>5. Outcome(r, b) /\ RepoInv(b) /\ Within(b.stats)
    BY <2>1, BindsStream DEF Outcome
  <2>6. PICK f \in Int : f = fuel - 1
    OBVIOUS
  <2>7. e = evict_to_budget(b, f, HardMax, 0, <<>>, <<>>, <<>>, <<>>)
    BY <2>2, <2>6
  <2>8. e \in LoopStates(b, Held(b, <<>>), HeldIdx(b, <<>>, <<>>))
    BY <2>5, <2>7, EvictsToBudget
  <2>9. e \in [r : Repos, fuel : Int, thrown : BOOLEAN] /\ RepoInv(e.r) /\ Shrunk(b, e.r)
    BY <2>8 DEF LoopStates
  <2>10. e \in LoopStates(e.r, {}, {})
    <3>1. Shrunk(e.r, e.r)
      BY <2>9, ShrunkSelf
    <3> QED
      BY <2>9, <3>1 DEF LoopStates
  <2>11. l \in LoopStates(e.r, DOMAIN e.r.canon, DOMAIN e.r.index)
    BY <2>3, <2>10, ReleasesMetadata
  <2>12. RepoInv(l.r) /\ Shrunk(e.r, l.r)
    BY <2>11 DEF LoopStates
  <2>13. Outcome(b, e.r) /\ Within(e.r.stats)
    BY <2>5, <2>9, ShrunkOutcome DEF Outcome
  <2>14. Outcome(e.r, l.r) /\ Within(l.r.stats)
    BY <2>9, <2>12, <2>13, ShrunkOutcome DEF Outcome
  <2>15. Outcome(l.r, res.r)
    <3>1. Outcome(l.r, l.r)
      BY <2>12, <2>14, ShrunkSelf, ShrunkOutcome
    <3>2. CASE l.thrown \/ old \in {"", d}
      <4>1. res.r = l.r
        <5>1. res = Result(l.r, l.thrown, "ok")
          BY <2>4, <3>2, Zenon DEF retire_digest
        <5> QED
          BY <5>1 DEF Result
      <4> QED
        BY <3>1, <4>1
    <3>3. CASE ~l.thrown /\ old \notin {"", d} /\ l.fuel = 0
      <4>1. res.r = l.r
        <5>1. res = Result(l.r, TRUE, "ok")
          BY <2>4, <3>3, Zenon DEF retire_digest
        <5> QED
          BY <5>1 DEF Result
      <4> QED
        BY <3>1, <4>1
    <3>4. CASE ~l.thrown /\ old \notin {"", d} /\ l.fuel # 0
      <4>1. PICK S : S = unbound_results(l.r, old)
        OBVIOUS
      <4>2. S \in SUBSET DOMAIN l.r.canon
        BY <4>1 DEF unbound_results
      <4>3. res.r = invalidate_each(l.r, S)
        <5>1. res = Result(invalidate_each(l.r, S), FALSE, "ok")
          BY <2>4, <3>4, <4>1, Zenon DEF retire_digest
        <5> QED
          BY <5>1 DEF Result
      <4>4. ErasedAll(l.r, S, res.r)
        BY <2>12, <4>2, <4>3, InvalidatesEach
      <4>5. RepoInv(res.r) /\ Shrunk(l.r, res.r)
        BY <4>4 DEF ErasedAll
      <4> QED
        BY <2>12, <2>14, <4>5, ShrunkOutcome
    <3> QED
      BY <3>2, <3>3, <3>4, Zenon
  <2> QED
    BY <2>5, <2>13, <2>14, <2>15, OutcomeTwice
<1> QED
  BY <1>1, <1>2

LEMMA Emptied ==
  RepoInv(EmptyRepository) /\ Within(EmptyRepository.stats)
<1>1. PICK q : q = EmptyRepository
  OBVIOUS
<1>2. PICK f : f = NoFun
  OBVIOUS
<1>3. DOMAIN f = {} /\ f = [x \in {} |-> x]
  BY <1>2 DEF NoFun
<1>4. /\ Record(q) /\ q.canon = f /\ q.lru = <<>> /\ q.index = f /\ q.ilru = <<>>
      /\ q.gens = f /\ q.tlru = <<>> /\ q.cursor = f /\ q.clru = <<>> /\ q.binding = f
      /\ q.stats = NoStats
  BY <1>1, <1>2 DEF EmptyRepository, Record
<1>5. ASSUME NEW K, NEW V
      PROVE  MapOf(f, K, V)
  BY <1>3, FS_EmptySet DEF MapOf
<1>6. NoStats \in Stats
  BY DEF NoStats, Stats
<1>7. Typed(q)
  <2>1. <<>> \in Seq(CacheKeys) /\ <<>> \in Seq(IndexKeys) /\ <<>> \in Seq(Name)
        /\ NoRepeat(<<>>)
    BY DEF NoRepeat
  <2>2. /\ MapOf(f, CacheKeys, Entries) /\ MapOf(f, IndexKeys, IndexEntries)
        /\ MapOf(f, CacheKeys, Nat) /\ MapOf(f, Name, Cursors) /\ MapOf(f, {"st"}, Digest)
    BY <1>5
  <2> QED
    BY <1>4, <1>6, <2>1, <2>2 DEF Typed
<1>8. Linked(q) /\ NotYetResident(q)
  BY <1>3, <1>4 DEF Linked, NotYetResident
<1>9. Charged(q.stats) /\ Described(q.stats) /\ Within(q.stats)
  BY <1>4, BudgetAssumption
  DEF Charged, Described, Within, MetadataOf, NoStats, charge, ConfigAccepted
<1>10. Tallied(q)
  <2>1. Total(f, "res") = 0 /\ Total(f, "bld") = 0
    BY <1>3, BytesNone DEF Total
  <2>2. Ready(f) = 0
    <3>1. {x \in {} : f[x].st = "ready"} = {}
      OBVIOUS
    <3> QED
      BY <1>3, <3>1, FS_EmptySet DEF Ready, ReadyCount
  <2>3. Cardinality(DOMAIN f) = 0
    BY <1>3, FS_EmptySet
  <2> QED
    BY <1>4, <2>1, <2>2, <2>3 DEF Tallied, NoStats
<1> QED
  BY <1>1, <1>7, <1>8, <1>9, <1>10 DEF RepoInv

(***************************************************************************)
(* The steps of the analyzers.                                             *)
(***************************************************************************)
LEMMA KeysTyped ==
  /\ \A s \in Sem : AxiKey(s) \in CacheKeys
  /\ \A d \in Digest, s \in {"full"} \cup Ranges : StreamKey(d, s) \in CacheKeys
BY DEF AxiKey, StreamKey, CacheKeys

LEMMA InvRepo ==
  ASSUME CacheInv
  PROVE  RepoInv(repo) /\ Within(repo.stats)
BY DEF CacheInv, ObjectsWithinHard, Within

\* A step that leaves the keys of the names alone and adds no cursor.
LEMMA StepKeepsInv ==
  ASSUME CacheInv, Outcome(repo, repo'), keyof' = keyof,
         streamCfg' \in StreamConfigs, JobInv'
  PROVE  CacheInv'
<1>1. RepoInv(repo') /\ Within(repo'.stats) /\ Part(repo.cursor, repo'.cursor)
  BY DEF Outcome
<1>2. ObjectsWithinHard'
  BY <1>1 DEF ObjectsWithinHard, Within
<1>3. \A n \in DOMAIN repo'.cursor : keyof'[n] = <<repo'.cursor[n].key>>
  BY <1>1 DEF CacheInv, Part
<1>4. keyof' \in [Name -> {<<>>} \cup {<<k>> : k \in CacheKeys}]
  BY DEF CacheInv
<1> QED
  BY <1>1, <1>2, <1>3, <1>4 DEF CacheInv

LEMMA AnalyzeStep ==
  ASSUME CacheInv, NEW n \in Name, NEW sem \in Sem, NEW fuel \in Fuels,
         analyze(n, sem, fuel)
  PROVE  CacheInv'
<1>1. PICK k : k = AxiKey(sem)
  OBVIOUS
<1>2. k \in CacheKeys
  BY <1>1, KeysTyped
<1>3. PICK r : r = IF keyof[n] # <<>> /\ keyof[n] # <<k>> THEN erase_cursor(repo, n) ELSE repo
  OBVIOUS
<1>4. PICK res : res = begin_canonical(r, fuel, k, StartBytes)
  OBVIOUS
<1>5. /\ keyof' = [keyof EXCEPT ![n] = <<k>>] /\ streamCfg' = streamCfg
      /\ repo' = res.r /\ (job' = <<"canon", k>> \/ job' = <<>>)
  <2>1. Continue(res, "started", <<"canon", k>>)
    BY <1>1, <1>3, <1>4 DEF analyze
  <2>2. repo' = res.r /\ (job' = <<"canon", k>> \/ job' = <<>>)
    BY <2>1 DEF Continue, Adopt
  <2> QED
    BY <1>1, <2>2 DEF analyze
<1>6. RepoInv(repo) /\ Within(repo.stats)
  BY InvRepo
<1>7. /\ RepoInv(r) /\ Outcome(repo, r)
      /\ (keyof[n] # <<>> /\ keyof[n] # <<k>> => n \notin DOMAIN r.cursor)
  <2>1. CASE keyof[n] # <<>> /\ keyof[n] # <<k>>
    <3>1. r = erase_cursor(repo, n)
      BY <1>3, <2>1
    <3>2. RepoInv(r) /\ Shrunk(repo, r) /\ DOMAIN r.cursor = DOMAIN repo.cursor \ {n}
      BY <1>6, <3>1, EraseCursor
    <3>3. Outcome(repo, r)
      BY <1>6, <3>2, ShrunkOutcome
    <3> QED
      BY <3>2, <3>3
  <2>2. CASE ~(keyof[n] # <<>> /\ keyof[n] # <<k>>)
    <3>1. r = repo
      BY <1>3, <2>2
    <3>2. Outcome(repo, repo)
      BY <1>6, ShrunkSelf, ShrunkOutcome
    <3> QED
      BY <1>6, <2>2, <3>1, <3>2
  <2> QED
    BY <2>1, <2>2
<1>8. fuel \in Int /\ StartBytes \in Nat
  BY CacheAssumption
<1>9. Outcome(r, res.r)
  <2>1. Within(r.stats)
    BY <1>7 DEF Outcome
  <2> QED
    BY <1>2, <1>4, <1>7, <1>8, <2>1, BeginCanonical
<1>10. /\ RepoInv(repo') /\ Within(repo'.stats)
       /\ Part(repo.cursor, r.cursor) /\ Part(r.cursor, repo'.cursor)
  BY <1>5, <1>7, <1>9 DEF Outcome
<1>11. keyof' \in [Name -> {<<>>} \cup {<<y>> : y \in CacheKeys}]
  BY <1>2, <1>5 DEF CacheInv
<1>12. ASSUME NEW c \in DOMAIN repo'.cursor
       PROVE  keyof'[c] = <<repo'.cursor[c].key>>
  <2>1. /\ c \in DOMAIN r.cursor /\ c \in DOMAIN repo.cursor
        /\ repo'.cursor[c] = repo.cursor[c]
    BY <1>10 DEF Part
  <2>2. keyof[c] = <<repo.cursor[c].key>>
    BY <2>1 DEF CacheInv
  <2>3. CASE c = n
    <3>1. keyof[n] = <<k>>
      <4>1. PICK x : x = repo.cursor[c].key
        OBVIOUS
      <4>2. <<x>> # <<>>
        OBVIOUS
      <4>3. keyof[n] # <<>>
        BY <2>2, <2>3, <4>1, <4>2, Zenon
      <4> QED
        BY <1>7, <2>1, <2>3, <4>3
    <3> QED
      BY <1>5, <2>1, <2>2, <2>3, <3>1 DEF CacheInv
  <2>4. CASE c # n
    BY <1>5, <2>1, <2>2, <2>4 DEF CacheInv
  <2> QED
    BY <2>3, <2>4
<1>13. JobInv'
  BY <1>2, <1>5 DEF JobInv
<1>14. ObjectsWithinHard'
  BY <1>10 DEF ObjectsWithinHard, Within
<1>15. streamCfg' \in StreamConfigs
  BY <1>5 DEF CacheInv
<1> QED
  BY <1>10, <1>11, <1>12, <1>13, <1>14, <1>15 DEF CacheInv

LEMMA AnalyzeCachedStep ==
  ASSUME CacheInv, NEW scope \in {"full"} \cup Ranges, NEW fuel \in Fuels,
         analyze_cached(scope, fuel)
  PROVE  CacheInv'
<1>1. PICK k : k = StreamKey(streamCfg, scope)
  OBVIOUS
<1>2. k \in CacheKeys
  <2>1. streamCfg \in Digest
    <3>1. streamCfg \in StreamConfigs
      BY DEF CacheInv
    <3>2. streamCfg # ""
      BY Zenon DEF analyze_cached
    <3> QED
      BY <3>1, <3>2, Zenon DEF StreamConfigs
  <2> QED
    BY <1>1, <2>1, KeysTyped
<1>3. PICK res : res = begin_canonical(repo, fuel, k, StartBytes)
  OBVIOUS
<1>4. /\ keyof' = keyof /\ streamCfg' = streamCfg
      /\ repo' = res.r /\ (job' = <<"canon", k>> \/ job' = <<>>)
  <2>1. Continue(res, "started", <<"canon", k>>) /\ keyof' = keyof /\ streamCfg' = streamCfg
    BY <1>1, <1>3, Zenon DEF analyze_cached
  <2> QED
    BY <2>1 DEF Continue, Adopt
<1>5. RepoInv(repo) /\ Within(repo.stats) /\ fuel \in Int /\ StartBytes \in Nat
  BY InvRepo, CacheAssumption
<1>6. Outcome(repo, repo')
  BY <1>2, <1>3, <1>4, <1>5, BeginCanonical
<1>7. JobInv'
  BY <1>2, <1>4 DEF JobInv
<1>8. streamCfg' \in StreamConfigs
  BY <1>4 DEF CacheInv
<1> QED
  BY <1>4, <1>6, <1>7, <1>8, StepKeepsInv

\* A build of a result has its key, a build of an index a resident index.
LEMMA JobCanon ==
  ASSUME JobInv, job # <<>>, job[1] = "canon"
  PROVE  job[2] \in CacheKeys /\ job = <<"canon", job[2]>>
BY DEF JobInv

LEMMA JobIndex ==
  ASSUME JobInv, job # <<>>, job[1] = "index"
  PROVE  job[2] \in DOMAIN repo.index /\ job = <<"index", job[2]>>
BY DEF JobInv

LEMMA GrowStep ==
  ASSUME CacheInv, NEW bytes \in Sizes, NEW fuel \in Fuels, Grow(bytes, fuel)
  PROVE  CacheInv'
<1>1. PICK k : k = job[2]
  OBVIOUS
<1>2. k \in CacheKeys /\ job = <<"canon", k>>
  BY <1>1, JobCanon DEF Grow, CacheInv
<1>3. PICK res : res = update_canonical_build_bytes(repo, fuel, k, bytes)
  OBVIOUS
<1>4. /\ keyof' = keyof /\ streamCfg' = streamCfg
      /\ repo' = res.r /\ (job' = job \/ job' = <<>>)
  <2>1. Continue(res, "ok", job) /\ keyof' = keyof /\ streamCfg' = streamCfg
    BY <1>1, <1>3 DEF Grow
  <2> QED
    BY <2>1 DEF Continue, Adopt
<1>5. RepoInv(repo) /\ Within(repo.stats) /\ fuel \in Int /\ bytes \in Nat
  BY InvRepo, CacheAssumption
<1>6. Outcome(repo, repo')
  BY <1>3, <1>4, <1>5, UpdateCanonical
<1>7. JobInv'
  BY <1>2, <1>4 DEF JobInv
<1>8. streamCfg' \in StreamConfigs
  BY <1>4 DEF CacheInv
<1> QED
  BY <1>4, <1>6, <1>7, <1>8, StepKeepsInv

LEMMA FinishStep ==
  ASSUME CacheInv, NEW bytes \in Sizes, NEW fuel \in Fuels, Finish(bytes, fuel)
  PROVE  CacheInv'
<1>1. PICK k : k = job[2]
  OBVIOUS
<1>2. PICK u : u = update_canonical_build_bytes(repo, fuel, k, bytes)
  OBVIOUS
<1>3. PICK res : res = PublishAfter(u, k, bytes, fuel)
  OBVIOUS
<1>4. keyof' = keyof /\ streamCfg' = streamCfg /\ repo' = res.r /\ job' = <<>>
  <2>1. Adopt(res, <<>>) /\ keyof' = keyof /\ streamCfg' = streamCfg
    BY <1>1, <1>2, <1>3 DEF Finish
  <2> QED
    BY <2>1 DEF Adopt
<1>5. RepoInv(repo) /\ Within(repo.stats) /\ fuel \in Int /\ bytes \in Nat
  BY InvRepo, CacheAssumption
<1>6. Outcome(repo, u.r) /\ RepoInv(u.r) /\ Within(u.r.stats)
  BY <1>2, <1>5, UpdateCanonical DEF Outcome
<1>7. Outcome(repo, res.r)
  <2>1. CASE Refused(u)
    <3>1. res = u
      BY <1>3, <2>1 DEF PublishAfter
    <3> QED
      BY <1>6, <3>1
  <2>2. CASE ~Refused(u)
    <3>1. PICK s : s = u.r
      OBVIOUS
    <3>2. res = publish_canonical(s, fuel, k, bytes)
      BY <1>3, <2>2, <3>1 DEF PublishAfter
    <3>3. Outcome(s, res.r)
      BY <1>5, <1>6, <3>1, <3>2, PublishCanonical
    <3> QED
      BY <1>6, <3>1, <3>3, OutcomeTwice
  <2> QED
    BY <2>1, <2>2
<1>8. JobInv'
  BY <1>4 DEF JobInv
<1>9. streamCfg' \in StreamConfigs
  BY <1>4 DEF CacheInv
<1> QED
  BY <1>4, <1>7, <1>8, <1>9, StepKeepsInv

LEMMA BuildFailsStep ==
  ASSUME CacheInv, BuildFails
  PROVE  CacheInv'
<1>1. keyof' = keyof /\ streamCfg' = streamCfg /\ job' = <<>>
  BY DEF BuildFails
<1>2. RepoInv(repo) /\ Within(repo.stats)
  BY InvRepo
<1>3. PICK x : x = job[2]
  OBVIOUS
<1>4. PICK q : q = repo'
  OBVIOUS
<1>5. q = fail_canonical(repo, x) \/ q = fail_index(repo, x)
  BY <1>3, <1>4 DEF BuildFails
<1>6. Outcome(repo, q)
  BY <1>2, <1>5, FailCanonical, FailIndex
<1>7. JobInv'
  BY <1>1 DEF JobInv
<1>8. streamCfg' \in StreamConfigs
  BY <1>1 DEF CacheInv
<1> QED
  BY <1>1, <1>4, <1>6, <1>7, <1>8, StepKeepsInv

LEMMA ScanDeadlineStep ==
  ASSUME CacheInv, ScanDeadline
  PROVE  CacheInv'
<1>1. repo' = repo /\ keyof' = keyof /\ streamCfg' = streamCfg /\ job' = <<>>
  BY DEF ScanDeadline
<1>2. Outcome(repo, repo)
  BY InvRepo, ShrunkSelf, ShrunkOutcome
<1>3. JobInv'
  BY <1>1 DEF JobInv
<1>4. streamCfg' \in StreamConfigs /\ Outcome(repo, repo')
  BY <1>1, <1>2 DEF CacheInv
<1> QED
  BY <1>1, <1>3, <1>4, StepKeepsInv

LEMMA EnsureIndexStep ==
  ASSUME CacheInv, NEW n \in Name, NEW kind \in Kinds, NEW fuel \in Fuels,
         ensure_index(n, kind, fuel)
  PROVE  CacheInv'
<1>1. PICK k : k = keyof[n][1]
  OBVIOUS
<1>2. PICK gen : gen = peek_canonical(repo, k)
  OBVIOUS
<1>3. PICK i : i = <<k, gen[1], kind>>
  OBVIOUS
<1>4. PICK res : res = begin_index(repo, fuel, i, StartBytes)
  OBVIOUS
<1>5. /\ keyof[n] # <<>> /\ gen # <<>> /\ keyof' = keyof /\ streamCfg' = streamCfg
      /\ repo' = res.r
      /\ job' = IF ~res.thrown /\ res.status = "started" THEN <<"index", i>> ELSE <<>>
  <2>1. /\ keyof[n] # <<>> /\ gen # <<>> /\ keyof' = keyof /\ streamCfg' = streamCfg
        /\ Continue(res, "started", <<"index", i>>)
    BY <1>1, <1>2, <1>3, <1>4 DEF ensure_index
  <2> QED
    BY <2>1 DEF Continue, Adopt
<1>6. RepoInv(repo) /\ Within(repo.stats) /\ fuel \in Int /\ StartBytes \in Nat
  BY InvRepo, CacheAssumption
<1>7. i \in IndexKeys
  <2>1. k \in CacheKeys
    BY <1>1, <1>5 DEF CacheInv
  <2>2. k \in DOMAIN repo.canon /\ gen = <<repo.canon[k].gen>>
    BY <1>2, <1>5 DEF peek_canonical
  <2>3. repo.canon[k].gen \in Nat
    BY <1>6, <2>2 DEF RepoInv, Typed, MapOf, Entries
  <2>4. gen[1] \in Nat
    BY <2>2, <2>3
  <2> QED
    BY <1>3, <2>1, <2>4 DEF IndexKeys
<1>8. /\ Outcome(repo, res.r)
      /\ ~res.thrown /\ res.status = "started" => i \in DOMAIN res.r.index
  BY <1>4, <1>6, <1>7, BeginIndex
<1>9. JobInv'
  <2>1. CASE ~res.thrown /\ res.status = "started"
    <3>1. i \in DOMAIN repo'.index /\ job' = <<"index", i>>
      BY <1>5, <1>8, <2>1
    <3> QED
      BY <3>1 DEF JobInv
  <2>2. CASE ~(~res.thrown /\ res.status = "started")
    <3>1. job' = <<>>
      BY <1>5, <2>2
    <3> QED
      BY <3>1 DEF JobInv
  <2> QED
    BY <2>1, <2>2
<1>10. streamCfg' \in StreamConfigs /\ Outcome(repo, repo')
  BY <1>5, <1>8 DEF CacheInv
<1> QED
  BY <1>5, <1>9, <1>10, StepKeepsInv

LEMMA GrowIndexStep ==
  ASSUME CacheInv, NEW bytes \in Sizes, NEW fuel \in Fuels, GrowIndex(bytes, fuel)
  PROVE  CacheInv'
<1>1. PICK i : i = job[2]
  OBVIOUS
<1>2. job = <<"index", i>>
  BY <1>1, JobIndex DEF GrowIndex, CacheInv
<1>3. PICK res : res = update_index_build_bytes(repo, fuel, i, bytes)
  OBVIOUS
<1>4. /\ keyof' = keyof /\ streamCfg' = streamCfg /\ repo' = res.r
      /\ job' = IF ~res.thrown /\ res.status = "ok" THEN job ELSE <<>>
  <2>1. Continue(res, "ok", job) /\ keyof' = keyof /\ streamCfg' = streamCfg
    BY <1>1, <1>3 DEF GrowIndex
  <2> QED
    BY <2>1 DEF Continue, Adopt
<1>5. RepoInv(repo) /\ Within(repo.stats) /\ fuel \in Int /\ bytes \in Nat
  BY InvRepo, CacheAssumption
<1>6. /\ Outcome(repo, res.r)
      /\ ~res.thrown /\ res.status = "ok" => i \in DOMAIN res.r.index
  BY <1>3, <1>5, UpdateIndex
<1>7. JobInv'
  <2>1. CASE ~res.thrown /\ res.status = "ok"
    <3>1. i \in DOMAIN repo'.index /\ job' = <<"index", i>>
      BY <1>2, <1>4, <1>6, <2>1
    <3> QED
      BY <3>1 DEF JobInv
  <2>2. CASE ~(~res.thrown /\ res.status = "ok")
    <3>1. job' = <<>>
      BY <1>4, <2>2
    <3> QED
      BY <3>1 DEF JobInv
  <2> QED
    BY <2>1, <2>2
<1>8. streamCfg' \in StreamConfigs /\ Outcome(repo, repo')
  BY <1>4, <1>6 DEF CacheInv
<1> QED
  BY <1>4, <1>7, <1>8, StepKeepsInv

LEMMA FinishIndexStep ==
  ASSUME CacheInv, NEW bytes \in Sizes, NEW fuel \in Fuels, FinishIndex(bytes, fuel)
  PROVE  CacheInv'
<1>1. PICK i : i = job[2]
  OBVIOUS
<1>2. PICK u : u = update_index_build_bytes(repo, fuel, i, bytes)
  OBVIOUS
<1>3. PICK res : res = PublishIndexAfter(u, i, bytes, fuel)
  OBVIOUS
<1>4. keyof' = keyof /\ streamCfg' = streamCfg /\ repo' = res.r /\ job' = <<>>
  <2>1. Adopt(res, <<>>) /\ keyof' = keyof /\ streamCfg' = streamCfg
    BY <1>1, <1>2, <1>3 DEF FinishIndex
  <2> QED
    BY <2>1 DEF Adopt
<1>5. RepoInv(repo) /\ Within(repo.stats) /\ fuel \in Int /\ bytes \in Nat
  BY InvRepo, CacheAssumption
<1>6. Outcome(repo, u.r) /\ RepoInv(u.r) /\ Within(u.r.stats)
  BY <1>2, <1>5, UpdateIndex DEF Outcome
<1>7. Outcome(repo, res.r)
  <2>1. CASE Refused(u)
    <3>1. res = u
      BY <1>3, <2>1 DEF PublishIndexAfter
    <3> QED
      BY <1>6, <3>1
  <2>2. CASE ~Refused(u)
    <3>1. PICK s : s = u.r
      OBVIOUS
    <3>2. res = publish_index(s, fuel, i, bytes)
      BY <1>3, <2>2, <3>1 DEF PublishIndexAfter
    <3>3. Outcome(s, res.r)
      BY <1>5, <1>6, <3>1, <3>2, PublishIndex
    <3> QED
      BY <1>6, <3>1, <3>3, OutcomeTwice
  <2> QED
    BY <2>1, <2>2
<1>8. JobInv'
  BY <1>4 DEF JobInv
<1>9. streamCfg' \in StreamConfigs /\ Outcome(repo, repo')
  BY <1>4, <1>7 DEF CacheInv
<1> QED
  BY <1>4, <1>8, <1>9, StepKeepsInv

\* A step that may move the cursor of n on the key of n.
LEMMA StepMovesCursor ==
  ASSUME CacheInv, NEW n, NEW k, keyof[n] = <<k>>, BoundOutcome(repo, n, k, repo'),
         keyof' = keyof, streamCfg' = streamCfg, job' = <<>>
  PROVE  CacheInv'
<1>1. RepoInv(repo') /\ Within(repo'.stats)
  BY DEF BoundOutcome
<1>2. ObjectsWithinHard'
  BY <1>1 DEF ObjectsWithinHard, Within
<1>3. ASSUME NEW c \in DOMAIN repo'.cursor
      PROVE  keyof'[c] = <<repo'.cursor[c].key>>
  <2>1. CASE c = n /\ repo'.cursor[c].key = k
    BY <2>1
  <2>2. CASE c \in DOMAIN repo.cursor /\ repo'.cursor[c].key = repo.cursor[c].key
    <3>1. keyof[c] = <<repo.cursor[c].key>>
      BY <2>2 DEF CacheInv
    <3> QED
      BY <2>2, <3>1
  <2> QED
    BY <1>3, <2>1, <2>2 DEF BoundOutcome
<1>4. keyof' \in [Name -> {<<>>} \cup {<<y>> : y \in CacheKeys}] /\ streamCfg' \in StreamConfigs
  BY DEF CacheInv
<1>5. JobInv'
  BY DEF JobInv
<1> QED
  BY <1>1, <1>2, <1>3, <1>4, <1>5 DEF CacheInv

\* The cursor that a command makes is on the resident result of the name's key.
LEMMA CursorHere ==
  ASSUME CacheInv, NEW n \in Name, HasResult(n), NEW pos \in Int,
         NEW c, c = CursorAt(n, pos)
  PROVE  /\ c \in Cursors /\ keyof[n] = <<c.key>> /\ c.key \in DOMAIN repo.canon
         /\ c.gen = repo.canon[c.key].gen
         /\ c.key \in DOMAIN repo.gens /\ c.gen = repo.gens[c.key] /\ c.gen \in Nat
<1>1. PICK k : k = keyof[n][1]
  OBVIOUS
<1>2. PICK g : g = peek_canonical(repo, k)
  OBVIOUS
<1>3. keyof[n] # <<>> /\ g # <<>>
  BY <1>1, <1>2 DEF HasResult
<1>4. k \in CacheKeys /\ keyof[n] = <<k>>
  BY <1>1, <1>3 DEF CacheInv
<1>5. k \in DOMAIN repo.canon /\ g = <<repo.canon[k].gen>>
  BY <1>2, <1>3 DEF peek_canonical
<1>6. RepoInv(repo)
  BY InvRepo
<1>7. repo.canon[k].gen \in Nat /\ k \in DOMAIN repo.gens /\ repo.canon[k].gen = repo.gens[k]
  <2>1. repo.canon[k].gen \in Nat
    BY <1>5, <1>6 DEF RepoInv, Typed, MapOf, Entries
  <2> QED
    BY <1>5, <1>6, <2>1 DEF RepoInv, Linked
<1>8. c = [key |-> k, gen |-> g[1], pos |-> pos]
  BY <1>1, <1>2 DEF CursorAt
<1>9. c.key = k /\ c.gen = repo.canon[k].gen /\ c \in Cursors
  BY <1>4, <1>5, <1>7, <1>8 DEF Cursors
<1> QED
  BY <1>4, <1>5, <1>7, <1>9

LEMMA CursorPlaceStep ==
  ASSUME CacheInv, NEW n \in Name, NEW pos \in {0, LastTxn}, NEW fuel \in Fuels,
         cursor_place(n, pos, fuel)
  PROVE  CacheInv'
<1>1. PICK c : c = CursorAt(n, pos)
  OBVIOUS
<1>2. PICK res : res = put_cursor(repo, fuel, n, c)
  OBVIOUS
<1>3. /\ HasResult(n) /\ keyof' = keyof /\ streamCfg' = streamCfg
      /\ repo' = res.r /\ job' = <<>>
  <2>1. /\ HasResult(n) /\ keyof' = keyof /\ streamCfg' = streamCfg /\ Adopt(res, <<>>)
    BY <1>1, <1>2 DEF cursor_place
  <2> QED
    BY <2>1 DEF Adopt
<1>4. RepoInv(repo) /\ Within(repo.stats) /\ fuel \in Int /\ pos \in Int
  BY InvRepo, CacheAssumption
<1>5. /\ c \in Cursors /\ keyof[n] = <<c.key>> /\ c.key \in DOMAIN repo.canon
      /\ c.gen = repo.canon[c.key].gen
  BY <1>1, <1>3, <1>4, CursorHere
<1>6. BoundOutcome(repo, n, c.key, res.r)
  BY <1>2, <1>4, <1>5, PutsCursor
<1>7. BoundOutcome(repo, n, c.key, repo')
  BY <1>3, <1>6
<1>8. PICK k : k = c.key
  OBVIOUS
<1> QED
  BY <1>3, <1>5, <1>7, <1>8, StepMovesCursor

LEMMA CursorMoveStep ==
  ASSUME CacheInv, NEW n \in Name, NEW by \in {-1, 1}, NEW fuel \in Fuels,
         cursor_move(n, by, fuel)
  PROVE  CacheInv'
<1>1. PICK here : here = CursorAt(n, 0)
  OBVIOUS
<1>2. PICK s : s = Resumed(n)
  OBVIOUS
<1>3. PICK c : c = IF n \in DOMAIN s.r.cursor THEN s.r.cursor[n] ELSE here
  OBVIOUS
<1>4. PICK moved : moved = [c EXCEPT !.pos = @ + by]
  OBVIOUS
<1>5. PICK res : res = IF s.status = "ok" /\ moved.pos \in 0..LastTxn
                       THEN put_cursor(s.r, fuel, n, moved) ELSE s
  OBVIOUS
<1>6. /\ HasResult(n) /\ keyof' = keyof /\ streamCfg' = streamCfg
      /\ repo' = res.r /\ job' = <<>>
  <2>1. /\ HasResult(n) /\ keyof' = keyof /\ streamCfg' = streamCfg /\ Adopt(res, <<>>)
    BY <1>1, <1>2, <1>3, <1>4, <1>5 DEF cursor_move
  <2> QED
    BY <2>1 DEF Adopt
<1>7. RepoInv(repo) /\ Within(repo.stats) /\ fuel \in Int
  BY InvRepo, CacheAssumption
<1>8. PICK k : k = here.key
  OBVIOUS
<1>9. /\ here \in Cursors /\ keyof[n] = <<k>> /\ k \in DOMAIN repo.canon
      /\ here.gen = repo.canon[k].gen
      /\ k \in DOMAIN repo.gens /\ here.gen = repo.gens[k] /\ here.gen \in Nat
  BY <1>1, <1>6, <1>8, CursorHere
<1>10. /\ BoundOutcome(repo, n, k, s.r) /\ s.r.canon = repo.canon
       /\ s.status = "ok" /\ n \in DOMAIN s.r.cursor => /\ s.r.cursor[n].key = k
                                                        /\ s.r.cursor[n].gen = here.gen
  <2>1. CASE n \in DOMAIN repo.cursor /\ repo.cursor[n].gen # here.gen
    <3>1. s = resume_cursor(repo, n, k, here.gen)
      BY <1>1, <1>2, <1>8, <2>1 DEF Resumed
    <3>2. PICK g \in Nat : g = here.gen
      BY <1>9
    <3>3. g <= repo.gens[k] /\ k \in DOMAIN repo.gens
      BY <1>9, <3>2
    <3>4. s = resume_cursor(repo, n, k, g)
      BY <3>1, <3>2
    <3>5. /\ BoundOutcome(repo, n, k, s.r) /\ s.r.canon = repo.canon
          /\ s.status = "ok" => /\ n \in DOMAIN s.r.cursor /\ s.r.cursor[n].key = k
                                /\ s.r.cursor[n].gen = g
      BY <1>7, <3>3, <3>4, ResumesCursor
    <3> QED
      BY <3>2, <3>5
  <2>2. CASE ~(n \in DOMAIN repo.cursor /\ repo.cursor[n].gen # here.gen)
    <3>1. s = Result(repo, FALSE, "ok")
      BY <1>1, <1>2, <2>2 DEF Resumed
    <3>2. s.r = repo
      BY <3>1 DEF Result
    <3>3. BoundOutcome(repo, n, k, repo)
      BY <1>7, ShrunkSelf, ShrunkOutcome, OutcomeBound
    <3>4. n \in DOMAIN repo.cursor => repo.cursor[n].gen = here.gen /\ repo.cursor[n].key = k
      <4>1. ASSUME n \in DOMAIN repo.cursor
            PROVE  repo.cursor[n].key = k
        <5>1. <<repo.cursor[n].key>> = <<k>>
          BY <1>9, <4>1 DEF CacheInv
        <5> QED
          BY <5>1
      <4> QED
        BY <2>2, <4>1
    <3> QED
      BY <3>2, <3>3, <3>4
  <2> QED
    BY <2>1, <2>2
<1>11. BoundOutcome(repo, n, k, res.r)
  <2>1. CASE s.status = "ok" /\ moved.pos \in 0..LastTxn
    <3>1. PICK t : t = s.r
      OBVIOUS
    <3>2. res = put_cursor(t, fuel, n, moved)
      BY <1>5, <2>1, <3>1
    <3>3. RepoInv(t) /\ Within(t.stats) /\ t.canon = repo.canon
      BY <1>10, <3>1 DEF BoundOutcome
    <3>4. c \in Cursors /\ c.key = k /\ c.gen = here.gen
      <4>1. CASE n \in DOMAIN t.cursor
        <5>1. c = t.cursor[n] /\ c.key = k /\ c.gen = here.gen
          BY <1>3, <1>10, <2>1, <3>1, <4>1
        <5>2. t.cursor[n] \in Cursors
          BY <3>3, <4>1 DEF RepoInv, Typed, MapOf
        <5> QED
          BY <5>1, <5>2
      <4>2. CASE n \notin DOMAIN t.cursor
        BY <1>3, <1>8, <1>9, <3>1, <4>2
      <4> QED
        BY <4>1, <4>2
    <3>5. moved \in Cursors /\ moved.key = k /\ moved.gen = here.gen
      BY <1>4, <3>4 DEF Cursors
    <3>6. k \in DOMAIN t.canon /\ here.gen = t.canon[k].gen
      BY <1>9, <3>3
    <3>7. moved.key \in DOMAIN t.canon /\ moved.gen = t.canon[moved.key].gen
      BY <3>5, <3>6
    <3>8. BoundOutcome(t, n, moved.key, res.r)
      BY <1>7, <3>2, <3>3, <3>5, <3>7, PutsCursor
    <3>9. BoundOutcome(repo, n, k, t) /\ BoundOutcome(t, n, k, res.r)
      BY <1>10, <3>1, <3>5, <3>8
    <3> QED
      BY <3>9, BoundTwice
  <2>2. CASE ~(s.status = "ok" /\ moved.pos \in 0..LastTxn)
    <3>1. res = s
      BY <1>5, <2>2
    <3> QED
      BY <1>10, <3>1
  <2> QED
    BY <2>1, <2>2
<1>12. BoundOutcome(repo, n, k, repo')
  BY <1>6, <1>11
<1> QED
  BY <1>6, <1>9, <1>12, StepMovesCursor

LEMMA LoadStreamConfigStep ==
  ASSUME CacheInv, NEW d \in Digest, NEW fuel \in Fuels, load_stream_config(d, fuel)
  PROVE  CacheInv'
<1>1. PICK res : res = notify_stream_config_change(repo, fuel, "st", streamCfg, d)
  OBVIOUS
<1>2. keyof' = keyof /\ streamCfg' = d /\ repo' = res.r /\ job' = <<>>
  <2>1. keyof' = keyof /\ streamCfg' = d /\ Adopt(res, <<>>)
    BY <1>1 DEF load_stream_config
  <2> QED
    BY <2>1 DEF Adopt
<1>3. RepoInv(repo) /\ Within(repo.stats) /\ fuel \in Int
  BY InvRepo, CacheAssumption
<1>4. Outcome(repo, repo')
  BY <1>1, <1>2, <1>3, Notifies
<1>5. JobInv'
  BY <1>2 DEF JobInv
<1>6. streamCfg' \in StreamConfigs
  BY <1>2, Zenon DEF StreamConfigs
<1> QED
  BY <1>2, <1>4, <1>5, <1>6, StepKeepsInv

LEMMA CloseStep ==
  ASSUME CacheInv, close_fsdb_file
  PROVE  CacheInv'
<1>1. /\ repo' = EmptyRepository /\ keyof' = [n \in Name |-> <<>>]
      /\ streamCfg' = streamCfg /\ job' = <<>>
  BY DEF close_fsdb_file, clear
<1>2. RepoInv(repo') /\ Within(repo'.stats)
  BY <1>1, Emptied
<1>3. ObjectsWithinHard'
  BY <1>2 DEF ObjectsWithinHard, Within
<1>4. DOMAIN repo'.cursor = {}
  BY <1>1 DEF EmptyRepository, NoFun
<1>5. keyof' \in [Name -> {<<>>} \cup {<<k>> : k \in CacheKeys}]
  BY <1>1
<1>6. streamCfg' \in StreamConfigs
  BY <1>1 DEF CacheInv
<1>7. JobInv'
  BY <1>1 DEF JobInv
<1> QED
  BY <1>2, <1>3, <1>4, <1>5, <1>6, <1>7 DEF CacheInv

(***************************************************************************)
(* The theorems.                                                           *)
(***************************************************************************)
LEMMA InitCache == Init => CacheInv
<1> SUFFICES ASSUME Init PROVE CacheInv
  OBVIOUS
<1>1. repo = EmptyRepository /\ keyof = [n \in Name |-> <<>>] /\ job = <<>>
  BY Zenon DEF Init
<1>2. streamCfg \in StreamConfigs
  BY Zenon DEF Init, StreamConfigs
<1>3. RepoInv(repo) /\ Within(repo.stats)
  BY <1>1, Emptied
<1>4. ObjectsWithinHard
  BY <1>3 DEF ObjectsWithinHard, Within
<1>5. DOMAIN repo.cursor = {}
  BY <1>1 DEF EmptyRepository, NoFun
<1>6. keyof \in [Name -> {<<>>} \cup {<<k>> : k \in CacheKeys}]
  BY <1>1
<1>7. JobInv
  BY <1>1 DEF JobInv
<1> QED
  BY <1>2, <1>3, <1>4, <1>5, <1>6, <1>7 DEF CacheInv

LEMMA QuietCache == CacheInv /\ UNCHANGED vars => CacheInv'
<1> SUFFICES ASSUME CacheInv, UNCHANGED vars PROVE CacheInv'
  OBVIOUS
<1>1. repo' = repo /\ keyof' = keyof /\ streamCfg' = streamCfg /\ job' = job
  BY DEF vars
<1>2. Outcome(repo, repo')
  BY <1>1, InvRepo, ShrunkSelf, ShrunkOutcome
<1>3. JobInv'
  BY <1>1 DEF JobInv, CacheInv
<1>4. streamCfg' \in StreamConfigs
  BY <1>1 DEF CacheInv
<1> QED
  BY <1>1, <1>2, <1>3, <1>4, StepKeepsInv

LEMMA NextCache == CacheInv /\ [Next]_vars => CacheInv'
<1> SUFFICES ASSUME CacheInv, [Next]_vars PROVE CacheInv'
  OBVIOUS
<1>1. ASSUME NEW n \in Name, NEW s \in Sem, NEW f \in Fuels, analyze(n, s, f)
      PROVE  CacheInv'
  BY <1>1, AnalyzeStep
<1>2. ASSUME NEW s \in {"full"} \cup Ranges, NEW f \in Fuels, analyze_cached(s, f)
      PROVE  CacheInv'
  BY <1>2, AnalyzeCachedStep
<1>3. ASSUME NEW b \in Sizes, NEW f \in Fuels, Grow(b, f) PROVE CacheInv'
  BY <1>3, GrowStep
<1>4. ASSUME NEW b \in Sizes, NEW f \in Fuels, Finish(b, f) PROVE CacheInv'
  BY <1>4, FinishStep
<1>5. CASE BuildFails
  BY <1>5, BuildFailsStep
<1>6. CASE ScanDeadline
  BY <1>6, ScanDeadlineStep
<1>7. ASSUME NEW n \in Name, NEW k \in Kinds, NEW f \in Fuels, ensure_index(n, k, f)
      PROVE  CacheInv'
  BY <1>7, EnsureIndexStep
<1>8. ASSUME NEW b \in Sizes, NEW f \in Fuels, GrowIndex(b, f) PROVE CacheInv'
  BY <1>8, GrowIndexStep
<1>9. ASSUME NEW b \in Sizes, NEW f \in Fuels, FinishIndex(b, f) PROVE CacheInv'
  BY <1>9, FinishIndexStep
<1>10. ASSUME NEW n \in Name, NEW p \in {0, LastTxn}, NEW f \in Fuels, cursor_place(n, p, f)
       PROVE  CacheInv'
  BY <1>10, CursorPlaceStep
<1>11. ASSUME NEW n \in Name, NEW by \in {-1, 1}, NEW f \in Fuels, cursor_move(n, by, f)
       PROVE  CacheInv'
  BY <1>11, CursorMoveStep
<1>12. ASSUME NEW d \in Digest, NEW f \in Fuels, load_stream_config(d, f) PROVE CacheInv'
  BY <1>12, LoadStreamConfigStep
<1>13. CASE close_fsdb_file
  BY <1>13, CloseStep
<1>14. CASE UNCHANGED vars
  BY <1>14, QuietCache
<1> QED
  BY <1>1, <1>2, <1>3, <1>4, <1>5, <1>6, <1>7, <1>8, <1>9, <1>10, <1>11, <1>12, <1>13, <1>14
  DEF Next

\* However the engine builds, grows, publishes, fails and evicts results and
\* indexes, moves cursors and meets deadlines, the maps of AnalysisRepository
\* keep their shape and refer to one another, and its counters are theirs.
THEOREM CacheInvariant == Spec => []CacheInv
  BY InitCache, NextCache, PTL DEF Spec

\* What debug_recomputed_stats counts is what the invariant says of the counters.
LEMMA Recomputed ==
  ASSUME NEW r, RepoInv(r)
  PROVE  r.stats = debug_recomputed_stats(r)
<1>1. PICK s : s = r.stats
  OBVIOUS
<1>2. PICK res : res = Total(r.canon, "res") + Total(r.index, "res")
  OBVIOUS
<1>3. PICK bld : bld = Total(r.canon, "bld") + Total(r.index, "bld")
  OBVIOUS
<1>4. PICK meta : meta = MetadataOf(Cardinality(DOMAIN r.gens), Len(r.tlru),
                                    Cardinality(DOMAIN r.cursor),
                                    Cardinality(DOMAIN r.binding))
  OBVIOUS
<1>5. debug_recomputed_stats(r) =
        [resident |-> res, build |-> bld, metadata |-> meta,
         charged |-> charge(res) + charge(bld) + charge(meta),
         canonicals |-> Ready(r.canon), indexes |-> Ready(r.index),
         generations |-> Cardinality(DOMAIN r.gens),
         cursors |-> Cardinality(DOMAIN r.cursor),
         bindings |-> Cardinality(DOMAIN r.binding), tombstones |-> Len(r.tlru)]
  BY <1>2, <1>3, <1>4, Zenon DEF debug_recomputed_stats, Total, Ready, MetadataOf
<1>6. /\ s \in Stats /\ s.resident = res /\ s.build = bld
      /\ s.canonicals = Ready(r.canon) /\ s.indexes = Ready(r.index)
      /\ s.generations = Cardinality(DOMAIN r.gens) /\ s.tombstones = Len(r.tlru)
      /\ s.cursors = Cardinality(DOMAIN r.cursor)
      /\ s.bindings = Cardinality(DOMAIN r.binding)
  BY <1>1, <1>2, <1>3, Zenon DEF RepoInv, Typed, Tallied
<1>7. s.metadata = meta
  BY <1>1, <1>4, <1>6, Zenon DEF RepoInv, Described
<1>8. s.charged = charge(res) + charge(bld) + charge(meta)
  BY <1>1, <1>6, <1>7, Zenon DEF RepoInv, Charged
<1>9. s = [resident |-> s.resident, build |-> s.build, charged |-> s.charged,
           metadata |-> s.metadata, canonicals |-> s.canonicals, indexes |-> s.indexes,
           generations |-> s.generations, cursors |-> s.cursors,
           bindings |-> s.bindings, tombstones |-> s.tombstones]
  BY <1>6 DEF Stats
<1> QED
  BY <1>1, <1>5, <1>6, <1>7, <1>8, <1>9

\* After any sequence of builds, evictions, cursor moves and expired deadlines
\* the byte and object counters that make_hard_room and enforce_soft_budget
\* read are those of the maps (stats against debug_recomputed_stats).
THEOREM CountersAreExact == Spec => []AccountingExact
<1>1. CacheInv => AccountingExact
  BY Recomputed DEF CacheInv, AccountingExact
<1> QED
  BY <1>1, CacheInvariant, PTL

\* Eviction never takes the canonical result under an index, resident or being
\* built: the raw pointer that numeric_index and handshake_index keep across
\* begin_index, update_index_build_bytes and publish_index stays valid.
THEOREM IndexesKeepTheirOwner == Spec => []IndexOwned
<1>1. CacheInv => IndexOwned
  <2> SUFFICES ASSUME CacheInv PROVE IndexOwned
    OBVIOUS
  <2>1. RepoInv(repo)
    BY InvRepo
  <2>2. ASSUME NEW i \in DOMAIN repo.index
        PROVE  peek_canonical(repo, i[1]) = <<i[2]>>
    <3>1. /\ i[1] \in DOMAIN repo.canon /\ repo.canon[i[1]].st = "ready"
          /\ repo.canon[i[1]].gen = i[2]
      BY <2>1, <2>2 DEF RepoInv, Linked
    <3> QED
      BY <3>1 DEF peek_canonical
  <2>3. ASSUME job # <<>>, job[1] = "index"
        PROVE  peek_canonical(repo, job[2][1]) = <<job[2][2]>>
    <3>1. PICK i : i = job[2]
      OBVIOUS
    <3>2. i \in DOMAIN repo.index
      BY <2>3, <3>1, JobIndex DEF CacheInv
    <3> QED
      BY <2>2, <3>1, <3>2
  <2> QED
    BY <2>2, <2>3 DEF IndexOwned
<1> QED
  BY <1>1, CacheInvariant, PTL

\* The cursor of a name is of the key the name is bound to, and of no newer
\* generation than the resident one, whatever was evicted, analyzed again or
\* closed since cursor_begin: cursor_next can rely on it.
THEOREM CursorsStayBound == Spec => []CursorBound
<1>1. CacheInv => CursorBound
  <2> SUFFICES ASSUME CacheInv, NEW n \in DOMAIN repo.cursor
               PROVE  /\ keyof[n] = <<repo.cursor[n].key>>
                      /\ repo.cursor[n].key \in DOMAIN repo.gens
                      /\ repo.cursor[n].gen <= repo.gens[repo.cursor[n].key]
    BY DEF CursorBound
  <2>1. RepoInv(repo)
    BY InvRepo
  <2>2. keyof[n] = <<repo.cursor[n].key>>
    BY DEF CacheInv
  <2> QED
    BY <2>1, <2>2 DEF RepoInv, Linked
<1> QED
  BY <1>1, CacheInvariant, PTL

\* The objects and the build estimates never exceed the hard budget, for every
\* budget, safety factor and deadline: begin, update and publish ask
\* make_hard_room before every growth, and give up when it says no.
THEOREM HardBudgetHolds == Spec => []ObjectsWithinHard
<1>1. CacheInv => ObjectsWithinHard
  BY DEF CacheInv
<1> QED
  BY <1>1, CacheInvariant, PTL
=============================================================================
