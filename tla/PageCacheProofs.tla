--------------------------- MODULE PageCacheProofs ---------------------------
(***************************************************************************)
(* Proofs about PageCache: what its entries, its total, its mappings and   *)
(* its directory have to do with one another after any sequence of Sets,   *)
(* Gets, evictions, invalidations, failed system calls and restarts.       *)
(***************************************************************************)
EXTENDS PageCache, FiniteSetTheorems, WellFoundedInduction, NaturalsInduction, TLAPS

-----------------------------------------------------------------------------
(* Sums.                                                                   *)

(* A set of numbers with 0 and every successor has them all.               *)
LEMMA Counting ==
  ASSUME NEW S, S \subseteq Nat, 0 \in S, \A n \in S : n + 1 \in S
  PROVE  S = Nat
  <1> SUFFICES ASSUME Nat \ S # {} PROVE FALSE
    OBVIOUS
  <1>1. \E m \in Nat \ S : \A n \in Nat \ S : <<n, m>> \notin OpToRel(<, Nat)
    <2>1. Nat \ S \subseteq Nat
      OBVIOUS
    <2> QED
      BY <2>1, NatLessThanWellFounded, WFMin
  <1>2. \A t, m \in Nat : t < m => <<t, m>> \in OpToRel(<, Nat)
    BY Zenon DEF OpToRel
  <1>3. PICK m \in Nat \ S : \A n \in Nat \ S : ~(n < m)
    BY <1>1, <1>2, Zenon
  <1>4. m # 0 /\ m - 1 \in Nat /\ m - 1 < m /\ (m - 1) + 1 = m
    BY <1>3
  <1> QED
    BY <1>3, <1>4

(* A family with the empty set, and with a set if it has the set without   *)
(* any one of its elements, has every subset of a finite set.              *)
LEMMA Shrinking ==
  ASSUME NEW S, IsFiniteSet(S), NEW C, {} \in C,
         \A T \in SUBSET S : T # {} /\ (\A x \in T : T \ {x} \in C) => T \in C
  PROVE  SUBSET S \subseteq C
  <1> DEFINE N == {n \in Nat : \A T \in SUBSET S : Cardinality(T) = n => T \in C}
  <1>1. 0 \in N
    <2>1. \A T \in SUBSET S : Cardinality(T) = 0 => T = {}
      BY FS_Subset, FS_EmptySet
    <2> QED
      BY <2>1
  <1>2. ASSUME NEW n \in N PROVE n + 1 \in N
    <2> SUFFICES ASSUME NEW T \in SUBSET S, Cardinality(T) = n + 1 PROVE T \in C
      OBVIOUS
    <2>1. IsFiniteSet(T) /\ n \in Nat
      BY FS_Subset
    <2>2. T # {}
      BY <2>1, FS_EmptySet
    <2>3. ASSUME NEW x \in T PROVE T \ {x} \in C
      <3>1. Cardinality(T \ {x}) = Cardinality(T) - 1
        BY <2>1, FS_RemoveElement
      <3>2. Cardinality(T \ {x}) = n
        BY <2>1, <3>1
      <3> QED
        BY <3>2
    <2> QED
      BY <2>2, <2>3
  <1>3. N = Nat
    <2> HIDE DEF N
    <2>1. N \subseteq Nat
      BY DEF N
    <2> QED
      BY <1>1, <1>2, <2>1, Counting
  <1>4. \A T \in SUBSET S : Cardinality(T) \in Nat
    BY FS_Subset, FS_CardinalityType
  <1> QED
    BY <1>3, <1>4

\* f has the sum over every subset of S, an element taken from it at a time
Adds(f, w, S) ==
    f = [s \in SUBSET S |->
           IF s = {} THEN 0 ELSE LET x == CHOOSE x \in s : TRUE IN w[x] + f[s \ {x}]]

(* What such sums are, element by element.                                 *)
LEMMA AddsValue ==
  ASSUME NEW w, NEW S, NEW f, Adds(f, w, S)
  PROVE  /\ f[{}] = 0
         /\ \A s \in (SUBSET S) \ {{}} : \E x \in s : f[s] = w[x] + f[s \ {x}]
  <1> DEFINE Value(s) == IF s = {} THEN 0
                         ELSE LET x == CHOOSE x \in s : TRUE IN w[x] + f[s \ {x}]
  <1>1. f = [s \in SUBSET S |-> Value(s)]
    BY DEF Adds
  <1> HIDE DEF Value
  <1>2. \A s \in SUBSET S : f[s] = Value(s)
    BY <1>1
  <1>3. f[{}] = 0
    BY <1>2 DEF Value
  <1>4. ASSUME NEW s \in (SUBSET S) \ {{}} PROVE \E x \in s : f[s] = w[x] + f[s \ {x}]
    <2>1. s \in SUBSET S /\ s # {}
      OBVIOUS
    <2> DEFINE e == CHOOSE x \in s : TRUE
    <2>2. e \in s
      BY <2>1
    <2>3. f[s] = w[e] + f[s \ {e}]
      BY <1>2, <2>1 DEF Value
    <2> QED
      BY <2>2, <2>3
  <1> QED
    BY <1>3, <1>4

(* The sums are there.                                                     *)
LEMMA AddsExists ==
  ASSUME NEW w, NEW S, IsFiniteSet(S)
  PROVE  \E f : Adds(f, w, S)
  <1> DEFINE Sub(n) == {s \in SUBSET S : Cardinality(s) <= n}
             Value(f, s) == IF s = {} THEN 0
                            ELSE LET x == CHOOSE x \in s : TRUE IN w[x] + f[s \ {x}]
             Is(f, n) == f = [s \in Sub(n) |-> Value(f, s)]
             N == {n \in Nat : \E f : Is(f, n)}
  <1>1. \A s \in SUBSET S : IsFiniteSet(s) /\ Cardinality(s) \in Nat
    BY FS_Subset, FS_CardinalityType
  <1>2. 0 \in N
    <2>1. \A s \in Sub(0) : s = {}
      BY <1>1, FS_EmptySet
    <2>2. Is([s \in Sub(0) |-> 0], 0)
      BY <2>1
    <2> QED
      BY <2>2
  <1>3. ASSUME NEW n \in N PROVE n + 1 \in N
    <2>1. PICK f : Is(f, n)
      OBVIOUS
    <2> DEFINE g == [s \in Sub(n + 1) |-> IF s \in Sub(n) THEN f[s] ELSE Value(f, s)]
    <2>2. \A s \in Sub(n) : s \in Sub(n + 1) /\ g[s] = f[s]
      <3>1. n \in Nat
        OBVIOUS
      <3>2. \A s \in Sub(n) : s \in Sub(n + 1)
        BY <1>1, <3>1
      <3> QED
        BY <3>2
    <2>3. ASSUME NEW s \in Sub(n + 1) PROVE g[s] = Value(g, s)
      <3>1. CASE s = {}
        <4>1. s \in Sub(n)
          BY <3>1, FS_EmptySet
        <4>2. f[s] = Value(f, s)
          BY <2>1, <4>1
        <4> QED
          BY <2>2, <3>1, <4>1, <4>2
      <3>2. CASE s # {}
        <4> DEFINE x == CHOOSE x \in s : TRUE
        <4>1. x \in s
          BY <3>2
        <4> HIDE DEF x
        <4>2. s \ {x} \in Sub(n)
          <5>1. s \ {x} \in SUBSET S /\ Cardinality(s \ {x}) = Cardinality(s) - 1
            BY <1>1, <4>1, FS_RemoveElement
          <5>2. n \in Nat /\ Cardinality(s) \in Nat /\ Cardinality(s) <= n + 1
            BY <1>1
          <5> QED
            BY <5>1, <5>2
        <4>3. g[s \ {x}] = f[s \ {x}]
          BY <2>2, <4>2
        <4>4. g[s] = w[x] + f[s \ {x}]
          <5>1. Value(f, s) = w[x] + f[s \ {x}]
            BY <3>2 DEF x
          <5>2. s \in Sub(n) => f[s] = Value(f, s)
            BY <2>1
          <5> QED
            BY <5>1, <5>2
        <4> QED
          BY <3>2, <4>3, <4>4 DEF x
      <3> QED
        BY <3>1, <3>2
    <2>4. Is(g, n + 1)
      <3> g = [s \in Sub(n + 1) |-> g[s]]
        OBVIOUS
      <3> HIDE DEF g, Sub, Value
      <3> QED
        BY <2>3
    <2> HIDE DEF Is
    <2> QED
      BY <2>4
  <1>4. N = Nat
    <2> HIDE DEF N
    <2>1. N \subseteq Nat
      BY DEF N
    <2> QED
      BY <1>2, <1>3, <2>1, Counting
  <1>5. PICK f : Is(f, Cardinality(S))
    BY <1>1, <1>4
  <1>6. Sub(Cardinality(S)) = SUBSET S
    BY FS_Subset
  <1> QED
    BY <1>5, <1>6 DEF Adds

(* Sums of numbers are numbers.                                            *)
LEMMA AddsNumbers ==
  ASSUME NEW S, IsFiniteSet(S), NEW w, \A x \in S : w[x] \in Nat, NEW f, Adds(f, w, S)
  PROVE  \A T \in SUBSET S : f[T] \in Nat
  <1> DEFINE C == {T \in SUBSET S : f[T] \in Nat}
  <1>1. {} \in C
    BY AddsValue
  <1>2. ASSUME NEW T \in SUBSET S, T # {}, \A x \in T : T \ {x} \in C PROVE T \in C
    <2>1. PICK e \in T : f[T] = w[e] + f[T \ {e}]
      BY <1>2, AddsValue
    <2> QED
      BY <1>2, <2>1
  <1> HIDE DEF C
  <1>3. SUBSET S \subseteq C
    BY <1>1, <1>2, Shrinking
  <1> QED
    BY <1>3 DEF C

(* The order in which elements are taken does not matter.                  *)
LEMMA AddsOrder ==
  ASSUME NEW S, IsFiniteSet(S), NEW w, \A x \in S : w[x] \in Nat, NEW f, Adds(f, w, S)
  PROVE  \A T \in SUBSET S : \A k \in T : f[T] = w[k] + f[T \ {k}]
  <1> DEFINE C == {T \in SUBSET S : \A k \in T : f[T] = w[k] + f[T \ {k}]}
  <1>1. {} \in C
    OBVIOUS
  <1>2. ASSUME NEW T \in SUBSET S, T # {}, \A x \in T : T \ {x} \in C PROVE T \in C
    <2>1. PICK e \in T : f[T] = w[e] + f[T \ {e}]
      BY <1>2, AddsValue
    <2>2. ASSUME NEW k \in T, k # e PROVE f[T] = w[k] + f[T \ {k}]
      <3> DEFINE R == (T \ {e}) \ {k}
      <3>1. R = (T \ {k}) \ {e} /\ R \in SUBSET S
        OBVIOUS
      <3> HIDE DEF R
      <3>2. f[T \ {e}] = w[k] + f[R]
        BY <1>2, <2>1, <2>2 DEF R
      <3>3. f[T \ {k}] = w[e] + f[R]
        BY <1>2, <2>1, <2>2, <3>1
      <3>4. w[k] \in Nat /\ w[e] \in Nat /\ f[R] \in Nat
        BY <2>1, <2>2, <3>1, AddsNumbers
      <3> QED
        BY <2>1, <3>2, <3>3, <3>4
    <2> QED
      BY <2>1, <2>2
  <1> HIDE DEF C
  <1>3. SUBSET S \subseteq C
    BY <1>1, <1>2, Shrinking
  <1> QED
    BY <1>3 DEF C

(* The sums over a subset are the same.                                    *)
LEMMA AddsSame ==
  ASSUME NEW S, IsFiniteSet(S), NEW w, \A x \in S : w[x] \in Nat, NEW f, Adds(f, w, S),
         NEW T \in SUBSET S, NEW v, \A x \in T : v[x] = w[x], NEW g, Adds(g, v, T)
  PROVE  g[T] = f[T]
  <1> DEFINE C == {U \in SUBSET T : g[U] = f[U]}
  <1>1. IsFiniteSet(T)
    BY FS_Subset
  <1>2. {} \in C
    BY AddsValue
  <1>3. ASSUME NEW U \in SUBSET T, U # {}, \A x \in U : U \ {x} \in C PROVE U \in C
    <2>1. PICK e \in U : g[U] = v[e] + g[U \ {e}]
      BY <1>3, AddsValue
    <2>2. U \in SUBSET S
      OBVIOUS
    <2>3. f[U] = w[e] + f[U \ {e}]
      BY <2>1, <2>2, AddsOrder
    <2> QED
      BY <1>3, <2>1, <2>3
  <1> HIDE DEF C
  <1>4. SUBSET T \subseteq C
    BY <1>1, <1>2, <1>3, Shrinking
  <1> QED
    BY <1>4 DEF C

(* The library's sum is one of these.                                      *)
LEMMA SumAdds ==
  ASSUME NEW S, IsFiniteSet(S), NEW w, DOMAIN w = S
  PROVE  \E f : Adds(f, w, S) /\ SumFunction(w) = f[S]
  <1> DEFINE F == CHOOSE f : Adds(f, w, S)
  <1>1. Adds(F, w, S)
    BY AddsExists
  <1>2. SumFunction(w) = F[S]
    BY DEF SumFunction, SumFunctionOnSet, FoldFunctionOnSet, MapThenFoldSet, Adds
  <1> HIDE DEF F
  <1> QED
    BY <1>1, <1>2

-----------------------------------------------------------------------------
(* Sizes of pages.                                                         *)

(* The size of no page, and of one page more.                              *)
LEMMA SizeSteps ==
  ASSUME NEW f, NEW K, IsFiniteSet(K), \A k \in K : f[k].size \in Nat
  PROVE  /\ SizeOf(f, {}) = 0
         /\ \A L \in SUBSET K :
              /\ SizeOf(f, L) \in Nat
              /\ \A k \in L : SizeOf(f, L) = f[k].size + SizeOf(f, L \ {k})
  <1> DEFINE w == [k \in K |-> f[k].size]
  <1>1. \A k \in K : w[k] \in Nat /\ w[k] = f[k].size
    OBVIOUS
  <1> HIDE DEF w
  <1>2. PICK h : Adds(h, w, K)
    BY AddsExists
  <1>3. ASSUME NEW L \in SUBSET K PROVE SizeOf(f, L) = h[L]
    <2> DEFINE v == [k \in L |-> f[k].size]
    <2>1. DOMAIN v = L /\ (\A k \in L : v[k] = w[k]) /\ SizeOf(f, L) = SumFunction(v)
      BY <1>1 DEF SizeOf
    <2> HIDE DEF v
    <2>2. IsFiniteSet(L)
      BY FS_Subset
    <2>3. PICK g : Adds(g, v, L) /\ SumFunction(v) = g[L]
      BY <2>1, <2>2, SumAdds
    <2>4. g[L] = h[L]
      BY <1>1, <1>2, <2>1, <2>3, AddsSame
    <2> QED
      BY <2>1, <2>3, <2>4
  <1>4. h[{}] = 0 /\ SizeOf(f, {}) = h[{}]
    BY <1>2, <1>3, AddsValue
  <1>5. ASSUME NEW L \in SUBSET K
        PROVE  /\ SizeOf(f, L) \in Nat
               /\ \A k \in L : SizeOf(f, L) = f[k].size + SizeOf(f, L \ {k})
    <2>1. h[L] \in Nat /\ \A k \in L : h[L] = w[k] + h[L \ {k}]
      BY <1>1, <1>2, AddsNumbers, AddsOrder
    <2>2. SizeOf(f, L) = h[L] /\ \A k \in L : SizeOf(f, L \ {k}) = h[L \ {k}]
      BY <1>3
    <2> QED
      BY <1>1, <2>1, <2>2
  <1> QED
    BY <1>4, <1>5

(* Sizes of some pages and of the others.                                  *)
LEMMA SizeSplit ==
  ASSUME NEW f, NEW K, IsFiniteSet(K), \A k \in K : f[k].size \in Nat, NEW L \in SUBSET K
  PROVE  /\ SizeOf(f, K) = SizeOf(f, L) + SizeOf(f, K \ L)
         /\ SizeOf(f, K) \in Nat /\ SizeOf(f, L) \in Nat /\ SizeOf(f, K \ L) \in Nat
  <1> DEFINE C == {T \in SUBSET K : SizeOf(f, K) = SizeOf(f, T) + SizeOf(f, K \ T)}
  <1>1. \A T \in SUBSET K : SizeOf(f, T) \in Nat
    BY SizeSteps
  <1>2. {} \in C
    <2>1. SizeOf(f, {}) = 0 /\ K \ {} = K
      BY SizeSteps
    <2> QED
      BY <1>1, <2>1
  <1>3. ASSUME NEW T \in SUBSET K, T # {}, \A x \in T : T \ {x} \in C PROVE T \in C
    <2>1. PICK x : x \in T
      BY <1>3
    <2>2. SizeOf(f, K) = SizeOf(f, T \ {x}) + SizeOf(f, K \ (T \ {x}))
      BY <1>3, <2>1
    <2>3. SizeOf(f, T) = f[x].size + SizeOf(f, T \ {x})
      BY <2>1, SizeSteps
    <2>4. SizeOf(f, K \ (T \ {x})) = f[x].size + SizeOf(f, (K \ (T \ {x})) \ {x})
      BY <2>1, SizeSteps
    <2>5. (K \ (T \ {x})) \ {x} = K \ T
      BY <2>1
    <2>6. /\ SizeOf(f, T \ {x}) \in Nat /\ SizeOf(f, K \ T) \in Nat /\ f[x].size \in Nat
      BY <1>1, <2>1
    <2>7. SizeOf(f, K \ (T \ {x})) = f[x].size + SizeOf(f, K \ T)
      BY <2>4, <2>5
    <2>8. SizeOf(f, K) = SizeOf(f, T) + SizeOf(f, K \ T)
      BY <2>2, <2>3, <2>6, <2>7
    <2> QED
      BY <2>8
  <1> HIDE DEF C
  <1>4. SUBSET K \subseteq C
    BY <1>2, <1>3, Shrinking
  <1> QED
    BY <1>1, <1>4 DEF C

(* The size depends on the sizes of the pages only.                        *)
LEMMA SizeSame ==
  ASSUME NEW f, NEW g, NEW K, \A k \in K : f[k].size = g[k].size
  PROVE  SizeOf(f, K) = SizeOf(g, K)
  <1>1. [k \in K |-> f[k].size] = [k \in K |-> g[k].size]
    OBVIOUS
  <1> QED
    BY <1>1 DEF SizeOf

-----------------------------------------------------------------------------
(* The inductive invariant.                                                *)

Typed == TypeOK /\ IsFiniteSet(DOMAIN entries) /\ IsFiniteSet(DOMAIN files)

\* the Set under way has begun to write the file of k
Writes(k) == writer.at = "write" /\ writer.key = k

\* a page has one key, in the map and in the directory
Owned ==
    \A j, k \in Key : j # k =>
        /\ j \in DOMAIN entries /\ k \in DOMAIN entries => entries[j].page # entries[k].page
        /\ j \in DOMAIN files /\ k \in DOMAIN files => files[j].page # files[k].page
        /\ j \in DOMAIN files /\ k \in DOMAIN entries => files[j].page # entries[k].page

\* pages are numbered as they are stored
Numbered ==
    /\ \A k \in DOMAIN entries : entries[k].page <= sets
    /\ \A k \in DOMAIN files : files[k].page <= sets
    /\ \A p \in removed : p <= sets

\* the page of the Set under way is new, and is nowhere but in the file it writes
Fresh ==
    writer # NoSet =>
        /\ writer.page = sets
        /\ \A k \in DOMAIN entries : entries[k].page # sets
        /\ \A k \in DOMAIN files : files[k].page # sets \/ Writes(k)
        /\ sets \notin removed

\* what OpenFile leaves to FinishSet
Opened ==
    writer.at = "write" =>
        /\ writer.key \in DOMAIN files
        /\ files[writer.key].page = sets /\ files[writer.key].size < writer.size
        /\ size + writer.size <= MaxSize \/ DOMAIN entries = {}

\* what was removed is not in the directory either
Gone ==
    faults = 0 =>
        /\ \A k \in DOMAIN entries : entries[k].page \notin removed
        /\ \A k \in DOMAIN files : files[k].page \notin removed

\* the directory agrees with the map but for the file that is written
OnDisk ==
    faults = 0 =>
        \A k \in Key : ~Writes(k) =>
            /\ k \in DOMAIN files <=> k \in DOMAIN entries
            /\ k \in DOMAIN files =>
                  /\ files[k].size = entries[k].size /\ files[k].page = entries[k].page
                  /\ restarts = 0 => files[k].whole

CacheInv ==
    /\ Typed /\ Owned /\ Numbered /\ Fresh /\ Opened /\ Gone /\ OnDisk
    /\ MappingCovers /\ SizeIsExact /\ WithinLimit

-----------------------------------------------------------------------------
(* Tables and records.                                                     *)

(* A table without some of its keys.                                       *)
LEMMA WithoutKeys ==
  ASSUME NEW Row, NEW f, f \in [DOMAIN f -> Row], IsFiniteSet(DOMAIN f), NEW K
  PROVE  /\ DOMAIN Without(f, K) = DOMAIN f \ K
         /\ Without(f, K) \in [DOMAIN Without(f, K) -> Row]
         /\ IsFiniteSet(DOMAIN Without(f, K))
         /\ \A k \in DOMAIN f \ K : Without(f, K)[k] = f[k]
  <1>1. DOMAIN f \ K \in SUBSET DOMAIN f
    OBVIOUS
  <1>2. IsFiniteSet(DOMAIN f \ K)
    BY <1>1, FS_Subset
  <1> QED
    BY <1>2 DEF Without, Restrict

(* A table with one key more.                                              *)
LEMMA PutKey ==
  ASSUME NEW Row, NEW f, f \in [DOMAIN f -> Row], IsFiniteSet(DOMAIN f), NEW k, NEW r \in Row
  PROVE  /\ DOMAIN Put(f, k, r) = DOMAIN f \cup {k}
         /\ Put(f, k, r) \in [DOMAIN Put(f, k, r) -> Row]
         /\ IsFiniteSet(DOMAIN Put(f, k, r))
         /\ Put(f, k, r)[k] = r /\ \A j \in DOMAIN f \ {k} : Put(f, k, r)[j] = f[j]
  <1>1. IsFiniteSet(DOMAIN f \cup {k})
    BY FS_AddElement
  <1> QED
    BY <1>1 DEF Put

(* What the types say of entries, files and the Set under way.             *)
LEMMA Fields ==
  ASSUME Typed
  PROVE  /\ \A k \in DOMAIN entries :
              /\ k \in Key /\ entries[k] \in EntryType
              /\ entries[k].size \in Nat /\ entries[k].page \in Page
              /\ entries[k].blocks \subseteq Block
         /\ \A k \in DOMAIN files :
              /\ k \in Key /\ files[k] \in FileType
              /\ files[k].size \in Nat /\ files[k].page \in Page
         /\ writer # NoSet =>
              /\ writer.at \in {"evict", "write"} /\ writer.key \in Key
              /\ writer.size \in Nat \ {0} /\ writer.blocks \subseteq Block
              /\ writer.page \in Page
         /\ writer = NoSet => writer.at = "nowhere"
         /\ sets \in Nat /\ faults \in Nat /\ restarts \in Nat /\ size \in Nat
         /\ \A p \in Page : p \in Nat
         /\ \A p \in removed : p \in Page
  <1>1. \A k \in DOMAIN entries : k \in Key /\ entries[k] \in EntryType
    BY DEF Typed, TypeOK
  <1>2. \A k \in DOMAIN files : k \in Key /\ files[k] \in FileType
    BY DEF Typed, TypeOK
  <1>3. writer # NoSet =>
              /\ writer.at \in {"evict", "write"} /\ writer.key \in Key
              /\ writer.size \in Nat \ {0} /\ writer.blocks \subseteq Block
              /\ writer.page \in Page
    BY CacheAssumption DEF Typed, TypeOK, SetType
  <1>4. sets \in Nat /\ faults \in Nat /\ restarts \in Nat /\ size \in Nat
    BY CacheAssumption DEF Typed, TypeOK
  <1>5. \A p \in removed : p \in Page
    BY DEF Typed, TypeOK
  <1>6. \A p \in Page : p \in Nat
    BY CacheAssumption DEF Page
  <1> QED
    BY <1>1, <1>2, <1>3, <1>4, <1>5, <1>6 DEF EntryType, FileType, NoSet

-----------------------------------------------------------------------------
(* Removing entries.                                                       *)

(* The files that a removal leaves.                                        *)
LEMMA RemoveFiles ==
  ASSUME Typed, NEW K, Remove(K)
  PROVE  /\ DOMAIN files' \subseteq DOMAIN files /\ files' \in [DOMAIN files' -> FileType]
         /\ IsFiniteSet(DOMAIN files') /\ \A k \in DOMAIN files' : files'[k] = files[k]
         /\ faults' \in 0 .. MaxFaults /\ faults' >= faults
         /\ faults' = 0 => faults = 0 /\ DOMAIN files' = DOMAIN files \ K
  <1>1. files \in [DOMAIN files -> FileType] /\ IsFiniteSet(DOMAIN files)
        /\ faults \in 0 .. MaxFaults /\ MaxFaults \in Nat
    BY CacheAssumption DEF Typed, TypeOK
  <1> DEFINE Left(L) == /\ DOMAIN Without(files, L) = DOMAIN files \ L
                        /\ Without(files, L) \in [DOMAIN Without(files, L) -> FileType]
                        /\ IsFiniteSet(DOMAIN Without(files, L))
                        /\ \A k \in DOMAIN files \ L : Without(files, L)[k] = files[k]
  <1>0. \A L : Left(L)
    BY <1>1, WithoutKeys
  <1>2. CASE files' = Without(files, K) /\ UNCHANGED faults
    <2>1. Left(K)
      BY <1>0
    <2> QED
      BY <1>1, <1>2, <2>1
  <1>3. ASSUME Fault, NEW k, files' = Without(files, K \ {k})
        PROVE  /\ DOMAIN files' \subseteq DOMAIN files /\ files' \in [DOMAIN files' -> FileType]
               /\ IsFiniteSet(DOMAIN files') /\ \A j \in DOMAIN files' : files'[j] = files[j]
               /\ faults' \in 0 .. MaxFaults /\ faults' >= faults /\ faults' # 0
    <2>1. faults' \in 0 .. MaxFaults /\ faults' >= faults /\ faults' # 0
      BY <1>1, <1>3 DEF Fault
    <2>2. Left(K \ {k})
      BY <1>0
    <2> QED
      BY <1>3, <2>1, <2>2
  <1> QED
    BY <1>2, <1>3 DEF Remove

(* The sizes of some entries and of the others.                            *)
LEMMA EntriesSplit ==
  ASSUME Typed, NEW L \in SUBSET DOMAIN entries
  PROVE  /\ SizeOf(entries, DOMAIN entries)
               = SizeOf(entries, L) + SizeOf(entries, DOMAIN entries \ L)
         /\ SizeOf(entries, L) \in Nat /\ SizeOf(entries, DOMAIN entries \ L) \in Nat
  <1>1. IsFiniteSet(DOMAIN entries) /\ \A k \in DOMAIN entries : entries[k].size \in Nat
    BY Fields DEF Typed
  <1>2. SizeOf(entries, DOMAIN entries)
           = SizeOf(entries, L) + SizeOf(entries, DOMAIN entries \ L)
    BY <1>1, SizeSplit
  <1>3. SizeOf(entries, L) \in Nat /\ SizeOf(entries, DOMAIN entries \ L) \in Nat
    BY <1>1, SizeSplit
  <1> QED
    BY <1>2, <1>3

(* Fewer entries do not exceed the limit.                                  *)
LEMMA FewerEntries ==
  ASSUME Typed, SizeIsExact, WithinLimit, SizeIsExact', DOMAIN entries' \subseteq DOMAIN entries,
         \A k \in DOMAIN entries' : entries'[k] = entries[k],
         faults' \in Nat, faults' >= faults, restarts' = restarts
  PROVE  WithinLimit' /\ size' \in Nat /\ size' <= size
  <1>1. IsFiniteSet(DOMAIN entries) /\ \A k \in DOMAIN entries : entries[k].size \in Nat
    BY Fields DEF Typed
  <1>2. /\ size = SizeOf(entries, DOMAIN entries') + SizeOf(entries, DOMAIN entries \ DOMAIN entries')
        /\ SizeOf(entries, DOMAIN entries') \in Nat
        /\ SizeOf(entries, DOMAIN entries \ DOMAIN entries') \in Nat
    <2>1. DOMAIN entries' \in SUBSET DOMAIN entries
      OBVIOUS
    <2> QED
      BY <2>1, EntriesSplit DEF SizeIsExact
  <1>3. size' = SizeOf(entries, DOMAIN entries')
    BY SizeSame DEF SizeIsExact
  <1>4. size' \in Nat /\ size' <= size /\ size \in Nat
    BY <1>2, <1>3
  <1>5. CASE size <= MaxSize
    BY <1>4, <1>5, CacheAssumption DEF WithinLimit
  <1>6. CASE Cardinality(DOMAIN entries) = 1
    <2>1. PICK k : DOMAIN entries = {k}
      BY <1>1, <1>6, FS_Singleton
    <2>2. CASE DOMAIN entries' = DOMAIN entries
      BY <1>6, <2>2, <1>4 DEF WithinLimit
    <2>3. CASE DOMAIN entries' = {}
      <3>1. size' = 0
        BY <1>1, <1>3, <2>3, SizeSteps
      <3> QED
        BY <1>4, <3>1, CacheAssumption DEF WithinLimit
    <2> QED
      BY <2>1, <2>2, <2>3
  <1>7. CASE faults > 0 /\ restarts > 0
    <2>1. faults' > 0 /\ restarts' > 0
      BY <1>7, Fields
    <2> QED
      BY <1>4, <2>1 DEF WithinLimit
  <1> QED
    BY <1>5, <1>6, <1>7 DEF WithinLimit

\* the entries of K go, and the files of F
Drops(K, F) ==
    /\ K \subseteq DOMAIN entries
    /\ F = K \/ (F = DOMAIN files /\ K = DOMAIN entries)
    /\ Remove(F)
    /\ DOMAIN entries' = DOMAIN entries \ K
    /\ entries' \in [DOMAIN entries' -> EntryType]
    /\ \A k \in DOMAIN entries' : entries'[k] = entries[k]
    /\ size' = size - SizeOf(entries, K)
    /\ removed' = removed \cup {entries[k].page : k \in K}
    /\ pages' \in [Block -> [Key -> Nat]] /\ readers' \subseteq Key
    /\ \A k \in DOMAIN entries' : \A b \in entries[k].blocks : pages'[b][k] > 0
    /\ writer.at # "write"
    /\ UNCHANGED <<writer, sets, restarts>>

(* Such a step keeps the invariant.                                        *)
LEMMA DropsKeep ==
  ASSUME CacheInv, NEW K, NEW F, Drops(K, F)
  PROVE  CacheInv'
  <1> USE DEF CacheInv
  <1>1. /\ DOMAIN files' \subseteq DOMAIN files /\ files' \in [DOMAIN files' -> FileType]
        /\ IsFiniteSet(DOMAIN files') /\ \A k \in DOMAIN files' : files'[k] = files[k]
        /\ faults' \in 0 .. MaxFaults /\ faults' >= faults
        /\ faults' = 0 => faults = 0 /\ DOMAIN files' = DOMAIN files \ F
    BY RemoveFiles DEF Drops
  <1>2. /\ K \subseteq DOMAIN entries /\ DOMAIN entries' = DOMAIN entries \ K
        /\ \A k \in DOMAIN entries' : entries'[k] = entries[k]
        /\ removed' = removed \cup {entries[k].page : k \in K}
        /\ writer.at # "write" /\ UNCHANGED <<writer, sets, restarts>>
    BY DEF Drops
  <1>3. IsFiniteSet(DOMAIN entries')
    <2>1. DOMAIN entries \ K \in SUBSET DOMAIN entries
      OBVIOUS
    <2> QED
      BY <1>2, <2>1, FS_Subset DEF Typed
  <1>4. SizeIsExact'
    <2>1. /\ size = SizeOf(entries, K) + SizeOf(entries, DOMAIN entries \ K)
          /\ SizeOf(entries, K) \in Nat /\ SizeOf(entries, DOMAIN entries \ K) \in Nat
      BY <1>2, EntriesSplit DEF SizeIsExact
    <2>2. size' = SizeOf(entries, DOMAIN entries \ K)
      BY <2>1 DEF Drops
    <2>3. SizeOf(entries', DOMAIN entries') = SizeOf(entries, DOMAIN entries')
      BY <1>2, SizeSame
    <2> QED
      BY <1>2, <2>2, <2>3 DEF SizeIsExact
  <1>5. WithinLimit' /\ size' \in Nat
    <2>1. faults' \in Nat
      BY <1>1
    <2> QED
      BY <1>1, <1>2, <1>4, <2>1, FewerEntries
  <1>6. Typed'
    <2>1. removed' \subseteq Page
      BY <1>2, Fields DEF Typed, TypeOK
    <2>2. DOMAIN entries' \subseteq Key /\ DOMAIN files' \subseteq Key
      BY <1>1, <1>2 DEF Typed, TypeOK
    <2> QED
      BY <1>1, <1>2, <1>3, <1>5, <2>1, <2>2 DEF Drops, Typed, TypeOK
  <1>7. Owned'
    BY <1>1, <1>2 DEF Owned
  <1>8. Numbered'
    BY <1>1, <1>2 DEF Numbered
  <1>9. Fresh'
    BY <1>1, <1>2 DEF Fresh, Writes
  <1>10. Opened'
    BY <1>2 DEF Opened
  <1>11. faults' = 0 => \A k \in Key : k \in DOMAIN files => k \in DOMAIN entries
    BY <1>1, <1>2 DEF OnDisk, Writes
  <1>12. faults' = 0 => DOMAIN files' \cap K = {}
    BY <1>1, <1>2, Fields DEF Drops
  <1>13. Gone'
    <2> SUFFICES ASSUME faults' = 0
                 PROVE  /\ \A k \in DOMAIN entries' : entries'[k].page \notin removed'
                        /\ \A k \in DOMAIN files' : files'[k].page \notin removed'
      BY DEF Gone
    <2>1. \A k \in DOMAIN entries', j \in K : k # j /\ k \in Key /\ j \in Key
      BY <1>2, Fields
    <2>2. \A k \in DOMAIN files', j \in K : k # j /\ k \in Key /\ j \in Key
      BY <1>1, <1>2, <1>12, Fields
    <2>3. \A k \in DOMAIN entries', j \in K : entries'[k].page # entries[j].page
      BY <1>2, <2>1 DEF Owned
    <2>4. \A k \in DOMAIN files', j \in K : files'[k].page # entries[j].page
      BY <1>1, <1>2, <2>2 DEF Owned
    <2> QED
      BY <1>1, <1>2, <2>3, <2>4 DEF Gone
  <1>14. OnDisk'
    <2> SUFFICES ASSUME faults' = 0, NEW k \in Key
                 PROVE  /\ k \in DOMAIN files' <=> k \in DOMAIN entries'
                        /\ k \in DOMAIN files' =>
                              /\ files'[k].size = entries'[k].size
                              /\ files'[k].page = entries'[k].page
                              /\ restarts' = 0 => files'[k].whole
      BY DEF OnDisk
    <2>1. /\ k \in DOMAIN files <=> k \in DOMAIN entries
          /\ k \in DOMAIN files =>
                /\ files[k].size = entries[k].size /\ files[k].page = entries[k].page
                /\ restarts = 0 => files[k].whole
      BY <1>1, <1>2 DEF OnDisk, Writes
    <2>2. k \in DOMAIN files' <=> k \in DOMAIN entries'
      BY <1>1, <1>2, <2>1 DEF Drops
    <2> QED
      BY <1>1, <1>2, <2>1, <2>2
  <1>15. MappingCovers'
    BY <1>2 DEF Drops, MappingCovers
  <1> QED
    BY <1>4, <1>5, <1>6, <1>7, <1>8, <1>9, <1>10, <1>13, <1>14, <1>15

(* The mappings without one occurrence of a page.                          *)
LEMMA UnlistedOthers ==
  ASSUME Typed, NEW k \in Key
  PROVE  /\ Unlisted(k) \in [Block -> [Key -> Nat]]
         /\ \A b \in Block : \A j \in Key \ {k} : Unlisted(k)[b][j] = pages[b][j]
  <1>1. pages \in [Block -> [Key -> Nat]]
    BY DEF Typed, TypeOK
  <1>2. ASSUME NEW b \in Block
        PROVE  /\ Unlisted(k)[b] \in [Key -> Nat]
               /\ \A j \in Key \ {k} : Unlisted(k)[b][j] = pages[b][j]
    <2>1. pages[b] \in [Key -> Nat]
      BY <1>1
    <2>2. CASE b \in entries[k].blocks /\ pages[b][k] > 0
      <3>1. Unlisted(k)[b] = [pages[b] EXCEPT ![k] = pages[b][k] - 1]
        BY <2>2 DEF Unlisted
      <3>2. pages[b][k] - 1 \in Nat
        BY <2>1, <2>2
      <3> QED
        BY <2>1, <3>1, <3>2
    <2>3. CASE ~(b \in entries[k].blocks /\ pages[b][k] > 0)
      BY <2>1, <2>3 DEF Unlisted
    <2> QED
      BY <2>2, <2>3
  <1>3. Unlisted(k) = [b \in Block |-> Unlisted(k)[b]]
    BY DEF Unlisted
  <1> QED
    BY <1>2, <1>3

(* The entries that are left.                                              *)
LEMMA EntriesWithout ==
  ASSUME Typed, NEW K
  PROVE  /\ DOMAIN Without(entries, K) = DOMAIN entries \ K
         /\ Without(entries, K) \in [DOMAIN Without(entries, K) -> EntryType]
         /\ \A k \in DOMAIN entries \ K : Without(entries, K)[k] = entries[k]
  <1>1. DOMAIN Without(entries, K) = DOMAIN entries \ K
    BY DEF Without, Restrict
  <1>2. \A k \in DOMAIN entries \ K : Without(entries, K)[k] = entries[k]
    BY DEF Without, Restrict
  <1>3. \A k \in DOMAIN entries : entries[k] \in EntryType
    BY Fields
  <1> QED
    BY <1>1, <1>2, <1>3 DEF Without, Restrict

(* Drop removes the entries and their files.                               *)
LEMMA DropsEntries ==
  ASSUME CacheInv, NEW K \in SUBSET DOMAIN entries, Drop(K), writer.at # "write",
         pages' \in [Block -> [Key -> Nat]], readers' \subseteq Key,
         \A k \in DOMAIN entries \ K : \A b \in entries[k].blocks : pages'[b][k] > 0,
         UNCHANGED <<writer, sets, restarts>>
  PROVE  CacheInv'
  <1>1. /\ DOMAIN Without(entries, K) = DOMAIN entries \ K
        /\ Without(entries, K) \in [DOMAIN Without(entries, K) -> EntryType]
        /\ \A k \in DOMAIN entries \ K : Without(entries, K)[k] = entries[k]
    BY EntriesWithout DEF CacheInv
  <1>2. Drops(K, K)
    BY <1>1 DEF Drop, Drops
  <1> QED
    BY <1>2, DropsKeep

(* One entry goes.                                                         *)
LEMMA DropsEntry ==
  ASSUME CacheInv, NEW k \in DOMAIN entries, DropEntry(k), writer.at # "write",
         readers' \subseteq Key, UNCHANGED <<writer, sets, restarts>>
  PROVE  CacheInv'
  <1>1. k \in Key /\ \A j \in DOMAIN entries : j \in Key /\ entries[j].blocks \subseteq Block
    BY Fields DEF CacheInv
  <1>2. pages' \in [Block -> [Key -> Nat]]
    BY <1>1, UnlistedOthers DEF CacheInv, DropEntry
  <1>3. \A j \in DOMAIN entries \ {k} : \A b \in entries[j].blocks : pages'[b][j] > 0
    BY <1>1, UnlistedOthers DEF CacheInv, DropEntry, MappingCovers
  <1> QED
    BY <1>2, <1>3, DropsEntries DEF DropEntry

(* The entries of a block go.                                              *)
LEMMA DropsBlock ==
  ASSUME CacheInv, NEW b \in Block, InvalidateBlock(b)
  PROVE  CacheInv'
  <1>1. Drop(Listed(b)) /\ writer.at # "write" /\ UNCHANGED <<writer, readers, sets, restarts>>
    BY Fields DEF InvalidateBlock, Unlocked, CacheInv
  <1>2. /\ pages \in [Block -> [Key -> Nat]] /\ readers \subseteq Key
        /\ pages' = [pages EXCEPT ![b] = [k \in Key |-> 0]]
    BY DEF InvalidateBlock, CacheInv, Typed, TypeOK
  <1>3. pages' \in [Block -> [Key -> Nat]]
    BY <1>2
  <1>4. ASSUME NEW k \in DOMAIN entries \ Listed(b), NEW c \in entries[k].blocks
        PROVE  pages'[c][k] > 0
    <2>1. pages[c][k] > 0 /\ c \in Block
      BY <1>4, Fields DEF CacheInv, MappingCovers
    <2>2. c # b
      BY <1>4, <2>1 DEF Listed
    <2> QED
      BY <1>2, <2>1, <2>2
  <1>5. Listed(b) \in SUBSET DOMAIN entries
    BY DEF Listed
  <1> QED
    BY <1>1, <1>2, <1>3, <1>4, <1>5, DropsEntries

(* All go.                                                                 *)
LEMMA DropsAll ==
  ASSUME CacheInv, Clear
  PROVE  CacheInv'
  <1>1. /\ Remove(DOMAIN files) /\ entries' = <<>> /\ size' = 0
        /\ pages' = [b \in Block |-> [k \in Key |-> 0]]
        /\ removed' = removed \cup {entries[k].page : k \in DOMAIN entries}
        /\ UNCHANGED <<writer, readers, sets, restarts>>
    BY DEF Clear
  <1>2. writer.at # "write" /\ readers \subseteq Key
    BY Fields DEF Clear, Unlocked, CacheInv, Typed, TypeOK
  <1>3. size - SizeOf(entries, DOMAIN entries) = 0
    BY Fields DEF CacheInv, SizeIsExact
  <1>4. DOMAIN entries' = {} /\ entries' \in [DOMAIN entries' -> EntryType]
    BY <1>1
  <1>5. pages' \in [Block -> [Key -> Nat]]
    BY <1>1
  <1>6. Drops(DOMAIN entries, DOMAIN files)
    BY <1>1, <1>2, <1>3, <1>4, <1>5 DEF Drops
  <1> QED
    BY <1>6, DropsKeep

-----------------------------------------------------------------------------
(* Set and Get.                                                            *)

(* Steps that touch neither maps nor files; a Set that fails is a fault.   *)
LEMMA QuietKeeps ==
  ASSUME CacheInv, UNCHANGED <<entries, size, pages, files, removed, sets, restarts>>,
         readers' \subseteq Key, faults' \in 0 .. MaxFaults, faults' >= faults,
         writer' = writer \/ (writer' = NoSet /\ faults' # 0)
  PROVE  CacheInv'
  <1> USE DEF CacheInv
  <1>1. faults' = 0 => faults = 0 /\ writer' = writer
    BY Fields
  <1>2. Typed'
    BY DEF Typed, TypeOK
  <1>3. Owned' /\ Numbered' /\ MappingCovers' /\ SizeIsExact'
    BY DEF Owned, Numbered, MappingCovers, SizeIsExact
  <1>4. Fresh'
    BY DEF Fresh, Writes
  <1>5. Opened'
    BY DEF Opened, NoSet
  <1>6. Gone'
    BY <1>1 DEF Gone
  <1>7. OnDisk'
    BY <1>1 DEF OnDisk, Writes
  <1>8. WithinLimit'
    BY Fields DEF WithinLimit
  <1> QED
    BY <1>2, <1>3, <1>4, <1>5, <1>6, <1>7, <1>8

(* A Set begins with a new page.                                           *)
LEMMA SetKeeps ==
  ASSUME CacheInv, NEW k \in Key, Set(k)
  PROVE  CacheInv'
  <1> USE DEF CacheInv
  <1>1. /\ writer = NoSet /\ sets < MaxSets /\ sets' = sets + 1
        /\ UNCHANGED <<entries, size, pages, files, readers, removed, faults, restarts>>
    BY DEF Set, Unlocked
  <1>2. PICK n \in Size, B \in SUBSET Block :
           writer' = [at |-> "evict", key |-> k, size |-> n, blocks |-> B, page |-> sets + 1]
    BY DEF Set
  <1>3. sets' \in 0 .. MaxSets /\ sets + 1 \in Page
    BY <1>1, CacheAssumption, Fields DEF Page
  <1>4. writer' \in SetType /\ writer'.at = "evict" /\ writer'.page = sets + 1
    BY <1>2, <1>3 DEF SetType
  <1>5. writer.at = "nowhere"
    BY <1>1 DEF NoSet
  <1>6. Typed'
    BY <1>1, <1>3, <1>4 DEF Typed, TypeOK
  <1>7. Owned' /\ MappingCovers' /\ SizeIsExact' /\ Gone' /\ WithinLimit'
    BY <1>1 DEF Owned, MappingCovers, SizeIsExact, Gone, WithinLimit
  <1>8. /\ \A j \in DOMAIN entries : entries[j].page <= sets /\ entries[j].page \in Nat
        /\ \A j \in DOMAIN files : files[j].page <= sets /\ files[j].page \in Nat
        /\ \A p \in removed : p <= sets /\ p \in Nat
        /\ sets \in Nat
    BY Fields DEF Numbered
  <1>9. Numbered'
    BY <1>1, <1>8 DEF Numbered
  <1>10. Fresh'
    BY <1>1, <1>4, <1>8 DEF Fresh
  <1>11. Opened'
    BY <1>4 DEF Opened
  <1>12. OnDisk'
    BY <1>1, <1>5 DEF OnDisk, Writes
  <1> QED
    BY <1>6, <1>7, <1>9, <1>10, <1>11, <1>12

(* The file is opened when there is room for the page, or nothing else.    *)
LEMMA OpenKeeps ==
  ASSUME CacheInv, OpenFile
  PROVE  CacheInv'
  <1> USE DEF CacheInv
  <1>1. /\ writer.at = "evict" /\ ~OverLimit /\ writer' = [writer EXCEPT !.at = "write"]
        /\ UNCHANGED <<entries, size, pages, readers, removed, sets, faults, restarts>>
    BY DEF OpenFile, Truncate, bounds
  <1>2. writer \in SetType /\ writer # NoSet
    BY <1>1 DEF Typed, TypeOK, NoSet
  <1>3. /\ writer.key \in Key /\ writer.size \in Nat \ {0} /\ writer.blocks \subseteq Block
        /\ writer.page \in Page
    BY <1>2, Fields
  <1>4. /\ writer' \in SetType /\ writer'.at = "write" /\ writer'.key = writer.key
        /\ writer'.size = writer.size /\ writer'.page = writer.page /\ writer' # NoSet
    BY <1>1, <1>2 DEF SetType, NoSet
  <1>5. PICK n \in 0 .. writer.size - 1 :
           files' = Put(files, writer.key, [size |-> n, page |-> writer.page, whole |-> FALSE,
                                            needs |-> writer.blocks])
    BY DEF OpenFile, Truncate
  <1>6. n \in Nat /\ n < writer.size
    BY <1>3
  <1> DEFINE r == [size |-> n, page |-> writer.page, whole |-> FALSE, needs |-> writer.blocks]
  <1>7. r \in FileType /\ r.size = n /\ r.page = writer.page
    BY <1>3, <1>6 DEF FileType
  <1>8. files' = Put(files, writer.key, r)
    BY <1>5
  <1> HIDE DEF r
  <1>9. /\ DOMAIN files' = DOMAIN files \cup {writer.key} /\ files'[writer.key] = r
        /\ \A k \in DOMAIN files \ {writer.key} : files'[k] = files[k]
    BY <1>8 DEF Put
  <1>10. files' \in [DOMAIN files' -> FileType]
    <2>1. \A k \in DOMAIN files' : files'[k] \in FileType
      BY <1>7, <1>9, Fields
    <2> QED
      BY <1>8, <2>1 DEF Put
  <1>11. IsFiniteSet(DOMAIN files')
    BY <1>9, FS_AddElement DEF Typed
  <1>12. Typed'
    BY <1>1, <1>3, <1>4, <1>9, <1>10, <1>11 DEF Typed, TypeOK
  <1>13. /\ writer.page = sets /\ sets \notin removed
         /\ \A k \in DOMAIN entries : entries[k].page # sets
         /\ \A k \in DOMAIN files : files[k].page # sets
    BY <1>1, <1>2 DEF Fresh, Writes
  <1>14. \A k \in DOMAIN files' : files'[k].page = sets \/ (k \in DOMAIN files /\ files'[k] = files[k])
    BY <1>7, <1>9, <1>13
  <1>15. Owned'
    BY <1>1, <1>7, <1>9, <1>13 DEF Owned
  <1>16. Numbered'
    BY <1>1, <1>14, Fields DEF Numbered
  <1>17. Fresh'
    BY <1>1, <1>4, <1>9, <1>13 DEF Fresh, Writes
  <1>18. Opened'
    <2>1. size + writer.size <= MaxSize \/ DOMAIN entries = {}
      <3>1. size \in Nat /\ writer.size \in Nat /\ MaxSize \in Nat
        BY <1>3, CacheAssumption DEF Typed, TypeOK
      <3>2. ~(size + writer.size > MaxSize) \/ DOMAIN entries = {}
        BY <1>1, Zenon DEF OverLimit
      <3> QED
        BY <3>1, <3>2
    <2> QED
      BY <1>1, <1>4, <1>6, <1>7, <1>9, <1>13, <2>1 DEF Opened
  <1>19. Gone'
    BY <1>1, <1>13, <1>14 DEF Gone
  <1>20. OnDisk'
    BY <1>1, <1>4, <1>9 DEF OnDisk, Writes
  <1>21. MappingCovers' /\ SizeIsExact' /\ WithinLimit'
    BY <1>1 DEF MappingCovers, SizeIsExact, WithinLimit
  <1> QED
    BY <1>12, <1>15, <1>16, <1>17, <1>18, <1>19, <1>20, <1>21

(* A Set ends: the page it replaces is no longer counted, nor listed.      *)
LEMMA FinishKeeps ==
  ASSUME CacheInv, FinishSet
  PROVE  CacheInv'
  <1> USE DEF CacheInv
  <1> SUFFICES ASSUME NEW k, k = writer.key PROVE CacheInv'
    OBVIOUS
  <1>1. /\ writer.at = "write" /\ writer' = NoSet
        /\ files' = [files EXCEPT ![k].size = writer.size, ![k].whole = TRUE]
        /\ entries' = Put(entries, k, Entry)
        /\ UNCHANGED <<readers, removed, sets, faults, restarts>>
    BY DEF FinishSet, WriteWhole, bounds
  <1>2. /\ k \in Key /\ writer.size \in Nat \ {0} /\ writer.blocks \subseteq Block
        /\ writer.page \in Page /\ writer # NoSet
    BY <1>1, Fields DEF NoSet
  <1>3. /\ writer.page = sets /\ sets \notin removed
        /\ \A j \in DOMAIN entries : entries[j].page # sets
        /\ \A j \in DOMAIN files : j # k => files[j].page # sets
    BY <1>1, <1>2 DEF Fresh, Writes
  <1>4. /\ k \in DOMAIN files /\ files[k].page = sets
        /\ size + writer.size <= MaxSize \/ DOMAIN entries = {}
    BY <1>1 DEF Opened
  <1>5. /\ DOMAIN files' = DOMAIN files /\ files' \in [DOMAIN files' -> FileType]
        /\ \A j \in DOMAIN files : files'[j].page = files[j].page
        /\ files'[k].size = writer.size /\ files'[k].whole
        /\ \A j \in DOMAIN files \ {k} : files'[j] = files[j]
    <2> DEFINE r == [files[k] EXCEPT !.size = writer.size, !.whole = TRUE]
    <2>1. files \in [DOMAIN files -> FileType] /\ files[k] \in FileType
      BY <1>4, Fields DEF Typed, TypeOK
    <2>2. r \in FileType /\ r.page = files[k].page /\ r.size = writer.size /\ r.whole
      BY <1>2, <2>1 DEF FileType
    <2>3. files' = [files EXCEPT ![k] = r]
      BY <1>1, <1>4, <2>1
    <2> HIDE DEF r
    <2> QED
      BY <1>4, <2>1, <2>2, <2>3
  <1>6. Entry \in EntryType /\ Entry.size = writer.size /\ Entry.page = sets
        /\ Entry.blocks = writer.blocks
    BY <1>2, <1>3 DEF Entry, EntryType
  <1>7. /\ DOMAIN entries' = DOMAIN entries \cup {k} /\ entries'[k] = Entry
        /\ \A j \in DOMAIN entries \ {k} : entries'[j] = entries[j]
    BY <1>1 DEF Put
  <1>8. entries' \in [DOMAIN entries' -> EntryType] /\ IsFiniteSet(DOMAIN entries')
    <2>1. \A j \in DOMAIN entries' : entries'[j] \in EntryType
      BY <1>6, <1>7, Fields
    <2>2. IsFiniteSet(DOMAIN entries')
      BY <1>7, FS_AddElement DEF Typed
    <2> QED
      BY <1>1, <2>1, <2>2 DEF Put
  <1> DEFINE old == {k} \cap DOMAIN entries
             kept == IF k \in DOMAIN entries THEN Unlisted(k) ELSE pages
  <1>9. /\ size' = size - SizeOf(entries, old) + writer.size
        /\ pages' = [b \in Block |-> IF b \in writer.blocks
                       THEN [kept[b] EXCEPT ![k] = @ + 1] ELSE kept[b]]
    BY DEF FinishSet
  <1>10. /\ kept \in [Block -> [Key -> Nat]]
         /\ \A b \in Block : \A j \in Key \ {k} : kept[b][j] = pages[b][j]
    BY <1>2, UnlistedOthers DEF Typed, TypeOK
  <1> HIDE DEF kept
  <1>11. /\ pages' \in [Block -> [Key -> Nat]]
         /\ \A b \in Block : \A j \in Key \ {k} : pages'[b][j] = pages[b][j]
         /\ \A b \in writer.blocks : pages'[b][k] > 0
    <2>1. ASSUME NEW b \in Block
          PROVE  /\ pages'[b] \in [Key -> Nat]
                 /\ \A j \in Key \ {k} : pages'[b][j] = pages[b][j]
                 /\ b \in writer.blocks => pages'[b][k] > 0
      <3>1. kept[b] \in [Key -> Nat] /\ kept[b][k] \in Nat
        BY <1>2, <1>10
      <3>2. CASE b \in writer.blocks
        <4>1. pages'[b] = [kept[b] EXCEPT ![k] = kept[b][k] + 1]
          BY <1>9, <3>2
        <4> QED
          BY <1>2, <1>10, <3>1, <4>1
      <3>3. CASE b \notin writer.blocks
        BY <1>9, <1>10, <3>1, <3>3
      <3> QED
        BY <3>2, <3>3
    <2>2. pages' = [b \in Block |-> pages'[b]]
      BY <1>9
    <2> QED
      BY <1>2, <2>1, <2>2
  <1>12. /\ size = SizeOf(entries, old) + SizeOf(entries, DOMAIN entries \ old)
         /\ SizeOf(entries, old) \in Nat /\ SizeOf(entries, DOMAIN entries \ old) \in Nat
         /\ DOMAIN entries \ old = DOMAIN entries \ {k}
    <2>1. old \in SUBSET DOMAIN entries
      OBVIOUS
    <2> QED
      BY <2>1, EntriesSplit DEF SizeIsExact
  <1> HIDE DEF old
  <1>13. SizeIsExact'
    <2>1. SizeOf(entries', DOMAIN entries')
             = entries'[k].size + SizeOf(entries', DOMAIN entries' \ {k})
      <3>1. \A j \in DOMAIN entries' : entries'[j].size \in Nat
        BY <1>8 DEF EntryType
      <3>2. k \in DOMAIN entries'
        BY <1>7
      <3> QED
        BY <1>8, <3>1, <3>2, SizeSteps
    <2>2. SizeOf(entries', DOMAIN entries \ {k}) = SizeOf(entries, DOMAIN entries \ {k})
      BY <1>7, SizeSame
    <2>3. DOMAIN entries' \ {k} = DOMAIN entries \ {k}
      BY <1>7
    <2>4. SizeOf(entries', DOMAIN entries')
             = writer.size + SizeOf(entries, DOMAIN entries \ {k})
      BY <1>6, <1>7, <2>1, <2>2, <2>3
    <2>5. size' = writer.size + SizeOf(entries, DOMAIN entries \ {k})
      <3>1. /\ size = SizeOf(entries, old) + SizeOf(entries, DOMAIN entries \ {k})
            /\ SizeOf(entries, DOMAIN entries \ {k}) \in Nat
        BY <1>12
      <3>2. SizeOf(entries, old) \in Nat /\ writer.size \in Nat
        BY <1>2, <1>12
      <3>3. size' = size - SizeOf(entries, old) + writer.size
        BY <1>9
      <3> QED
        BY <3>1, <3>2, <3>3
    <2> QED
      BY <2>4, <2>5 DEF SizeIsExact
  <1>14. size' \in Nat /\ size' <= size + writer.size
    BY <1>2, <1>9, <1>12
  <1>15. WithinLimit'
    <2>1. CASE size + writer.size <= MaxSize
      BY <1>2, <1>14, <2>1, CacheAssumption, Fields DEF WithinLimit
    <2>2. CASE DOMAIN entries = {}
      <3>1. DOMAIN entries' = {k}
        BY <1>7, <2>2
      <3> QED
        BY <3>1, FS_Singleton DEF WithinLimit
    <2> QED
      BY <1>4, <2>1, <2>2
  <1>16. Typed'
    <2>1. DOMAIN entries' \subseteq Key /\ DOMAIN files' \subseteq Key /\ IsFiniteSet(DOMAIN files')
      BY <1>2, <1>5, <1>7 DEF Typed, TypeOK
    <2> QED
      BY <1>1, <1>5, <1>8, <1>11, <1>14, <2>1 DEF Typed, TypeOK
  <1>17. Owned'
    BY <1>1, <1>3, <1>4, <1>5, <1>6, <1>7 DEF Owned
  <1>18. Numbered'
    BY <1>1, <1>5, <1>6, <1>7, Fields DEF Numbered
  <1>19. Fresh' /\ Opened'
    BY <1>1 DEF Fresh, Opened, NoSet
  <1>20. Gone'
    BY <1>1, <1>3, <1>5, <1>6, <1>7 DEF Gone
  <1>21. OnDisk'
    <2> SUFFICES ASSUME faults' = 0, NEW j \in Key
                 PROVE  /\ j \in DOMAIN files' <=> j \in DOMAIN entries'
                        /\ j \in DOMAIN files' =>
                              /\ files'[j].size = entries'[j].size
                              /\ files'[j].page = entries'[j].page
                              /\ restarts' = 0 => files'[j].whole
      BY DEF OnDisk
    <2>1. CASE j = k
      BY <1>3, <1>4, <1>5, <1>6, <1>7, <2>1
    <2>2. CASE j # k
      <3>1. /\ j \in DOMAIN files <=> j \in DOMAIN entries
            /\ j \in DOMAIN files =>
                  /\ files[j].size = entries[j].size /\ files[j].page = entries[j].page
                  /\ restarts = 0 => files[j].whole
        BY <1>1, <2>2 DEF OnDisk, Writes
      <3> QED
        BY <1>1, <1>5, <1>7, <2>2, <3>1
    <2> QED
      BY <2>1, <2>2
  <1>22. MappingCovers'
    <2> SUFFICES ASSUME NEW j \in DOMAIN entries', NEW b \in entries'[j].blocks
                 PROVE  pages'[b][j] > 0
      BY DEF MappingCovers
    <2>1. CASE j = k
      BY <1>6, <1>7, <1>11, <2>1
    <2>2. CASE j # k
      <3>1. j \in DOMAIN entries /\ b \in entries[j].blocks /\ pages[b][j] > 0
        BY <1>7, <2>2 DEF MappingCovers
      <3>2. b \in Block /\ j \in Key
        BY <3>1, Fields
      <3> QED
        BY <1>11, <2>2, <3>1, <3>2
    <2> QED
      BY <2>1, <2>2
  <1> QED
    BY <1>13, <1>15, <1>16, <1>17, <1>18, <1>19, <1>20, <1>21, <1>22

(* What the directory holds is within the limit if no system call failed.  *)
LEMMA FilesWithinLimit ==
  ASSUME CacheInv, faults = 0
  PROVE  SizeOf(files, DOMAIN files) <= MaxSize \/ Cardinality(DOMAIN files) = 1
  <1> USE DEF CacheInv
  <1>1. /\ IsFiniteSet(DOMAIN files) /\ \A k \in DOMAIN files : files[k].size \in Nat
        /\ \A k \in DOMAIN files : k \in Key
        /\ \A k \in DOMAIN entries : k \in Key
    BY Fields DEF Typed
  <1>2. ASSUME writer.at # "write"
        PROVE  SizeOf(files, DOMAIN files) = size /\ DOMAIN files = DOMAIN entries
    <2>1. \A k \in Key : /\ k \in DOMAIN files <=> k \in DOMAIN entries
                         /\ k \in DOMAIN files => files[k].size = entries[k].size
      BY <1>2 DEF OnDisk, Writes
    <2>2. DOMAIN files = DOMAIN entries
      BY <1>1, <2>1
    <2>3. SizeOf(files, DOMAIN files) = SizeOf(entries, DOMAIN files)
      BY <1>1, <2>1, SizeSame
    <2> QED
      BY <2>2, <2>3 DEF SizeIsExact
  <1>3. ASSUME writer.at = "write"
        PROVE  SizeOf(files, DOMAIN files) <= MaxSize \/ Cardinality(DOMAIN files) = 1
    <2> SUFFICES ASSUME NEW k, k = writer.key
                 PROVE  SizeOf(files, DOMAIN files) <= MaxSize \/ Cardinality(DOMAIN files) = 1
      OBVIOUS
    <2>1. /\ k \in DOMAIN files /\ files[k].size < writer.size
          /\ size + writer.size <= MaxSize \/ DOMAIN entries = {}
      BY <1>3 DEF Opened
    <2>2. writer.size \in Nat
      BY <1>3, Fields
    <2>3. \A j \in Key \ {k} : /\ j \in DOMAIN files <=> j \in DOMAIN entries
                               /\ j \in DOMAIN files => files[j].size = entries[j].size
      BY DEF OnDisk, Writes
    <2>4. DOMAIN files \ {k} = DOMAIN entries \ {k}
      BY <1>1, <2>3
    <2>5. CASE DOMAIN entries = {}
      <3>1. DOMAIN files = {k}
        BY <2>1, <2>4, <2>5
      <3> QED
        BY <3>1, FS_Singleton
    <2>6. CASE size + writer.size <= MaxSize
      <3>1. SizeOf(files, DOMAIN files) = files[k].size + SizeOf(files, DOMAIN files \ {k})
        BY <1>1, <2>1, SizeSteps
      <3>2. SizeOf(files, DOMAIN files \ {k}) = SizeOf(entries, DOMAIN files \ {k})
        BY <1>1, <2>3, SizeSame
      <3>3. SizeOf(entries, DOMAIN entries \ {k}) \in Nat
            /\ SizeOf(entries, DOMAIN entries \ {k}) <= size
        <4> DEFINE old == {k} \cap DOMAIN entries
        <4>1. old \in SUBSET DOMAIN entries
          OBVIOUS
        <4>2. DOMAIN entries \ old = DOMAIN entries \ {k}
          OBVIOUS
        <4> HIDE DEF old
        <4>3. /\ size = SizeOf(entries, old) + SizeOf(entries, DOMAIN entries \ old)
              /\ SizeOf(entries, old) \in Nat /\ SizeOf(entries, DOMAIN entries \ old) \in Nat
          BY <4>1, EntriesSplit DEF SizeIsExact
        <4>4. /\ size = SizeOf(entries, old) + SizeOf(entries, DOMAIN entries \ {k})
              /\ SizeOf(entries, DOMAIN entries \ {k}) \in Nat
          BY <4>2, <4>3
        <4> QED
          BY <4>3, <4>4
      <3>4. SizeOf(files, DOMAIN files) = files[k].size + SizeOf(entries, DOMAIN entries \ {k})
        BY <2>4, <3>1, <3>2
      <3>5. files[k].size \in Nat /\ size \in Nat /\ MaxSize \in Nat
        BY <1>1, <2>1, Fields, CacheAssumption
      <3> QED
        BY <2>1, <2>2, <2>6, <3>3, <3>4, <3>5
    <2> QED
      BY <2>1, <2>5, <2>6
  <1>4. CASE writer.at # "write"
    BY <1>2, <1>4, Fields DEF WithinLimit
  <1> QED
    BY <1>3, <1>4

(* A restart takes every file for a page.                                  *)
LEMMA RestartKeeps ==
  ASSUME CacheInv, Restart
  PROVE  CacheInv'
  <1> USE DEF CacheInv
  <1>1. /\ restarts < MaxRestarts /\ restarts' = restarts + 1
        /\ size' = SizeOf(files, DOMAIN files)
        /\ pages' = [b \in Block |-> [k \in Key |-> 0]]
        /\ writer' = NoSet /\ readers' = {}
        /\ UNCHANGED <<files, removed, sets, faults>>
    BY DEF Restart
  <1>2. /\ DOMAIN entries' = DOMAIN files
        /\ \A k \in DOMAIN files : /\ entries'[k].size = files[k].size
                                   /\ entries'[k].blocks = {}
                                   /\ entries'[k].page = files[k].page
        /\ entries' = [k \in DOMAIN files |-> entries'[k]]
    BY DEF Restart
  <1>3. \A k \in DOMAIN files : /\ k \in Key /\ files[k].size \in Nat /\ files[k].page \in Page
    BY Fields
  <1>4. \A k \in DOMAIN files : entries'[k] \in EntryType
    BY <1>3 DEF Restart, EntryType
  <1>5. SizeIsExact'
    <2>1. SizeOf(entries', DOMAIN files) = SizeOf(files, DOMAIN files)
      BY <1>2, SizeSame
    <2> QED
      BY <1>1, <1>2, <2>1 DEF SizeIsExact
  <1>6. size' \in Nat
    <2>1. IsFiniteSet(DOMAIN files) /\ \A k \in DOMAIN files : files[k].size \in Nat
      BY <1>3 DEF Typed
    <2>2. SizeOf(files, DOMAIN files) \in Nat
      BY <2>1, SizeSteps
    <2> QED
      BY <1>1, <2>2
  <1>7. restarts' \in 0 .. MaxRestarts /\ restarts' > 0
    BY <1>1, CacheAssumption DEF Typed, TypeOK
  <1>8. Typed'
    <2>1. pages' \in [Block -> [Key -> Nat]]
      BY <1>1
    <2>2. /\ DOMAIN entries' \subseteq Key /\ entries' \in [DOMAIN entries' -> EntryType]
          /\ IsFiniteSet(DOMAIN entries')
      BY <1>2, <1>3, <1>4 DEF Typed
    <2> QED
      BY <1>1, <1>6, <1>7, <2>1, <2>2 DEF Typed, TypeOK
  <1>9. WithinLimit'
    <2>1. CASE faults = 0
      BY <1>1, <1>2, <2>1, FilesWithinLimit DEF WithinLimit
    <2>2. CASE faults # 0
      <3>1. faults' > 0
        BY <1>1, <2>2, Fields
      <3> QED
        BY <1>7, <3>1 DEF WithinLimit
    <2> QED
      BY <2>1, <2>2
  <1>10. Owned'
    BY <1>1, <1>2 DEF Owned
  <1>11. Numbered'
    BY <1>1, <1>2 DEF Numbered
  <1>12. Fresh' /\ Opened'
    BY <1>1 DEF Fresh, Opened, NoSet
  <1>13. Gone'
    BY <1>1, <1>2 DEF Gone
  <1>14. OnDisk'
    BY <1>1, <1>2, <1>7 DEF OnDisk
  <1>15. MappingCovers'
    BY <1>2 DEF MappingCovers
  <1> QED
    BY <1>5, <1>8, <1>9, <1>10, <1>11, <1>12, <1>13, <1>14, <1>15

-----------------------------------------------------------------------------
(* The theorems.                                                           *)

(* The cache begins empty.                                                 *)
LEMMA InitCache == Init => CacheInv
  <1> SUFFICES ASSUME Init PROVE CacheInv
    OBVIOUS
  <1>1. /\ entries = <<>> /\ size = 0 /\ files = <<>> /\ writer = NoSet /\ readers = {}
        /\ pages = [b \in Block |-> [k \in Key |-> 0]] /\ removed = {}
        /\ sets = 0 /\ faults = 0 /\ restarts = 0
    BY DEF Init
  <1>2. DOMAIN entries = {} /\ DOMAIN files = {} /\ writer.at = "nowhere"
    BY <1>1 DEF NoSet
  <1>3. Typed
    BY <1>1, <1>2, FS_EmptySet, CacheAssumption DEF Typed, TypeOK
  <1>4. SizeOf(entries, DOMAIN entries) = 0
    BY <1>2, FS_EmptySet, SizeSteps
  <1>5. WithinLimit
    BY <1>1, CacheAssumption DEF WithinLimit
  <1> QED
    BY <1>1, <1>2, <1>3, <1>4, <1>5
       DEF CacheInv, Owned, Numbered, Fresh, Opened, Gone, OnDisk, MappingCovers, SizeIsExact

(* Every step keeps the invariant.                                         *)
LEMMA NextCache == CacheInv /\ [Next]_vars => CacheInv'
  <1> SUFFICES ASSUME CacheInv, [Next]_vars PROVE CacheInv'
    OBVIOUS
  <1>1. faults \in 0 .. MaxFaults /\ readers \subseteq Key /\ MaxFaults \in Nat
    BY CacheAssumption DEF CacheInv, Typed, TypeOK
  <1>2. writer = NoSet => writer.at # "write"
    BY DEF NoSet
  <1>3. ASSUME NEW k \in Key, Set(k) PROVE CacheInv'
    BY <1>3, SetKeeps
  <1>4. ASSUME NEW k \in Key, Delete(k) PROVE CacheInv'
    BY <1>1, <1>2, <1>4, DropsEntry DEF Delete, Unlocked
  <1>5. ASSUME NEW k \in Key, Lookup(k) \/ ReadFile(k) PROVE CacheInv'
    <2>1. /\ UNCHANGED <<entries, size, pages, files, removed, sets, restarts, faults, writer>>
          /\ readers' \subseteq Key
      BY <1>1, <1>5 DEF Lookup, ReadFile, bounds
    <2> QED
      BY <1>1, <2>1, QuietKeeps
  <1>6. ASSUME NEW k \in Key, GiveUp(k) PROVE CacheInv'
    <2>1. readers' \subseteq Key /\ writer = NoSet /\ UNCHANGED <<writer, sets, restarts>>
      BY <1>1, <1>6 DEF GiveUp, Unlocked
    <2>2. CASE k \in DOMAIN entries
      BY <1>2, <1>6, <2>1, <2>2, DropsEntry DEF GiveUp
    <2>3. CASE k \notin DOMAIN entries
      <3>1. UNCHANGED <<entries, size, pages, files, removed, faults>>
        BY <1>6, <2>3 DEF GiveUp
      <3> QED
        BY <1>1, <2>1, <3>1, QuietKeeps
    <2> QED
      BY <2>2, <2>3
  <1>7. ASSUME NEW b \in Block, InvalidateBlock(b) PROVE CacheInv'
    BY <1>7, DropsBlock
  <1>8. CASE EvictOldest
    <2>1. writer.at # "write" /\ UNCHANGED <<writer, readers, sets, restarts>>
      BY <1>8 DEF EvictOldest
    <2>2. PICK k \in DOMAIN entries : DropEntry(k)
      BY <1>8 DEF EvictOldest
    <2> QED
      BY <1>1, <2>1, <2>2, DropsEntry
  <1>9. CASE OpenFile
    BY <1>9, OpenKeeps
  <1>10. CASE FinishSet
    BY <1>10, FinishKeeps
  <1>11. CASE FailSet
    <2>1. /\ UNCHANGED <<entries, size, pages, files, readers, removed, sets, restarts>>
          /\ writer' = NoSet /\ faults < MaxFaults /\ faults' = faults + 1
      BY <1>11 DEF FailSet, Fault
    <2>2. faults' \in 0 .. MaxFaults /\ faults' >= faults /\ faults' # 0
      BY <1>1, <2>1
    <2> QED
      BY <1>1, <2>1, <2>2, QuietKeeps
  <1>12. CASE Clear
    BY <1>12, DropsAll
  <1>13. CASE Restart
    BY <1>13, RestartKeeps
  <1>14. CASE UNCHANGED vars
    <2>1. UNCHANGED <<entries, size, pages, files, removed, sets, restarts, faults, writer, readers>>
      BY <1>14 DEF vars, bounds
    <2> QED
      BY <1>1, <2>1, QuietKeeps
  <1> QED
    BY <1>3, <1>4, <1>5, <1>6, <1>7, <1>8, <1>9, <1>10, <1>11, <1>12, <1>13, <1>14 DEF Next

(* What the cache relies on between its steps.                             *)
THEOREM CacheInvariant == Spec => []CacheInv
  BY InitCache, NextCache, PTL DEF Spec

(* The variables of the cache keep their types; the total is never         *)
(* negative.                                                               *)
THEOREM CacheTypes == Spec => []TypeOK
  <1>1. CacheInv => TypeOK
    BY DEF CacheInv, Typed
  <1> QED
    BY <1>1, CacheInvariant, PTL

(* The total is that of the entries, and the entries are those of the      *)
(* directory unless a system call failed or the process was restarted.     *)
THEOREM CacheIsAccounted == Spec => []Accounted
  <1>1. CacheInv => Accounted
    <2> SUFFICES ASSUME CacheInv, Unlocked, faults = 0, restarts = 0
                 PROVE  /\ DOMAIN files = DOMAIN entries
                        /\ \A k \in DOMAIN files :
                              /\ files[k].whole /\ files[k].page = entries[k].page
                              /\ files[k].size = entries[k].size
      BY DEF CacheInv, Accounted, DiskIsAccounted
    <2>1. writer.at # "write"
      BY DEF Unlocked, NoSet
    <2>2. /\ \A k \in DOMAIN files : k \in Key
          /\ \A k \in DOMAIN entries : k \in Key
      BY Fields DEF CacheInv
    <2> QED
      BY <2>1, <2>2 DEF CacheInv, OnDisk, Writes
  <1> QED
    BY <1>1, CacheInvariant, PTL

(* The cache exceeds its limit only with a single page, unless files       *)
(* without an entry were left for a restart.                               *)
THEOREM LimitIsKept == Spec => []WithinLimit
  <1>1. CacheInv => WithinLimit
    BY DEF CacheInv
  <1> QED
    BY <1>1, CacheInvariant, PTL

(* InvalidateBlock finds every entry that a Set has made for the block.    *)
THEOREM EveryBlockIsListed == Spec => []MappingCovers
  <1>1. CacheInv => MappingCovers
    BY DEF CacheInv
  <1> QED
    BY <1>1, CacheInvariant, PTL

(* A page that was removed is never served again, not even after a         *)
(* restart, unless its file could not be removed.                          *)
THEOREM RemovedStaysRemoved == Spec => []NoRevival
  <1>1. CacheInv => NoRevival
    BY DEF CacheInv, Gone, NoRevival
  <1> QED
    BY <1>1, CacheInvariant, PTL
=============================================================================
