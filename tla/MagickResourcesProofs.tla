----------------------- MODULE MagickResourcesProofs -----------------------
(***************************************************************************)
(* Theorems about MagickResources, for any number of threads, caches of    *)
(* any lengths, any limits and any number of calls and failures.           *)
(***************************************************************************)
EXTENDS MagickResources, FiniteSetTheorems, FunctionTheorems, TLAPS

USE LengthsAssumption, ThreadsAssumption, InfinityAssumption, LimitsAssumption,
    OptionsAssumption

-----------------------------------------------------------------------------
(* The inductive invariant                                                 *)

MatrixPC == {"m_memory", "m_disk", "m_map", "m_destroy"}
PersistPC == {"persist_open", "persist_done"}
Opening == {"memory", "disk", "create", "extend"}
Settled == {"copy", "relinquish", "finish"}

(* What the counters hold for a thread's cache, from TryDisk's grant on    *)
(* also the file that is not there yet; while it is opened its own type is *)
(* the old one, and the pixels are the source's.                           *)
CacheCounted(t, r) ==
    IF r = "file" THEN IF cache[t].open THEN 1 ELSE 0
    ELSE IF pc[t] \in Opening
    THEN IF r = "disk" /\ pc[t] \in {"create", "extend"} THEN cache[t].length ELSE 0
    ELSE Holds(cache[t])[r]

CacheOwned(t, r) ==
    IF r = "file" THEN IF cache[t].open THEN 1 ELSE 0
    ELSE IF pc[t] \in Opening THEN 0 ELSE Frees(cache[t])[r]

(* The old pixels of a cache that is reopened, or the file of a copy that  *)
(* is made by PersistPixelCache.                                           *)
SourceCounted(t, r) == IF pc[t] = "finish" THEN 0 ELSE Holds(source[t])[r]
SourceOwned(t, r)   == IF pc[t] = "finish" THEN 0 ELSE Frees(source[t])[r]

MatrixCounted(t, r) ==
    IF pc[t] \in {"m_memory", "m_disk"} THEN 0 ELSE MatrixHolds(matrix[t])[r]
MatrixOwned(t, r) ==
    IF pc[t] \in {"m_memory", "m_disk"} THEN 0 ELSE MatrixFrees(matrix[t])[r]

Counted(t, r) == CacheCounted(t, r) + SourceCounted(t, r) + MatrixCounted(t, r)
Owned(t, r)   == CacheOwned(t, r) + SourceOwned(t, r) + MatrixOwned(t, r)

(* What a thread really holds and what the counters hold for it beyond.    *)
Amount(t, r) == real[t][r] + Counted(t, r) - Owned(t, r)
Amounts(r) == [t \in Threads |-> Amount(t, r)]

CacheInv(t) ==
    /\ pc[t] \in {"idle", "finish"} \union PersistPC \union MatrixPC =>
          /\ pc[t] # "finish" => (cache[t].open => cache[t].type = "disk")
          /\ pc[t] = "finish" /\ ~source[t].known /\ cache[t].open =>
                /\ cache[t].type \in {"disk", "undefined"}
                /\ cache[t].type = "undefined" => "extend" \in failed
    /\ cache[t].mode \in {"io", "read"}
    /\ pc[t] = "finish" => cache[t].known
    /\ ~cache[t].known => cache[t] = FreshCache

SourceInv(t) ==
    /\ pc[t] \in {"idle"} \union MatrixPC => source[t] = FreshCache
    /\ pc[t] \in Opening \union {"map"} => ~source[t].open
    /\ pc[t] \in Opening \union {"map"} \union Settled =>
          /\ cache[t].known
          /\ ~source[t].known =>
                \A r \in Resource : Holds(source[t])[r] = 0
          /\ cache[t].mode = "read" => ~source[t].known
          /\ cache[t].open /\ ~source[t].known => pc[t] \in {"extend", "map", "finish"}
    /\ pc[t] \in {"copy", "relinquish"} => source[t].known
    /\ pc[t] = "copy" => ~source[t].open
    /\ pc[t] = "relinquish" /\ ~copied[t] => "copy" \in failed
    /\ pc[t] = "persist_open" => ~source[t].open
    /\ pc[t] \in PersistPC => source[t].type = "disk" /\ source[t].name = "given"
    /\ pc[t] = "memory" => cache[t].type \in {"undefined", "memory"} /\ ~cache[t].open
    /\ pc[t] = "map" => cache[t].type = "disk" /\ cache[t].open
    /\ pc[t] = "extend" => cache[t].open

MatrixInv(t) ==
    /\ pc[t] \in {"m_memory", "m_disk"} => matrix[t].type = "memory"
    /\ pc[t] \in {"m_memory", "m_disk"} => ~matrix[t].open
    /\ pc[t] = "m_map" => matrix[t].type = "disk" /\ matrix[t].open
    /\ pc[t] \in {"m_memory", "m_disk", "m_map"} => ~matrix[t].elements
    /\ matrix[t].type = "map" => matrix[t].open
    /\ matrix[t].type = "undefined" => matrix[t] = NoMatrix
    /\ matrix[t].type = "memory" /\ ~matrix[t].elements /\ pc[t] \notin {"m_memory", "m_disk"}
         => "m_disk" \in failed

ControlInv == \A t \in Threads : CacheInv(t) /\ SourceInv(t) /\ MatrixInv(t)

OwnedInv == \A t \in Threads, r \in Resource : real[t][r] >= Owned(t, r)

UsageInv == "m_disk" \notin failed => \A r \in Resource : used[r] >= Total(Amounts(r))

(* Failures the code cleans up after.                                     *)
Clean == failed \subseteq {"map", "m_alloc", "m_open", "m_map"}

ExactInv ==
    Clean => /\ \A r \in Resource : used[r] = Total(Amounts(r))
             /\ \A t \in Threads, r \in Resource : real[t][r] = Owned(t, r)

LimitInv ==
    \A r \in Resource \ {"file"} :
        used[r] <= 0 \/ limit[r] = Infinity \/ used[r] < limit[r]

IInv == TypeOK /\ ControlInv /\ OwnedInv /\ UsageInv /\ ExactInv /\ LimitInv

-----------------------------------------------------------------------------
(* Sums                                                                    *)

Units(amount, t) == {t} \X (1..amount[t])

(* A thread's units are as many as its amount.                             *)
LEMMA UnitsCount ==
    ASSUME NEW f \in [Threads -> Nat], NEW t \in Threads
    PROVE  IsFiniteSet(Units(f, t)) /\ Cardinality(Units(f, t)) = f[t]
<1>1. f[t] \in Nat
  OBVIOUS
<1>2. IsFiniteSet(1..f[t]) /\ Cardinality(1..f[t]) = f[t]
  BY <1>1, FS_Interval
<1>3. IsFiniteSet({t}) /\ Cardinality({t}) = 1
  BY FS_Singleton
<1>4. /\ IsFiniteSet({t} \X (1..f[t]))
      /\ Cardinality({t} \X (1..f[t])) = Cardinality({t}) * Cardinality(1..f[t])
  BY <1>2, <1>3, FS_Product
<1> QED BY <1>1, <1>2, <1>3, <1>4 DEF Units

AllUnits(amount) == UNION {Units(amount, t) : t \in Threads}

(* A total counts the units of all threads.                                *)
LEMMA TotalIs == \A f : Total(f) = Cardinality(AllUnits(f))
BY DEF Total, AllUnits, Units

(* There are finitely many units, so a total is a number.                  *)
LEMMA AllUnitsFinite ==
    ASSUME NEW f \in [Threads -> Nat]
    PROVE  IsFiniteSet(AllUnits(f)) /\ Total(f) \in Nat
<1> DEFINE S == {Units(f, t) : t \in Threads}
           g == [t \in Threads |-> Units(f, t)]
<1>1. g \in Surjection(Threads, S)
  BY DEF Surjection
<1>2. IsFiniteSet(S)
  BY <1>1, FS_Surjection
<1>3. \A T \in S : IsFiniteSet(T)
  BY UnitsCount
<1>4. IsFiniteSet(UNION S)
  BY <1>2, <1>3, FS_UNION
<1>5. AllUnits(f) = UNION S
  BY DEF AllUnits
<1>6. IsFiniteSet(AllUnits(f))
  BY <1>4, <1>5
<1> QED BY <1>6, TotalIs, FS_CardinalityType

(* Larger amounts have a larger total.                                     *)
LEMMA TotalMonotone ==
    ASSUME NEW f \in [Threads -> Nat], NEW g \in [Threads -> Nat],
           \A t \in Threads : f[t] <= g[t]
    PROVE  Total(f) <= Total(g)
<1>1. AllUnits(f) \subseteq AllUnits(g)
  BY DEF AllUnits, Units
<1> QED BY <1>1, AllUnitsFinite, TotalIs, FS_Subset

(* A sum changes by as much as the one term that changes.                  *)
LEMMA TotalChange ==
    ASSUME NEW f \in [Threads -> Nat], NEW g \in [Threads -> Nat], NEW t \in Threads,
           \A u \in Threads \ {t} : f[u] = g[u]
    PROVE  Total(g) - Total(f) = g[t] - f[t]
<1> DEFINE Rest(h) == AllUnits(h) \ Units(h, t)
<1>1. ASSUME NEW h \in [Threads -> Nat]
      PROVE  /\ IsFiniteSet(Rest(h)) /\ Cardinality(Rest(h)) \in Nat
             /\ Total(h) = Cardinality(Rest(h)) + h[t]
  <2>1. Units(h, t) \subseteq AllUnits(h)
    BY DEF AllUnits
  <2>2. IsFiniteSet(AllUnits(h))
    BY AllUnitsFinite
  <2>3. AllUnits(h) \cap Units(h, t) = Units(h, t)
    BY <2>1
  <2>4. /\ IsFiniteSet(Rest(h))
        /\ Cardinality(Rest(h)) = Cardinality(AllUnits(h)) - Cardinality(Units(h, t))
    BY <2>2, <2>3, FS_Difference
  <2>5. Cardinality(Rest(h)) \in Nat /\ Cardinality(AllUnits(h)) \in Nat
    BY <2>2, <2>4, FS_CardinalityType
  <2> HIDE DEF Rest
  <2>6. h[t] \in Nat
    OBVIOUS
  <2> QED BY <2>4, <2>5, <2>6, UnitsCount, TotalIs
<1>2. Rest(f) = Rest(g)
  BY DEF AllUnits, Units
<1> HIDE DEF Rest
<1>3. f[t] \in Nat /\ g[t] \in Nat
  OBVIOUS
<1> QED BY <1>1, <1>2, <1>3

(* The total of nothing is zero.                                           *)
LEMMA TotalOfNothing ==
    ASSUME NEW f \in [Threads -> Nat], \A t \in Threads : f[t] = 0
    PROVE  Total(f) = 0
<1>1. AllUnits(f) = {}
  BY DEF AllUnits, Units
<1> QED BY <1>1, TotalIs, FS_EmptySet

-----------------------------------------------------------------------------
(* One thread moves                                                        *)

(* Only what belongs to thread t changes, besides the process's counters.  *)
Moves(t) ==
    /\ cache' = [cache EXCEPT ![t] = cache'[t]]
    /\ source' = [source EXCEPT ![t] = source'[t]]
    /\ matrix' = [matrix EXCEPT ![t] = matrix'[t]]
    /\ pc' = [pc EXCEPT ![t] = pc'[t]]
    /\ copied' = [copied EXCEPT ![t] = copied'[t]]
    /\ real' = [real EXCEPT ![t] = real'[t]]

(* The thread's books after the step: the counter moves by at least what   *)
(* its amount does, and by exactly that as long as nothing is lost.        *)
Balanced(t) ==
    \A r \in Resource :
        /\ "m_disk" \notin failed' =>
              used'[r] - used[r] >= Amount(t, r)' - Amount(t, r)
        /\ real'[t][r] - Owned(t, r)' >= real[t][r] - Owned(t, r)
        /\ Clean' => /\ used'[r] - used[r] = Amount(t, r)' - Amount(t, r)
                     /\ real'[t][r] - Owned(t, r)' = real[t][r] - Owned(t, r)

(* A counter that grows stays below its limit.                             *)
Bounded ==
    \A r \in Resource \ {"file"} :
        used'[r] <= used[r] \/ limit[r] = Infinity \/ used'[r] < limit[r]

(* What a cache holds is a number, and it frees no more than that.         *)
LEMMA HoldsType ==
    ASSUME NEW c, c.length \in Nat, NEW r \in Resource
    PROVE  Holds(c)[r] \in Nat /\ Frees(c)[r] \in Nat /\ Frees(c)[r] <= Holds(c)[r]
BY DEF Holds, Frees, Resource

(* The same of a matrix.                                                   *)
LEMMA MatrixHoldsType ==
    ASSUME NEW m, m.length \in Nat, NEW r \in Resource
    PROVE  /\ MatrixHolds(m)[r] \in Nat /\ MatrixFrees(m)[r] \in Nat
           /\ MatrixFrees(m)[r] <= MatrixHolds(m)[r]
BY DEF MatrixHolds, MatrixFrees, Resource

(* Lengths are numbers.                                                    *)
LEMMA RecordTypes ==
    /\ \A c \in CacheInfo : c.length \in Nat /\ c.open \in BOOLEAN
    /\ \A m \in Matrix : m.length \in Nat
<1>1. Lengths \union {0} \subseteq Nat
  OBVIOUS
<1> QED BY <1>1 DEF CacheInfo, Matrix

(* The books of a thread are numbers; it is owed no less than it really    *)
(* holds.                                                                  *)
LEMMA AmountType ==
    ASSUME TypeOK, NEW t \in Threads, NEW r \in Resource
    PROVE  /\ Counted(t, r) \in Nat /\ Owned(t, r) \in Nat /\ Owned(t, r) <= Counted(t, r)
           /\ real[t][r] \in Nat
           /\ Amount(t, r) \in Nat /\ real[t][r] <= Amount(t, r)
<1>1. /\ cache[t].length \in Nat /\ source[t].length \in Nat /\ matrix[t].length \in Nat
      /\ cache[t].open \in BOOLEAN
  BY RecordTypes DEF TypeOK
<1>2. real[t][r] \in Nat
  BY DEF TypeOK
<1>3. /\ CacheCounted(t, r) \in Nat /\ CacheOwned(t, r) \in Nat
      /\ CacheOwned(t, r) <= CacheCounted(t, r)
  BY <1>1, HoldsType DEF CacheCounted, CacheOwned
<1>4. /\ SourceCounted(t, r) \in Nat /\ SourceOwned(t, r) \in Nat
      /\ SourceOwned(t, r) <= SourceCounted(t, r)
  BY <1>1, HoldsType DEF SourceCounted, SourceOwned
<1>5. /\ MatrixCounted(t, r) \in Nat /\ MatrixOwned(t, r) \in Nat
      /\ MatrixOwned(t, r) <= MatrixCounted(t, r)
  BY <1>1, MatrixHoldsType DEF MatrixCounted, MatrixOwned
<1>6. /\ Counted(t, r) \in Nat /\ Owned(t, r) \in Nat /\ Owned(t, r) <= Counted(t, r)
  BY <1>3, <1>4, <1>5 DEF Counted, Owned
<1> QED BY <1>2, <1>6 DEF Amount

(* The same after a step.                                                  *)
LEMMA AmountTypeNext ==
    ASSUME TypeOK', NEW t \in Threads, NEW r \in Resource
    PROVE  /\ Counted(t, r)' \in Nat /\ Owned(t, r)' \in Nat /\ real'[t][r] \in Nat
           /\ Amount(t, r)' \in Nat
<1>1. /\ cache'[t].length \in Nat /\ source'[t].length \in Nat /\ matrix'[t].length \in Nat
      /\ cache'[t].open \in BOOLEAN
  BY RecordTypes DEF TypeOK
<1>2. real'[t][r] \in Nat
  BY DEF TypeOK
<1>3. /\ CacheCounted(t, r)' \in Nat /\ CacheOwned(t, r)' \in Nat
      /\ CacheOwned(t, r)' <= CacheCounted(t, r)'
  BY <1>1, HoldsType DEF CacheCounted, CacheOwned
<1>4. /\ SourceCounted(t, r)' \in Nat /\ SourceOwned(t, r)' \in Nat
      /\ SourceOwned(t, r)' <= SourceCounted(t, r)'
  BY <1>1, HoldsType DEF SourceCounted, SourceOwned
<1>5. /\ MatrixCounted(t, r)' \in Nat /\ MatrixOwned(t, r)' \in Nat
      /\ MatrixOwned(t, r)' <= MatrixCounted(t, r)'
  BY <1>1, MatrixHoldsType DEF MatrixCounted, MatrixOwned
<1>6. /\ Counted(t, r)' \in Nat /\ Owned(t, r)' \in Nat /\ Owned(t, r)' <= Counted(t, r)'
  BY <1>3, <1>4, <1>5 DEF Counted, Owned
<1> QED BY <1>2, <1>6 DEF Amount

(* A step of one thread keeps the invariant if it keeps the thread's own   *)
(* part of it, moves the counters by what the thread's amount moves, and   *)
(* lets no counter grow beyond its limit.                                  *)
LEMMA StepKeeps ==
    ASSUME IInv, NEW t \in Threads, TypeOK', Moves(t), failed \subseteq failed',
           CacheInv(t)', SourceInv(t)', MatrixInv(t)', Balanced(t), Bounded
    PROVE  IInv'
<1>1. ControlInv'
  <2>1. ASSUME NEW u \in Threads PROVE CacheInv(u)' /\ SourceInv(u)' /\ MatrixInv(u)'
    <3>1. CASE u = t
      BY <3>1
    <3>2. CASE u # t
      <4>1. CacheInv(u) /\ SourceInv(u) /\ MatrixInv(u)
        BY DEF IInv, ControlInv
      <4>2. /\ cache'[u] = cache[u] /\ source'[u] = source[u] /\ matrix'[u] = matrix[u]
            /\ pc'[u] = pc[u] /\ copied'[u] = copied[u]
        BY <3>2 DEF Moves, IInv, TypeOK
      <4> QED BY <4>1, <4>2 DEF CacheInv, SourceInv, MatrixInv
    <3> QED BY <3>1, <3>2
  <2> QED BY <2>1 DEF ControlInv
<1>2. ASSUME NEW u \in Threads \ {t}, NEW r \in Resource
      PROVE  /\ Amount(u, r)' = Amount(u, r) /\ Owned(u, r)' = Owned(u, r)
             /\ real'[u][r] = real[u][r]
  BY DEF Moves, IInv, TypeOK, Amount, Counted, Owned, CacheCounted, CacheOwned, SourceCounted,
         SourceOwned, MatrixCounted, MatrixOwned
<1>3. ASSUME NEW r \in Resource
      PROVE  /\ Total(Amounts(r))' - Total(Amounts(r)) = Amount(t, r)' - Amount(t, r)
             /\ Total(Amounts(r)) \in Nat /\ Total(Amounts(r))' \in Nat
             /\ Amount(t, r) \in Nat /\ Amount(t, r)' \in Nat
             /\ used[r] \in Int /\ used'[r] \in Int
  <2> DEFINE f == Amounts(r)
             g == Amounts(r)'
  <2>1. f \in [Threads -> Nat]
    BY AmountType DEF Amounts, IInv
  <2>2. g \in [Threads -> Nat]
    BY AmountTypeNext DEF Amounts
  <2>3. \A u \in Threads \ {t} : f[u] = g[u]
    BY <1>2 DEF Amounts
  <2>4. f[t] = Amount(t, r) /\ g[t] = Amount(t, r)'
    BY DEF Amounts
  <2>5. Total(Amounts(r))' = Total(g)
    BY DEF Total
  <2>6. used[r] \in Int /\ used'[r] \in Int
    BY DEF IInv, TypeOK
  <2> HIDE DEF f, g
  <2>7. Total(g) - Total(f) = g[t] - f[t]
    BY <2>1, <2>2, <2>3, TotalChange
  <2>8. Total(f) \in Nat /\ Total(g) \in Nat /\ f[t] \in Nat /\ g[t] \in Nat
    BY <2>1, <2>2, AllUnitsFinite
  <2> QED BY <2>4, <2>5, <2>6, <2>7, <2>8 DEF f
<1>4. OwnedInv'
  <2>1. ASSUME NEW u \in Threads, NEW r \in Resource PROVE real'[u][r] >= Owned(u, r)'
    <3>1. /\ real[u][r] \in Nat /\ Owned(u, r) \in Nat /\ real[u][r] >= Owned(u, r)
          /\ real'[u][r] \in Nat /\ Owned(u, r)' \in Nat
      BY AmountType, AmountTypeNext DEF IInv, OwnedInv
    <3>2. CASE u = t
      BY <3>1, <3>2 DEF Balanced
    <3>3. CASE u # t
      BY <3>1, <3>3, <1>2
    <3> QED BY <3>2, <3>3
  <2> QED BY <2>1 DEF OwnedInv
<1>5. UsageInv'
  <2>1. ASSUME "m_disk" \notin failed', NEW r \in Resource
        PROVE  used'[r] >= Total(Amounts(r))'
    <3>1. used[r] >= Total(Amounts(r))
      BY <2>1 DEF IInv, UsageInv
    <3>2. used'[r] - used[r] >= Amount(t, r)' - Amount(t, r)
      BY <2>1 DEF Balanced
    <3> QED BY <1>3, <3>1, <3>2
  <2> QED BY <2>1 DEF UsageInv
<1>6. ExactInv'
  <2> SUFFICES ASSUME Clean' PROVE ExactInv'
    BY DEF ExactInv
  <2>1. Clean
    BY DEF Clean
  <2>2. ASSUME NEW r \in Resource PROVE used'[r] = Total(Amounts(r))'
    <3>1. used[r] = Total(Amounts(r))
      BY <2>1 DEF IInv, ExactInv
    <3>2. used'[r] - used[r] = Amount(t, r)' - Amount(t, r)
      BY DEF Balanced
    <3> QED BY <1>3, <3>1, <3>2
  <2>3. ASSUME NEW u \in Threads, NEW r \in Resource PROVE real'[u][r] = Owned(u, r)'
    <3>1. /\ real[u][r] = Owned(u, r) /\ real[u][r] \in Nat
          /\ real'[u][r] \in Nat /\ Owned(u, r)' \in Nat
      BY <2>1, AmountType, AmountTypeNext DEF IInv, ExactInv
    <3>2. CASE u = t
      BY <3>1, <3>2 DEF Balanced
    <3>3. CASE u # t
      BY <3>1, <3>3, <1>2
    <3> QED BY <3>2, <3>3
  <2> QED BY <2>2, <2>3 DEF ExactInv
<1>7. LimitInv'
  <2>1. ASSUME NEW r \in Resource \ {"file"}
        PROVE  used'[r] <= 0 \/ limit[r] = Infinity \/ used'[r] < limit[r]
    <3>1. used[r] \in Int /\ used'[r] \in Int
      BY DEF IInv, TypeOK
    <3>2. used[r] <= 0 \/ limit[r] = Infinity \/ used[r] < limit[r]
      BY DEF IInv, LimitInv
    <3>3. limit[r] = Infinity \/ limit[r] \in Nat
      BY DEF limit, Resource
    <3> QED BY <3>1, <3>2, <3>3 DEF Bounded
  <2> QED BY <2>1 DEF LimitInv
<1> QED BY <1>1, <1>4, <1>5, <1>6, <1>7 DEF IInv

(* A step of one thread keeps the types if it keeps those of the thread.   *)
LEMMA TypesMove ==
    ASSUME TypeOK, NEW t \in Threads, Moves(t),
           used' \in [Resource -> Int], real'[t] \in [Resource -> Nat],
           cache'[t] \in CacheInfo, source'[t] \in CacheInfo, matrix'[t] \in Matrix,
           pc'[t] \in PC, copied'[t] \in BOOLEAN,
           failed' \subseteq AllFailures \union Refusals, calls' \in 0..MaxCalls
    PROVE  TypeOK'
BY DEF TypeOK, Moves

-----------------------------------------------------------------------------
(* Records with some fields changed                                        *)

Typed(c, x) == [c EXCEPT !.type = x]

(* A cache whose type changes.                                             *)
LEMMA WithType ==
    ASSUME NEW c \in CacheInfo, NEW x \in CacheType
    PROVE  /\ Typed(c, x) \in CacheInfo
           /\ Typed(c, x).type = x /\ Typed(c, x).length = c.length
           /\ Typed(c, x).open = c.open /\ Typed(c, x).name = c.name
           /\ Typed(c, x).mode = c.mode /\ Typed(c, x).known = c.known
<1>1. Typed(c, x) \in CacheInfo
  BY DEF CacheInfo, Typed
<1>2. /\ Typed(c, x).type = x /\ Typed(c, x).length = c.length
      /\ Typed(c, x).open = c.open /\ Typed(c, x).name = c.name
      /\ Typed(c, x).mode = c.mode /\ Typed(c, x).known = c.known
  BY DEF CacheInfo, Typed
<1> QED BY <1>1, <1>2

Opened(c) == [c EXCEPT !.open = TRUE]

(* A cache whose file is opened.                                           *)
LEMMA WithOpen ==
    ASSUME NEW c \in CacheInfo
    PROVE  /\ Opened(c) \in CacheInfo
           /\ Opened(c).type = c.type /\ Opened(c).length = c.length
           /\ Opened(c).open /\ Opened(c).name = c.name
           /\ Opened(c).mode = c.mode /\ Opened(c).known = c.known
<1>1. Opened(c) \in CacheInfo
  BY DEF CacheInfo, Opened
<1>2. /\ Opened(c).type = c.type /\ Opened(c).length = c.length
      /\ Opened(c).open /\ Opened(c).name = c.name
      /\ Opened(c).mode = c.mode /\ Opened(c).known = c.known
  BY DEF CacheInfo, Opened
<1> QED BY <1>1, <1>2

Closed(c) == [c EXCEPT !.open = FALSE]

(* A cache whose file is closed.                                           *)
LEMMA WithClosed ==
    ASSUME NEW c \in CacheInfo
    PROVE  /\ Closed(c) \in CacheInfo
           /\ Closed(c).type = c.type /\ Closed(c).length = c.length
           /\ ~Closed(c).open /\ Closed(c).name = c.name
           /\ Closed(c).mode = c.mode /\ Closed(c).known = c.known
<1>1. Closed(c) \in CacheInfo
  BY DEF CacheInfo, Closed
<1>2. /\ Closed(c).type = c.type /\ Closed(c).length = c.length
      /\ ~Closed(c).open /\ Closed(c).name = c.name
      /\ Closed(c).mode = c.mode /\ Closed(c).known = c.known
  BY DEF CacheInfo, Closed
<1> QED BY <1>1, <1>2

OnFile(c, y) == [c EXCEPT !.open = TRUE, !.name = y]

(* A cache with a file: CreateFile.                                        *)
LEMMA WithFile ==
    ASSUME NEW c \in CacheInfo, NEW y \in {"none", "temp", "given"}
    PROVE  /\ OnFile(c, y) \in CacheInfo
           /\ OnFile(c, y).type = c.type /\ OnFile(c, y).length = c.length
           /\ OnFile(c, y).open /\ OnFile(c, y).name = y
           /\ OnFile(c, y).mode = c.mode /\ OnFile(c, y).known = c.known
<1>1. OnFile(c, y) \in CacheInfo
  BY DEF CacheInfo, OnFile
<1>2. /\ OnFile(c, y).type = c.type /\ OnFile(c, y).length = c.length
      /\ OnFile(c, y).open /\ OnFile(c, y).name = y
      /\ OnFile(c, y).mode = c.mode /\ OnFile(c, y).known = c.known
  BY DEF CacheInfo, OnFile
<1> QED BY <1>1, <1>2

OffFile(c, x, y) == [c EXCEPT !.type = x, !.name = y, !.open = FALSE]

(* A cache whose file could not be created: CreateFile.                    *)
LEMMA WithoutFile ==
    ASSUME NEW c \in CacheInfo, NEW x \in CacheType, NEW y \in {"none", "temp", "given"}
    PROVE  /\ OffFile(c, x, y) \in CacheInfo
           /\ OffFile(c, x, y).type = x /\ OffFile(c, x, y).length = c.length
           /\ ~OffFile(c, x, y).open /\ OffFile(c, x, y).name = y
           /\ OffFile(c, x, y).mode = c.mode /\ OffFile(c, x, y).known = c.known
<1>1. OffFile(c, x, y) \in CacheInfo
  BY DEF CacheInfo, OffFile
<1>2. /\ OffFile(c, x, y).type = x /\ OffFile(c, x, y).length = c.length
      /\ ~OffFile(c, x, y).open /\ OffFile(c, x, y).name = y
      /\ OffFile(c, x, y).mode = c.mode /\ OffFile(c, x, y).known = c.known
  BY DEF CacheInfo, OffFile
<1> QED BY <1>1, <1>2

Mapped(c, x) == [c EXCEPT !.type = x, !.open = FALSE]

(* A cache that is mapped: TryMap.                                         *)
LEMMA WithMap ==
    ASSUME NEW c \in CacheInfo, NEW x \in CacheType
    PROVE  /\ Mapped(c, x) \in CacheInfo
           /\ Mapped(c, x).type = x /\ Mapped(c, x).length = c.length
           /\ ~Mapped(c, x).open /\ Mapped(c, x).name = c.name
           /\ Mapped(c, x).mode = c.mode /\ Mapped(c, x).known = c.known
<1>1. Mapped(c, x) \in CacheInfo
  BY DEF CacheInfo, Mapped
<1>2. /\ Mapped(c, x).type = x /\ Mapped(c, x).length = c.length
      /\ ~Mapped(c, x).open /\ Mapped(c, x).name = c.name
      /\ Mapped(c, x).mode = c.mode /\ Mapped(c, x).known = c.known
  BY DEF CacheInfo, Mapped
<1> QED BY <1>1, <1>2

Resized(c, n, y) == [c EXCEPT !.length = n, !.mode = y, !.known = TRUE]

(* A cache that is opened: Begin.                                          *)
LEMMA WithLength ==
    ASSUME NEW c \in CacheInfo, NEW n \in Lengths, NEW y \in {"io", "read"}
    PROVE  /\ Resized(c, n, y) \in CacheInfo
           /\ Resized(c, n, y).type = c.type /\ Resized(c, n, y).length = n
           /\ Resized(c, n, y).open = c.open /\ Resized(c, n, y).name = c.name
           /\ Resized(c, n, y).mode = y /\ Resized(c, n, y).known
<1>1. Resized(c, n, y) \in CacheInfo
  BY DEF CacheInfo, Resized
<1>2. /\ Resized(c, n, y).type = c.type /\ Resized(c, n, y).length = n
      /\ Resized(c, n, y).open = c.open /\ Resized(c, n, y).name = c.name
      /\ Resized(c, n, y).mode = y /\ Resized(c, n, y).known
  BY DEF CacheInfo, Resized
<1> QED BY <1>1, <1>2

Given(c, x) == [c EXCEPT !.type = x, !.name = "given"]

(* A cache on a file the user gave: AttachPixelCache.                      *)
LEMMA WithGiven ==
    ASSUME NEW c \in CacheInfo, NEW x \in CacheType
    PROVE  /\ Given(c, x) \in CacheInfo
           /\ Given(c, x).type = x /\ Given(c, x).length = c.length
           /\ Given(c, x).open = c.open /\ Given(c, x).name = "given"
           /\ Given(c, x).mode = c.mode /\ Given(c, x).known = c.known
<1>1. Given(c, x) \in CacheInfo
  BY DEF CacheInfo, Given
<1>2. /\ Given(c, x).type = x /\ Given(c, x).length = c.length
      /\ Given(c, x).open = c.open /\ Given(c, x).name = "given"
      /\ Given(c, x).mode = c.mode /\ Given(c, x).known = c.known
  BY DEF CacheInfo, Given
<1> QED BY <1>1, <1>2

InMemory(c) == [c EXCEPT !.elements = TRUE]

(* A matrix in memory: MatrixMemory.                                       *)
LEMMA MatrixElements ==
    ASSUME NEW c \in Matrix
    PROVE  /\ InMemory(c) \in Matrix
           /\ InMemory(c).type = c.type /\ InMemory(c).length = c.length
           /\ InMemory(c).elements /\ InMemory(c).open = c.open
<1>1. InMemory(c) \in Matrix
  BY DEF Matrix, InMemory
<1>2. /\ InMemory(c).type = c.type /\ InMemory(c).length = c.length
      /\ InMemory(c).elements /\ InMemory(c).open = c.open
  BY DEF Matrix, InMemory
<1> QED BY <1>1, <1>2

OnDisk(c) == [c EXCEPT !.type = "disk", !.open = TRUE]

(* A matrix with a file: MatrixDisk.                                       *)
LEMMA MatrixOnDisk ==
    ASSUME NEW c \in Matrix
    PROVE  /\ OnDisk(c) \in Matrix
           /\ OnDisk(c).type = "disk" /\ OnDisk(c).length = c.length
           /\ OnDisk(c).elements = c.elements /\ OnDisk(c).open
<1>1. OnDisk(c) \in Matrix
  BY DEF Matrix, OnDisk
<1>2. /\ OnDisk(c).type = "disk" /\ OnDisk(c).length = c.length
      /\ OnDisk(c).elements = c.elements /\ OnDisk(c).open
  BY DEF Matrix, OnDisk
<1> QED BY <1>1, <1>2

OfDisk(c) == [c EXCEPT !.type = "disk"]

(* A matrix without the file it was granted: MatrixDisk.                   *)
LEMMA MatrixTypeDisk ==
    ASSUME NEW c \in Matrix
    PROVE  /\ OfDisk(c) \in Matrix
           /\ OfDisk(c).type = "disk" /\ OfDisk(c).length = c.length
           /\ OfDisk(c).elements = c.elements /\ OfDisk(c).open = c.open
<1>1. OfDisk(c) \in Matrix
  BY DEF Matrix, OfDisk
<1>2. /\ OfDisk(c).type = "disk" /\ OfDisk(c).length = c.length
      /\ OfDisk(c).elements = c.elements /\ OfDisk(c).open = c.open
  BY DEF Matrix, OfDisk
<1> QED BY <1>1, <1>2

InMap(c) == [c EXCEPT !.type = "map", !.elements = TRUE]

(* A matrix that is mapped: MatrixMap.                                     *)
LEMMA MatrixMapped ==
    ASSUME NEW c \in Matrix
    PROVE  /\ InMap(c) \in Matrix
           /\ InMap(c).type = "map" /\ InMap(c).length = c.length
           /\ InMap(c).elements /\ InMap(c).open = c.open
<1>1. InMap(c) \in Matrix
  BY DEF Matrix, InMap
<1>2. /\ InMap(c).type = "map" /\ InMap(c).length = c.length
      /\ InMap(c).elements /\ InMap(c).open = c.open
  BY DEF Matrix, InMap
<1> QED BY <1>1, <1>2

FileFor(n) ==
    [type |-> "disk", length |-> n, open |-> FALSE, name |-> "given", mode
     |-> "persist", known |-> TRUE]

(* The cache PersistPixelCache makes for its copy.                         *)
LEMMA PersistedFile ==
    ASSUME NEW n \in Lengths \union {0}
    PROVE  /\ FileFor(n) \in CacheInfo
           /\ FileFor(n).type = "disk" /\ FileFor(n).length = n
           /\ ~FileFor(n).open /\ FileFor(n).name = "given"
           /\ FileFor(n).mode = "persist" /\ FileFor(n).known
BY DEF CacheInfo, FileFor, CacheType

WantedMatrix(n) ==
    [type |-> "memory", length |-> n, elements |-> FALSE, open |-> FALSE]

(* The matrix AcquireMatrixInfo begins with.                               *)
LEMMA MatrixMade ==
    ASSUME NEW n \in Lengths
    PROVE  /\ WantedMatrix(n) \in Matrix
           /\ WantedMatrix(n).type = "memory" /\ WantedMatrix(n).length = n
           /\ ~WantedMatrix(n).elements /\ ~WantedMatrix(n).open
BY DEF Matrix, WantedMatrix, CacheType

(* Caches and matrices that do not exist yet.                              *)
LEMMA FreshTypes ==
    /\ FreshCache \in CacheInfo /\ NoMatrix \in Matrix
    /\ FreshCache.type = "undefined" /\ FreshCache.length = 0 /\ ~FreshCache.open
    /\ FreshCache.name = "none" /\ FreshCache.mode = "io" /\ ~FreshCache.known
    /\ NoMatrix.type = "undefined" /\ NoMatrix.length = 0 /\ ~NoMatrix.elements
    /\ ~NoMatrix.open
BY DEF FreshCache, NoMatrix, CacheInfo, Matrix, CacheType

-----------------------------------------------------------------------------
(* What records hold, resource by resource                                 *)

(* What a cache holds.                                                     *)
LEMMA HoldsIs ==
    ASSUME NEW c
    PROVE  /\ Holds(c)["memory"] = IF c.type = "memory" THEN c.length ELSE 0
           /\ Holds(c)["map"] = IF c.type = "map" THEN c.length ELSE 0
           /\ Holds(c)["disk"] = IF c.type \in {"disk", "map"} THEN c.length ELSE 0
           /\ Holds(c)["file"] = IF c.type \in {"disk", "map"} /\ c.open THEN 1 ELSE 0
BY DEF Holds

(* What a cache frees: files the user named stay.                          *)
LEMMA FreesIs ==
    ASSUME NEW c
    PROVE  /\ Frees(c)["memory"] = IF c.type = "memory" THEN c.length ELSE 0
           /\ Frees(c)["map"] = IF c.type = "map" THEN c.length ELSE 0
           /\ Frees(c)["disk"] = IF c.type \in {"disk", "map"} /\ c.name = "temp"
                                 THEN c.length ELSE 0
           /\ Frees(c)["file"] = IF c.type \in {"disk", "map"} /\ c.open THEN 1 ELSE 0
BY DEF Holds, Frees

(* What a matrix holds.                                                    *)
LEMMA MatrixHoldsIs ==
    ASSUME NEW m
    PROVE  /\ MatrixHolds(m)["memory"] = IF m.type = "memory" THEN m.length ELSE 0
           /\ MatrixHolds(m)["map"] = IF m.type = "map" THEN m.length ELSE 0
           /\ MatrixHolds(m)["disk"] = IF m.type \in {"disk", "map"} THEN m.length ELSE 0
           /\ MatrixHolds(m)["file"] = 0
BY DEF MatrixHolds

(* What a matrix frees.                                                    *)
LEMMA MatrixFreesIs ==
    ASSUME NEW m
    PROVE  /\ MatrixFrees(m)["memory"] = IF m.type = "memory" /\ m.elements
                                         THEN m.length ELSE 0
           /\ MatrixFrees(m)["map"] = IF m.type = "map" THEN m.length ELSE 0
           /\ MatrixFrees(m)["disk"] = IF m.type \in {"disk", "map"} /\ m.open
                                       THEN m.length ELSE 0
           /\ MatrixFrees(m)["file"] = 0
BY DEF MatrixHolds, MatrixFrees, Resource

(* The copy OpenPixelCache makes of a cache holds what the cache holds,    *)
(* without its descriptor.                                                 *)
LEMMA HoldsCopy ==
    ASSUME NEW c, NEW d, NEW r \in Resource,
           d.type = c.type, d.length = c.length, d.name = c.name, ~d.open
    PROVE  /\ Holds(d)[r] = IF r = "file" THEN 0 ELSE Holds(c)[r]
           /\ Frees(d)[r] = IF r = "file" THEN 0 ELSE Frees(c)[r]
<1>1. \A q \in {"memory", "map", "disk"} : Holds(d)[q] = Holds(c)[q] /\ Frees(d)[q] = Frees(c)[q]
  <2>1. Holds(d)["memory"] = Holds(c)["memory"] /\ Frees(d)["memory"] = Frees(c)["memory"]
    BY HoldsIs, FreesIs
  <2>2. Holds(d)["map"] = Holds(c)["map"] /\ Frees(d)["map"] = Frees(c)["map"]
    BY HoldsIs, FreesIs
  <2>3. Holds(d)["disk"] = Holds(c)["disk"] /\ Frees(d)["disk"] = Frees(c)["disk"]
    BY HoldsIs, FreesIs
  <2> QED BY <2>1, <2>2, <2>3
<1>2. Holds(d)["file"] = 0 /\ Frees(d)["file"] = 0
  BY HoldsIs, FreesIs
<1> QED BY <1>1, <1>2 DEF Resource

(* A cache without a type, or without length and descriptor, holds nothing.*)
LEMMA HoldsNothing ==
    ASSUME NEW c, NEW r \in Resource, c.type = "undefined" \/ (c.length = 0 /\ ~c.open)
    PROVE  Holds(c)[r] = 0 /\ Frees(c)[r] = 0
BY HoldsIs, FreesIs, ZenonT(60) DEF Resource

(* Nor does a matrix that does not exist.                                  *)
LEMMA MatrixHoldsNothing ==
    ASSUME NEW r \in Resource
    PROVE  MatrixHolds(NoMatrix)[r] = 0 /\ MatrixFrees(NoMatrix)[r] = 0
<1>1. \A q \in {"memory", "map", "disk", "file"} :
         MatrixHolds(NoMatrix)[q] = 0 /\ MatrixFrees(NoMatrix)[q] = 0
  BY MatrixHoldsIs, MatrixFreesIs, FreshTypes
<1> QED BY <1>1 DEF Resource

-----------------------------------------------------------------------------
(* The books, resource by resource, before and after a step                *)

(* The books of a cache before the step.                                   *)
LEMMA CacheBooks ==
    ASSUME NEW t \in Threads
    PROVE  /\ CacheCounted(t, "memory") =
                 IF pc[t] \notin Opening /\ cache[t].type = "memory"
                    THEN cache[t].length ELSE 0
           /\ CacheCounted(t, "map") =
                 IF pc[t] \notin Opening /\ cache[t].type = "map"
                    THEN cache[t].length ELSE 0
           /\ CacheCounted(t, "disk") = IF pc[t] \in {"create", "extend"}
                    \/ (pc[t] \notin Opening /\ cache[t].type \in {"disk", "map"})
                    THEN cache[t].length ELSE 0
           /\ CacheCounted(t, "file") = IF cache[t].open THEN 1 ELSE 0
           /\ CacheOwned(t, "memory") =
                 IF pc[t] \notin Opening /\ cache[t].type = "memory"
                    THEN cache[t].length ELSE 0
           /\ CacheOwned(t, "map") =
                 IF pc[t] \notin Opening /\ cache[t].type = "map"
                    THEN cache[t].length ELSE 0
           /\ CacheOwned(t, "disk") =
                 IF pc[t] \notin Opening /\ cache[t].type \in {"disk", "map"}
                    /\ cache[t].name = "temp" THEN cache[t].length ELSE 0
           /\ CacheOwned(t, "file") = IF cache[t].open THEN 1 ELSE 0
<1>1. CacheCounted(t, "memory") = IF pc[t] \notin Opening
         /\ cache[t].type = "memory" THEN cache[t].length ELSE 0
  BY HoldsIs DEF CacheCounted, Opening
<1>2. CacheCounted(t, "map") = IF pc[t] \notin Opening /\ cache[t].type = "map"
         THEN cache[t].length ELSE 0
  BY HoldsIs DEF CacheCounted, Opening
<1>3. CacheCounted(t, "disk") = IF pc[t] \in {"create", "extend"} \/ (pc[t] \notin Opening /\ cache[t].type \in {"disk", "map"}) THEN cache[t].length ELSE 0
  <2>1. Holds(cache[t])["disk"] = IF cache[t].type \in {"disk", "map"}
           THEN cache[t].length ELSE 0
    BY HoldsIs
  <2> QED BY <2>1 DEF CacheCounted, Opening
<1>4. CacheCounted(t, "file") = IF cache[t].open THEN 1 ELSE 0
  BY DEF CacheCounted, Opening
<1>5. CacheOwned(t, "memory") = IF pc[t] \notin Opening
         /\ cache[t].type = "memory" THEN cache[t].length ELSE 0
  BY FreesIs DEF CacheOwned, Opening
<1>6. CacheOwned(t, "map") = IF pc[t] \notin Opening /\ cache[t].type = "map"
         THEN cache[t].length ELSE 0
  BY FreesIs DEF CacheOwned, Opening
<1>7. CacheOwned(t, "disk") = IF pc[t] \notin Opening
         /\ cache[t].type \in {"disk", "map"}
         /\ cache[t].name = "temp" THEN cache[t].length ELSE 0
  BY FreesIs DEF CacheOwned, Opening
<1>8. CacheOwned(t, "file") = IF cache[t].open THEN 1 ELSE 0
  BY DEF CacheOwned, Opening
<1> QED BY <1>1, <1>2, <1>3, <1>4, <1>5, <1>6, <1>7, <1>8

(* The books of a cache after the step.                                    *)
LEMMA CacheBooksNext ==
    ASSUME NEW t \in Threads
    PROVE  /\ CacheCounted(t, "memory")' =
                 IF pc'[t] \notin Opening /\ cache'[t].type = "memory"
                    THEN cache'[t].length ELSE 0
           /\ CacheCounted(t, "map")' =
                 IF pc'[t] \notin Opening /\ cache'[t].type = "map"
                    THEN cache'[t].length ELSE 0
           /\ CacheCounted(t, "disk")' = IF pc'[t] \in {"create", "extend"}
                    \/ (pc'[t] \notin Opening /\ cache'[t].type \in {"disk", "map"})
                    THEN cache'[t].length ELSE 0
           /\ CacheCounted(t, "file")' = IF cache'[t].open THEN 1 ELSE 0
           /\ CacheOwned(t, "memory")' =
                 IF pc'[t] \notin Opening /\ cache'[t].type = "memory"
                    THEN cache'[t].length ELSE 0
           /\ CacheOwned(t, "map")' =
                 IF pc'[t] \notin Opening /\ cache'[t].type = "map"
                    THEN cache'[t].length ELSE 0
           /\ CacheOwned(t, "disk")' =
                 IF pc'[t] \notin Opening /\ cache'[t].type \in {"disk", "map"}
                    /\ cache'[t].name = "temp" THEN cache'[t].length ELSE 0
           /\ CacheOwned(t, "file")' = IF cache'[t].open THEN 1 ELSE 0
<1>1. CacheCounted(t, "memory")' = IF pc'[t] \notin Opening
         /\ cache'[t].type = "memory" THEN cache'[t].length ELSE 0
  BY HoldsIs DEF CacheCounted, Opening
<1>2. CacheCounted(t, "map")' = IF pc'[t] \notin Opening
         /\ cache'[t].type = "map" THEN cache'[t].length ELSE 0
  BY HoldsIs DEF CacheCounted, Opening
<1>3. CacheCounted(t, "disk")' = IF pc'[t] \in {"create", "extend"} \/ (pc'[t] \notin Opening /\ cache'[t].type \in {"disk", "map"}) THEN cache'[t].length ELSE 0
  <2>1. Holds(cache'[t])["disk"] = IF cache'[t].type \in {"disk", "map"}
           THEN cache'[t].length ELSE 0
    BY HoldsIs
  <2> QED BY <2>1 DEF CacheCounted, Opening
<1>4. CacheCounted(t, "file")' = IF cache'[t].open THEN 1 ELSE 0
  BY DEF CacheCounted, Opening
<1>5. CacheOwned(t, "memory")' = IF pc'[t] \notin Opening
         /\ cache'[t].type = "memory" THEN cache'[t].length ELSE 0
  BY FreesIs DEF CacheOwned, Opening
<1>6. CacheOwned(t, "map")' = IF pc'[t] \notin Opening
         /\ cache'[t].type = "map" THEN cache'[t].length ELSE 0
  BY FreesIs DEF CacheOwned, Opening
<1>7. CacheOwned(t, "disk")' = IF pc'[t] \notin Opening
         /\ cache'[t].type \in {"disk", "map"}
         /\ cache'[t].name = "temp" THEN cache'[t].length ELSE 0
  BY FreesIs DEF CacheOwned, Opening
<1>8. CacheOwned(t, "file")' = IF cache'[t].open THEN 1 ELSE 0
  BY DEF CacheOwned, Opening
<1> QED BY <1>1, <1>2, <1>3, <1>4, <1>5, <1>6, <1>7, <1>8

(* The books of the old pixels before the step.                            *)
LEMMA SourceBooks ==
    ASSUME NEW t \in Threads
    PROVE  /\ SourceCounted(t, "memory") =
                 IF pc[t] # "finish" /\ source[t].type = "memory"
                    THEN source[t].length ELSE 0
           /\ SourceCounted(t, "map") =
                 IF pc[t] # "finish" /\ source[t].type = "map"
                    THEN source[t].length ELSE 0
           /\ SourceCounted(t, "disk") =
                 IF pc[t] # "finish" /\ source[t].type \in {"disk", "map"}
                    THEN source[t].length ELSE 0
           /\ SourceCounted(t, "file") =
                 IF pc[t] # "finish" /\ source[t].type \in {"disk", "map"}
                    /\ source[t].open THEN 1 ELSE 0
           /\ SourceOwned(t, "memory") =
                 IF pc[t] # "finish" /\ source[t].type = "memory"
                    THEN source[t].length ELSE 0
           /\ SourceOwned(t, "map") =
                 IF pc[t] # "finish" /\ source[t].type = "map"
                    THEN source[t].length ELSE 0
           /\ SourceOwned(t, "disk") =
                 IF pc[t] # "finish" /\ source[t].type \in {"disk", "map"}
                    /\ source[t].name = "temp"
                    THEN source[t].length ELSE 0
           /\ SourceOwned(t, "file") =
                 IF pc[t] # "finish" /\ source[t].type \in {"disk", "map"}
                    /\ source[t].open THEN 1 ELSE 0
<1>1. SourceCounted(t, "memory") = IF pc[t] # "finish"
         /\ source[t].type = "memory" THEN source[t].length ELSE 0
  BY HoldsIs DEF SourceCounted
<1>2. SourceCounted(t, "map") = IF pc[t] # "finish" /\ source[t].type = "map"
         THEN source[t].length ELSE 0
  BY HoldsIs DEF SourceCounted
<1>3. SourceCounted(t, "disk") = IF pc[t] # "finish"
         /\ source[t].type \in {"disk", "map"} THEN source[t].length ELSE 0
  BY HoldsIs DEF SourceCounted
<1>4. SourceCounted(t, "file") = IF pc[t] # "finish"
         /\ source[t].type \in {"disk", "map"} /\ source[t].open THEN 1 ELSE 0
  BY HoldsIs DEF SourceCounted
<1>5. SourceOwned(t, "memory") = IF pc[t] # "finish"
         /\ source[t].type = "memory" THEN source[t].length ELSE 0
  BY FreesIs DEF SourceOwned
<1>6. SourceOwned(t, "map") = IF pc[t] # "finish" /\ source[t].type = "map"
         THEN source[t].length ELSE 0
  BY FreesIs DEF SourceOwned
<1>7. SourceOwned(t, "disk") = IF pc[t] # "finish"
         /\ source[t].type \in {"disk", "map"}
         /\ source[t].name = "temp" THEN source[t].length ELSE 0
  BY FreesIs DEF SourceOwned
<1>8. SourceOwned(t, "file") = IF pc[t] # "finish"
         /\ source[t].type \in {"disk", "map"} /\ source[t].open THEN 1 ELSE 0
  BY FreesIs DEF SourceOwned
<1> QED BY <1>1, <1>2, <1>3, <1>4, <1>5, <1>6, <1>7, <1>8

(* The books of the old pixels after the step.                             *)
LEMMA SourceBooksNext ==
    ASSUME NEW t \in Threads
    PROVE  /\ SourceCounted(t, "memory")' =
                 IF pc'[t] # "finish" /\ source'[t].type = "memory"
                    THEN source'[t].length ELSE 0
           /\ SourceCounted(t, "map")' =
                 IF pc'[t] # "finish" /\ source'[t].type = "map"
                    THEN source'[t].length ELSE 0
           /\ SourceCounted(t, "disk")' =
                 IF pc'[t] # "finish" /\ source'[t].type \in {"disk", "map"}
                    THEN source'[t].length ELSE 0
           /\ SourceCounted(t, "file")' =
                 IF pc'[t] # "finish" /\ source'[t].type \in {"disk", "map"}
                    /\ source'[t].open THEN 1 ELSE 0
           /\ SourceOwned(t, "memory")' =
                 IF pc'[t] # "finish" /\ source'[t].type = "memory"
                    THEN source'[t].length ELSE 0
           /\ SourceOwned(t, "map")' =
                 IF pc'[t] # "finish" /\ source'[t].type = "map"
                    THEN source'[t].length ELSE 0
           /\ SourceOwned(t, "disk")' =
                 IF pc'[t] # "finish" /\ source'[t].type \in {"disk", "map"}
                    /\ source'[t].name = "temp"
                    THEN source'[t].length ELSE 0
           /\ SourceOwned(t, "file")' =
                 IF pc'[t] # "finish" /\ source'[t].type \in {"disk", "map"}
                    /\ source'[t].open THEN 1 ELSE 0
<1>1. SourceCounted(t, "memory")' = IF pc'[t] # "finish"
         /\ source'[t].type = "memory" THEN source'[t].length ELSE 0
  BY HoldsIs DEF SourceCounted
<1>2. SourceCounted(t, "map")' = IF pc'[t] # "finish"
         /\ source'[t].type = "map" THEN source'[t].length ELSE 0
  BY HoldsIs DEF SourceCounted
<1>3. SourceCounted(t, "disk")' = IF pc'[t] # "finish"
         /\ source'[t].type \in {"disk", "map"} THEN source'[t].length ELSE 0
  BY HoldsIs DEF SourceCounted
<1>4. SourceCounted(t, "file")' = IF pc'[t] # "finish"
         /\ source'[t].type \in {"disk", "map"}
         /\ source'[t].open THEN 1 ELSE 0
  BY HoldsIs DEF SourceCounted
<1>5. SourceOwned(t, "memory")' = IF pc'[t] # "finish"
         /\ source'[t].type = "memory" THEN source'[t].length ELSE 0
  BY FreesIs DEF SourceOwned
<1>6. SourceOwned(t, "map")' = IF pc'[t] # "finish" /\ source'[t].type = "map"
         THEN source'[t].length ELSE 0
  BY FreesIs DEF SourceOwned
<1>7. SourceOwned(t, "disk")' = IF pc'[t] # "finish"
         /\ source'[t].type \in {"disk", "map"}
         /\ source'[t].name = "temp" THEN source'[t].length ELSE 0
  BY FreesIs DEF SourceOwned
<1>8. SourceOwned(t, "file")' = IF pc'[t] # "finish"
         /\ source'[t].type \in {"disk", "map"}
         /\ source'[t].open THEN 1 ELSE 0
  BY FreesIs DEF SourceOwned
<1> QED BY <1>1, <1>2, <1>3, <1>4, <1>5, <1>6, <1>7, <1>8

(* The books of a matrix before the step.                                  *)
LEMMA MatrixBooks ==
    ASSUME NEW t \in Threads
    PROVE  /\ MatrixCounted(t, "memory") =
                 IF pc[t] \notin {"m_memory", "m_disk"}
                    /\ matrix[t].type = "memory"
                    THEN matrix[t].length ELSE 0
           /\ MatrixCounted(t, "map") =
                 IF pc[t] \notin {"m_memory", "m_disk"}
                    /\ matrix[t].type = "map"
                    THEN matrix[t].length ELSE 0
           /\ MatrixCounted(t, "disk") =
                 IF pc[t] \notin {"m_memory", "m_disk"}
                    /\ matrix[t].type \in {"disk", "map"}
                    THEN matrix[t].length ELSE 0
           /\ MatrixCounted(t, "file") = 0
           /\ MatrixOwned(t, "memory") =
                 IF pc[t] \notin {"m_memory", "m_disk"}
                    /\ matrix[t].type = "memory" /\ matrix[t].elements
                    THEN matrix[t].length ELSE 0
           /\ MatrixOwned(t, "map") =
                 IF pc[t] \notin {"m_memory", "m_disk"}
                    /\ matrix[t].type = "map"
                    THEN matrix[t].length ELSE 0
           /\ MatrixOwned(t, "disk") =
                 IF pc[t] \notin {"m_memory", "m_disk"}
                    /\ matrix[t].type \in {"disk", "map"} /\ matrix[t].open
                    THEN matrix[t].length ELSE 0
           /\ MatrixOwned(t, "file") = 0
<1>1. MatrixCounted(t, "memory") = IF pc[t] \notin {"m_memory", "m_disk"}
         /\ matrix[t].type = "memory" THEN matrix[t].length ELSE 0
  BY MatrixHoldsIs DEF MatrixCounted
<1>2. MatrixCounted(t, "map") = IF pc[t] \notin {"m_memory", "m_disk"}
         /\ matrix[t].type = "map" THEN matrix[t].length ELSE 0
  BY MatrixHoldsIs DEF MatrixCounted
<1>3. MatrixCounted(t, "disk") = IF pc[t] \notin {"m_memory", "m_disk"}
         /\ matrix[t].type \in {"disk", "map"} THEN matrix[t].length ELSE 0
  BY MatrixHoldsIs DEF MatrixCounted
<1>4. MatrixCounted(t, "file") = 0
  BY MatrixHoldsIs DEF MatrixCounted
<1>5. MatrixOwned(t, "memory") = IF pc[t] \notin {"m_memory", "m_disk"}
         /\ matrix[t].type = "memory"
         /\ matrix[t].elements THEN matrix[t].length ELSE 0
  BY MatrixFreesIs DEF MatrixOwned
<1>6. MatrixOwned(t, "map") = IF pc[t] \notin {"m_memory", "m_disk"}
         /\ matrix[t].type = "map" THEN matrix[t].length ELSE 0
  BY MatrixFreesIs DEF MatrixOwned
<1>7. MatrixOwned(t, "disk") = IF pc[t] \notin {"m_memory", "m_disk"}
         /\ matrix[t].type \in {"disk", "map"}
         /\ matrix[t].open THEN matrix[t].length ELSE 0
  BY MatrixFreesIs DEF MatrixOwned
<1>8. MatrixOwned(t, "file") = 0
  BY MatrixFreesIs DEF MatrixOwned
<1> QED BY <1>1, <1>2, <1>3, <1>4, <1>5, <1>6, <1>7, <1>8

(* The books of a matrix after the step.                                   *)
LEMMA MatrixBooksNext ==
    ASSUME NEW t \in Threads
    PROVE  /\ MatrixCounted(t, "memory")' =
                 IF pc'[t] \notin {"m_memory", "m_disk"}
                    /\ matrix'[t].type = "memory"
                    THEN matrix'[t].length ELSE 0
           /\ MatrixCounted(t, "map")' =
                 IF pc'[t] \notin {"m_memory", "m_disk"}
                    /\ matrix'[t].type = "map"
                    THEN matrix'[t].length ELSE 0
           /\ MatrixCounted(t, "disk")' =
                 IF pc'[t] \notin {"m_memory", "m_disk"}
                    /\ matrix'[t].type \in {"disk", "map"}
                    THEN matrix'[t].length ELSE 0
           /\ MatrixCounted(t, "file")' = 0
           /\ MatrixOwned(t, "memory")' =
                 IF pc'[t] \notin {"m_memory", "m_disk"}
                    /\ matrix'[t].type = "memory" /\ matrix'[t].elements
                    THEN matrix'[t].length ELSE 0
           /\ MatrixOwned(t, "map")' =
                 IF pc'[t] \notin {"m_memory", "m_disk"}
                    /\ matrix'[t].type = "map"
                    THEN matrix'[t].length ELSE 0
           /\ MatrixOwned(t, "disk")' =
                 IF pc'[t] \notin {"m_memory", "m_disk"}
                    /\ matrix'[t].type \in {"disk", "map"} /\ matrix'[t].open
                    THEN matrix'[t].length ELSE 0
           /\ MatrixOwned(t, "file")' = 0
<1>1. MatrixCounted(t, "memory")' = IF pc'[t] \notin {"m_memory", "m_disk"}
         /\ matrix'[t].type = "memory" THEN matrix'[t].length ELSE 0
  BY MatrixHoldsIs DEF MatrixCounted
<1>2. MatrixCounted(t, "map")' = IF pc'[t] \notin {"m_memory", "m_disk"}
         /\ matrix'[t].type = "map" THEN matrix'[t].length ELSE 0
  BY MatrixHoldsIs DEF MatrixCounted
<1>3. MatrixCounted(t, "disk")' = IF pc'[t] \notin {"m_memory", "m_disk"}
         /\ matrix'[t].type \in {"disk", "map"} THEN matrix'[t].length ELSE 0
  BY MatrixHoldsIs DEF MatrixCounted
<1>4. MatrixCounted(t, "file")' = 0
  BY MatrixHoldsIs DEF MatrixCounted
<1>5. MatrixOwned(t, "memory")' = IF pc'[t] \notin {"m_memory", "m_disk"}
         /\ matrix'[t].type = "memory"
         /\ matrix'[t].elements THEN matrix'[t].length ELSE 0
  BY MatrixFreesIs DEF MatrixOwned
<1>6. MatrixOwned(t, "map")' = IF pc'[t] \notin {"m_memory", "m_disk"}
         /\ matrix'[t].type = "map" THEN matrix'[t].length ELSE 0
  BY MatrixFreesIs DEF MatrixOwned
<1>7. MatrixOwned(t, "disk")' = IF pc'[t] \notin {"m_memory", "m_disk"}
         /\ matrix'[t].type \in {"disk", "map"}
         /\ matrix'[t].open THEN matrix'[t].length ELSE 0
  BY MatrixFreesIs DEF MatrixOwned
<1>8. MatrixOwned(t, "file")' = 0
  BY MatrixFreesIs DEF MatrixOwned
<1> QED BY <1>1, <1>2, <1>3, <1>4, <1>5, <1>6, <1>7, <1>8

-----------------------------------------------------------------------------
(* A step of thread t, from what it does to the counters and to t          *)

(* The types of what belongs to thread t, and its part of the invariant.   *)
Facts(t) ==
    /\ cache[t] \in CacheInfo /\ source[t] \in CacheInfo /\ matrix[t] \in Matrix
    /\ pc[t] \in PC /\ copied[t] \in BOOLEAN
    /\ CacheInv(t) /\ SourceInv(t) /\ MatrixInv(t)

(* The invariant, as far as it is about one thread.                        *)
LEMMA FactsHold == ASSUME IInv, NEW t \in Threads PROVE Facts(t) /\ TypeOK
BY DEF IInv, TypeOK, ControlInv, Facts

(* Account changes one counter and one amount of the thread.               *)
LEMMA AccountIs ==
    ASSUME TypeOK, NEW t \in Threads, NEW r \in Resource, NEW m \in Int, NEW n \in Int,
           Account(t, r, m, n)
    PROVE  /\ used' \in [Resource -> Int] /\ real'[t] \in [Resource -> Int]
           /\ real' = [real EXCEPT ![t] = real'[t]]
           /\ \A q \in Resource :
                 /\ used'[q] = IF q = r THEN used[q] + m ELSE used[q]
                 /\ real'[t][q] = IF q = r THEN real[t][q] + n ELSE real[t][q]
<1>1. /\ used \in [Resource -> Int] /\ real \in [Threads -> [Resource -> Nat]]
      /\ real[t] \in [Resource -> Nat]
  BY DEF TypeOK
<1>2. real'[t] = [real[t] EXCEPT ![r] = @ + n] /\ real' = [real EXCEPT ![t] = real'[t]]
  BY <1>1 DEF Account
<1>3. used' = [used EXCEPT ![r] = @ + m]
  BY DEF Account
<1> QED BY <1>1, <1>2, <1>3

(* A step that leaves the counters alone.                                  *)
LEMMA UnchangedIs ==
    ASSUME TypeOK, NEW t \in Threads, UNCHANGED <<used, real>>
    PROVE  /\ used' \in [Resource -> Int] /\ real'[t] \in [Resource -> Int]
           /\ real' = [real EXCEPT ![t] = real'[t]]
           /\ \A q \in Resource : used'[q] = used[q] /\ real'[t][q] = real[t][q]
<1>1. /\ used \in [Resource -> Int] /\ real \in [Threads -> [Resource -> Nat]]
      /\ real[t] \in [Resource -> Nat] /\ used' = used /\ real' = real
  BY DEF TypeOK
<1> QED BY <1>1

(* RelinquishPixelCachePixels takes what the cache holds from every        *)
(* counter.                                                                *)
LEMMA RelinquishIs ==
    ASSUME TypeOK, NEW t \in Threads, NEW c \in CacheInfo, RelinquishPixelCachePixels(t, c)
    PROVE  /\ used' \in [Resource -> Int] /\ real'[t] \in [Resource -> Int]
           /\ real' = [real EXCEPT ![t] = real'[t]]
           /\ \A q \in Resource : /\ used'[q] = used[q] - Holds(c)[q]
                                  /\ real'[t][q] = real[t][q] - Frees(c)[q]
<1>1. /\ used \in [Resource -> Int] /\ real \in [Threads -> [Resource -> Nat]]
      /\ real[t] \in [Resource -> Nat]
  BY DEF TypeOK
<1>2. \A q \in Resource : Holds(c)[q] \in Int /\ Frees(c)[q] \in Int
  BY RecordTypes, HoldsType
<1>3. /\ real'[t] = [q \in Resource |-> real[t][q] - Frees(c)[q]]
      /\ real' = [real EXCEPT ![t] = real'[t]]
  BY <1>1 DEF RelinquishPixelCachePixels
<1>4. used' = [q \in Resource |-> used[q] - Holds(c)[q]]
  BY DEF RelinquishPixelCachePixels
<1> QED BY <1>1, <1>2, <1>3, <1>4

(* A map takes its length and gives the descriptor back.                   *)
LEMMA MapIs ==
    ASSUME TypeOK, NEW t \in Threads, NEW n \in Int,
           used' = [used EXCEPT !["map"] = @ + n, !["file"] = @ - 1],
           real' = [real EXCEPT ![t]["map"] = @ + n, ![t]["file"] = @ - 1]
    PROVE  /\ used' \in [Resource -> Int] /\ real'[t] \in [Resource -> Int]
           /\ real' = [real EXCEPT ![t] = real'[t]]
           /\ \A q \in Resource :
                 /\ used'[q] = IF q = "map" THEN used[q] + n
                               ELSE IF q = "file" THEN used[q] - 1 ELSE used[q]
                 /\ real'[t][q] = IF q = "map" THEN real[t][q] + n
                                  ELSE IF q = "file" THEN real[t][q] - 1 ELSE real[t][q]
<1>1. /\ used \in [Resource -> Int] /\ real \in [Threads -> [Resource -> Nat]]
      /\ real[t] \in [Resource -> Nat]
  BY DEF TypeOK
<1>2. real'[t] = [real[t] EXCEPT !["map"] = @ + n, !["file"] = @ - 1]
  BY <1>1
<1>3. real' = [real EXCEPT ![t] = real'[t]]
  BY <1>1
<1>4. /\ used' \in [Resource -> Int]
      /\ \A q \in Resource : used'[q] = IF q = "map" THEN used[q] + n
                               ELSE IF q = "file" THEN used[q] - 1 ELSE used[q]
  BY <1>1 DEF Resource
<1>5. /\ real'[t] \in [Resource -> Int]
      /\ \A q \in Resource : real'[t][q] = IF q = "map" THEN real[t][q] + n
                                  ELSE IF q = "file" THEN real[t][q] - 1 ELSE real[t][q]
  BY <1>1, <1>2 DEF Resource
<1> QED BY <1>3, <1>4, <1>5

(* The books of one resource and one thread: what Balanced asks of it.     *)
BalancedAt(t, r) ==
    LET d == used'[r] - used[r]
        e == real'[t][r] - real[t][r]
        counts == Counted(t, r)' - Counted(t, r)
        owns == Owned(t, r)' - Owned(t, r) IN
    /\ "m_disk" \notin failed' => d >= e + counts - owns
    /\ e >= owns
    /\ Clean' => d = e + counts - owns /\ e = owns

(* How the parts of the books move, in counters and in what is held.       *)
CacheMoves(t, r, x, y) == /\ CacheCounted(t, r)' = CacheCounted(t, r) + x
                          /\ CacheOwned(t, r)' = CacheOwned(t, r) + y
SourceMoves(t, r, x, y) == /\ SourceCounted(t, r)' = SourceCounted(t, r) + x
                           /\ SourceOwned(t, r)' = SourceOwned(t, r) + y
MatrixMoves(t, r, x, y) == /\ MatrixCounted(t, r)' = MatrixCounted(t, r) + x
                           /\ MatrixOwned(t, r)' = MatrixOwned(t, r) + y

(* The parts of the books are numbers.                                     *)
LEMMA PartTypes ==
    ASSUME NEW t \in Threads, Facts(t), NEW r \in Resource
    PROVE  /\ CacheCounted(t, r) \in Nat /\ CacheOwned(t, r) \in Nat
           /\ SourceCounted(t, r) \in Nat /\ SourceOwned(t, r) \in Nat
           /\ MatrixCounted(t, r) \in Nat /\ MatrixOwned(t, r) \in Nat
<1>1. /\ cache[t].length \in Nat /\ source[t].length \in Nat /\ matrix[t].length \in Nat
      /\ cache[t].open \in BOOLEAN
  BY RecordTypes DEF Facts
<1>2. CacheCounted(t, r) \in Nat /\ CacheOwned(t, r) \in Nat
  BY <1>1, HoldsType DEF CacheCounted, CacheOwned
<1>3. SourceCounted(t, r) \in Nat /\ SourceOwned(t, r) \in Nat
  BY <1>1, HoldsType DEF SourceCounted, SourceOwned
<1>4. MatrixCounted(t, r) \in Nat /\ MatrixOwned(t, r) \in Nat
  BY <1>1, MatrixHoldsType DEF MatrixCounted, MatrixOwned
<1> QED BY <1>2, <1>3, <1>4

(* Balanced from the parts: the counter moves by d, what is really held by *)
(* e, and the books by x, x2, x3 and y, y2, y3.                            *)
LEMMA PartsBalance ==
    ASSUME IInv, NEW t \in Threads, NEW r \in Resource,
           NEW d \in Int, NEW e \in Int, NEW x \in Int, NEW y \in Int,
           NEW x2 \in Int, NEW y2 \in Int, NEW x3 \in Int, NEW y3 \in Int,
           used'[r] = used[r] + d, real'[t][r] = real[t][r] + e,
           CacheMoves(t, r, x, y), SourceMoves(t, r, x2, y2), MatrixMoves(t, r, x3, y3),
           "m_disk" \notin failed' => d - e >= x + x2 + x3 - y - y2 - y3,
           e >= y + y2 + y3,
           Clean' => d = x + x2 + x3 /\ e = y + y2 + y3
    PROVE  BalancedAt(t, r)
<1>1. Facts(t) /\ used[r] \in Int /\ real[t][r] \in Int
  BY FactsHold DEF TypeOK
<1>2. /\ CacheCounted(t, r) \in Nat /\ CacheOwned(t, r) \in Nat
      /\ SourceCounted(t, r) \in Nat /\ SourceOwned(t, r) \in Nat
      /\ MatrixCounted(t, r) \in Nat /\ MatrixOwned(t, r) \in Nat
  BY <1>1, PartTypes
<1>3. Counted(t, r)' - Counted(t, r) = x + x2 + x3
  BY <1>2 DEF Counted, CacheMoves, SourceMoves, MatrixMoves
<1>4. Owned(t, r)' - Owned(t, r) = y + y2 + y3
  BY <1>2 DEF Owned, CacheMoves, SourceMoves, MatrixMoves
<1>5. used'[r] - used[r] = d /\ real'[t][r] - real[t][r] = e
  BY <1>1
<1> QED BY <1>3, <1>4, <1>5 DEF BalancedAt

BoundedAt(r) ==
    r = "file" \/ used'[r] <= used[r] \/ limit[r] = Infinity \/ used'[r] < limit[r]

(* What each action has to show: the types of the thread, its part of the  *)
(* invariant, and its books.                                               *)
LEMMA ThreadStep ==
    ASSUME IInv, NEW t \in Threads, Moves(t),
           used' \in [Resource -> Int], real'[t] \in [Resource -> Int],
           Facts(t)',
           failed \subseteq failed', failed' \subseteq AllFailures \union Refusals,
           calls' \in 0..MaxCalls,
           \A r \in Resource : BalancedAt(t, r) /\ BoundedAt(r)
    PROVE  IInv'
<1>1. ASSUME NEW r \in Resource PROVE real'[t][r] >= 0
  <2>1. /\ cache'[t].length \in Nat /\ source'[t].length \in Nat /\ matrix'[t].length \in Nat
        /\ cache'[t].open \in BOOLEAN
    BY RecordTypes DEF Facts
  <2>2. CacheOwned(t, r)' \in Nat
    BY <2>1, HoldsType DEF CacheOwned
  <2>3. SourceOwned(t, r)' \in Nat
    BY <2>1, HoldsType DEF SourceOwned
  <2>4. MatrixOwned(t, r)' \in Nat
    BY <2>1, MatrixHoldsType DEF MatrixOwned
  <2>5. Owned(t, r)' \in Nat
    BY <2>2, <2>3, <2>4 DEF Owned
  <2>6. real'[t][r] - real[t][r] >= Owned(t, r)' - Owned(t, r)
    BY DEF BalancedAt
  <2>7. real[t][r] >= Owned(t, r) /\ real[t][r] \in Nat /\ Owned(t, r) \in Nat
    BY AmountType DEF IInv, OwnedInv
  <2> QED BY <2>5, <2>6, <2>7
<1>2. real'[t] \in [Resource -> Nat]
  BY <1>1
<1>3. TypeOK'
  BY <1>2, TypesMove DEF IInv, Facts
<1>4. Balanced(t)
  <2> SUFFICES ASSUME NEW r \in Resource
      PROVE  /\ "m_disk" \notin failed' =>
                   used'[r] - used[r] >= Amount(t, r)' - Amount(t, r)
             /\ real'[t][r] - Owned(t, r)' >= real[t][r] - Owned(t, r)
             /\ Clean' => /\ used'[r] - used[r] = Amount(t, r)' - Amount(t, r)
                          /\ real'[t][r] - Owned(t, r)' = real[t][r] - Owned(t, r)
    BY DEF Balanced
  <2>1. /\ Counted(t, r) \in Nat /\ Owned(t, r) \in Nat /\ real[t][r] \in Nat
        /\ Counted(t, r)' \in Nat /\ Owned(t, r)' \in Nat /\ real'[t][r] \in Nat
    BY <1>3, AmountType, AmountTypeNext DEF IInv
  <2>2. used[r] \in Int /\ used'[r] \in Int
    BY DEF IInv, TypeOK
  <2> QED BY <2>1, <2>2 DEF BalancedAt, Amount
<1>5. Bounded
  BY DEF Bounded, BoundedAt
<1> QED BY <1>3, <1>4, <1>5, StepKeeps DEF Facts

(* What does not move: the matrix, while pc names nothing of matrices, and *)
(* the old pixels, when a successful attempt goes on to them or past them. *)
LEMMA MatrixStays ==
    ASSUME NEW t \in Threads, Facts(t), UNCHANGED matrix[t], NEW r \in Resource,
           pc[t] \notin {"m_memory", "m_disk"}, pc'[t] \notin {"m_memory", "m_disk"}
    PROVE  MatrixMoves(t, r, 0, 0)
BY PartTypes DEF MatrixMoves, MatrixCounted, MatrixOwned

(* The old pixels stay while the call has not finished.                    *)
LEMMA SourceStays ==
    ASSUME NEW t \in Threads, Facts(t), UNCHANGED source[t], NEW r \in Resource,
           pc[t] # "finish", pc'[t] # "finish"
    PROVE  SourceMoves(t, r, 0, 0)
BY PartTypes DEF SourceMoves, SourceCounted, SourceOwned

(* The old pixels stay when no descriptor is opened for them.              *)
LEMMA SourceSame ==
    ASSUME NEW t \in Threads, Facts(t), NEW r \in Resource,
           pc[t] # "finish", pc'[t] # "finish",
           source'[t].type = source[t].type, source'[t].length = source[t].length,
           source'[t].name = source[t].name, ~source[t].open, ~source'[t].open
    PROVE  SourceMoves(t, r, 0, 0)
<1>1. \A q \in {"memory", "map", "disk", "file"} :
         SourceCounted(t, q)' = SourceCounted(t, q) /\ SourceOwned(t, q)' = SourceOwned(t, q)
  BY SourceBooks, SourceBooksNext
<1>2. SourceCounted(t, r)' = SourceCounted(t, r) /\ SourceOwned(t, r)' = SourceOwned(t, r)
  BY <1>1 DEF Resource
<1> QED BY <1>2, PartTypes DEF SourceMoves

(* The old pixels stay when a successful attempt goes on to copy them, or  *)
(* past them when there are none.                                          *)
LEMMA SourceStaysAfterOpen ==
    ASSUME NEW t \in Threads, Facts(t), UNCHANGED source[t], NEW r \in Resource,
           pc[t] \in Opening \union {"map"},
           pc'[t] = IF source[t].known /\ cache[t].mode # "read" THEN "copy" ELSE "finish"
    PROVE  SourceMoves(t, r, 0, 0)
<1>1. CASE source[t].known
  <2>1. cache[t].mode # "read"
    BY <1>1 DEF Facts, SourceInv
  <2> QED BY <1>1, <2>1, SourceStays DEF Opening
<1>2. CASE ~source[t].known
  <2>1. Holds(source[t])[r] = 0
    BY <1>2 DEF Facts, SourceInv
  <2>2. Frees(source[t])[r] = 0
    BY <2>1, RecordTypes, HoldsType DEF Facts
  <2>3. pc'[t] = "finish" /\ pc[t] # "finish"
    BY <1>2 DEF Opening
  <2> QED BY <2>1, <2>2, <2>3 DEF SourceMoves, SourceCounted, SourceOwned
<1> QED BY <1>1, <1>2

(* The cache stays when it is not being opened.                            *)
LEMMA CacheStays ==
    ASSUME NEW t \in Threads, Facts(t), UNCHANGED cache[t], NEW r \in Resource,
           pc[t] \notin Opening, pc'[t] \notin Opening
    PROVE  CacheMoves(t, r, 0, 0)
BY PartTypes DEF CacheMoves, CacheCounted, CacheOwned, Opening

(* The cache stays when another attempt is made.                           *)
LEMMA CacheStaysUnopened ==
    ASSUME NEW t \in Threads, Facts(t), UNCHANGED cache[t], NEW r \in Resource,
           pc[t] \in {"memory", "disk"}, pc'[t] \in {"memory", "disk"}
    PROVE  CacheMoves(t, r, 0, 0)
BY PartTypes DEF CacheMoves, CacheCounted, CacheOwned, Opening

(* The cache stays when a map fails: it is on disk.                        *)
LEMMA CacheStaysOpened ==
    ASSUME NEW t \in Threads, Facts(t), UNCHANGED cache[t], NEW r \in Resource,
           pc[t] = "map",
           pc'[t] = IF source[t].known /\ cache[t].mode # "read" THEN "copy" ELSE "finish"
    PROVE  CacheMoves(t, r, 0, 0)
<1>1. pc'[t] \in {"copy", "finish"}
  OBVIOUS
<1>2. pc[t] \notin Opening /\ pc'[t] \notin Opening
  BY <1>1 DEF Opening
<1> QED BY <1>2, CacheStays

(* Only the descriptor moves when a file is opened or closed.              *)
LEMMA CacheReopens ==
    ASSUME NEW t \in Threads, Facts(t), NEW r \in Resource, NEW z \in Int,
           pc[t] \notin Opening, pc'[t] \notin Opening,
           cache'[t].type = cache[t].type, cache'[t].length = cache[t].length,
           cache'[t].name = cache[t].name,
           z = IF r = "file" THEN (IF cache'[t].open THEN 1 ELSE 0)
                                  - (IF cache[t].open THEN 1 ELSE 0) ELSE 0
    PROVE  CacheMoves(t, r, z, z)
<1>1. \A q \in {"memory", "map", "disk"} :
         CacheCounted(t, q)' = CacheCounted(t, q) /\ CacheOwned(t, q)' = CacheOwned(t, q)
  <2>1. CacheCounted(t, "memory")' = CacheCounted(t, "memory") /\ CacheOwned(t, "memory")' = CacheOwned(t, "memory")
    BY CacheBooks, CacheBooksNext DEF Opening
  <2>2. CacheCounted(t, "map")' = CacheCounted(t, "map") /\ CacheOwned(t, "map")' = CacheOwned(t, "map")
    BY CacheBooks, CacheBooksNext DEF Opening
  <2>3. CacheCounted(t, "disk")' = CacheCounted(t, "disk") /\ CacheOwned(t, "disk")' = CacheOwned(t, "disk")
    BY CacheBooks, CacheBooksNext DEF Opening
  <2> QED BY <2>1, <2>2, <2>3
<1>2. CASE r = "file"
  BY <1>2, CacheBooks, CacheBooksNext DEF CacheMoves
<1>3. CASE r # "file"
  <2>1. CacheCounted(t, r)' = CacheCounted(t, r) /\ CacheOwned(t, r)' = CacheOwned(t, r)
    BY <1>1, <1>3 DEF Resource
  <2> QED BY <2>1, <1>3, PartTypes DEF CacheMoves
<1> QED BY <1>2, <1>3

(* A matrix holds nothing until something is granted.                      *)
LEMMA MatrixStaysWanted ==
    ASSUME NEW t \in Threads, NEW r \in Resource,
           pc[t] \in {"m_memory", "m_disk"}, pc'[t] \in {"m_memory", "m_disk"}
    PROVE  MatrixMoves(t, r, 0, 0)
BY DEF MatrixMoves, MatrixCounted, MatrixOwned

(* DestroyMatrixInfo takes what the matrix holds from every counter.       *)
LEMMA MatrixReturnIs ==
    ASSUME TypeOK, NEW t \in Threads, NEW m \in Matrix,
           used' = [r \in Resource |-> used[r] - MatrixHolds(m)[r]],
           real' = [real EXCEPT ![t] = [r \in Resource |-> @[r] - MatrixFrees(m)[r]]]
    PROVE  /\ used' \in [Resource -> Int] /\ real'[t] \in [Resource -> Int]
           /\ real' = [real EXCEPT ![t] = real'[t]]
           /\ \A q \in Resource : /\ used'[q] = used[q] - MatrixHolds(m)[q]
                                  /\ real'[t][q] = real[t][q] - MatrixFrees(m)[q]
<1>1. /\ used \in [Resource -> Int] /\ real \in [Threads -> [Resource -> Nat]]
      /\ real[t] \in [Resource -> Nat]
  BY DEF TypeOK
<1>2. \A q \in Resource : MatrixHolds(m)[q] \in Int /\ MatrixFrees(m)[q] \in Int
  BY RecordTypes, MatrixHoldsType
<1>3. /\ real'[t] = [q \in Resource |-> real[t][q] - MatrixFrees(m)[q]]
      /\ real' = [real EXCEPT ![t] = real'[t]]
  BY <1>1
<1> QED BY <1>1, <1>2, <1>3

-----------------------------------------------------------------------------
(* The actions                                                             *)

(* TryMemory: granted and allocated; granted but not allocated, which      *)
(* leaves the counter too high; refused.                                   *)
LEMMA TryMemoryStep ==
    ASSUME IInv, NEW t \in Threads, TryMemory(t)
    PROVE  IInv'
<1> DEFINE n == cache[t].length
<1>1. Moves(t)
  BY FactsHold
  DEF Moves, TypeOK, TryMemory, Account, Goto, Become, AfterOpen, Fails, Note,
      GiveUp
<1>2. /\ failed \subseteq failed'
      /\ failed' \subseteq AllFailures \union Refusals
      /\ calls' \in 0..MaxCalls
  BY FactsHold
  DEF TypeOK, TryMemory, AllFailures, Refusals, Account, Goto, Become,
      AfterOpen, Fails, Note, GiveUp
<1>3. /\ Facts(t) /\ used \in [Resource -> Int]
      /\ real[t] \in [Resource -> Nat]
      /\ pc[t] = "memory" /\ UNCHANGED <<source[t], matrix[t], copied[t]>>
  BY FactsHold
  DEF TypeOK, TryMemory, Account, Goto, Become, AfterOpen, Fails, Note, GiveUp
<1>4. CASE /\ Granted("memory", n)
           /\ Account(t, "memory", n, n)
           /\ Become(t, "memory")
           /\ Goto(t, AfterOpen(t))
           /\ UNCHANGED failed
  <2>1. /\ used' \in [Resource -> Int] /\ real'[t] \in [Resource -> Int]
        /\ \A q \in Resource :
              used'[q] = IF q = "memory" THEN used[q] + n ELSE used[q]
        /\ \A q \in Resource :
              real'[t][q] = IF q = "memory" THEN real[t][q] + n ELSE real[t][q]
    BY <1>4, <1>3, AccountIs, RecordTypes, FactsHold DEF Facts, TypeOK, Resource
  <2>2. /\ cache'[t] \in CacheInfo /\ cache'[t].type = "memory"
        /\ cache'[t].length = cache[t].length /\ cache'[t].open = cache[t].open
        /\ cache'[t].name = cache[t].name /\ cache'[t].mode = cache[t].mode
        /\ cache'[t].known = cache[t].known
    <3>1. cache'[t] = Typed(cache[t], "memory")
      BY <1>4, FactsHold DEF TypeOK, Typed, Become
    <3>2. cache[t] \in CacheInfo /\ "memory" \in CacheType
      BY <1>4, <1>3 DEF Facts, CacheType
    <3> QED BY <3>1, <3>2, WithType
  <2>3. /\ pc'[t] = (IF source[t].known /\ cache[t].mode # "read" THEN "copy"
              ELSE "finish")
    BY <1>4, FactsHold DEF TypeOK, Goto, AfterOpen
  <2>4. /\ UNCHANGED failed /\ Granted("memory", n)
    BY <1>4
  <2>5. /\ ~cache[t].open /\ ~cache'[t].open
    BY <1>4, <1>3, <2>2 DEF Facts, SourceInv
  <2>6. Facts(t)'
    BY <1>2, <1>3, <2>1, <2>2, <2>3, <2>4, <2>5
    DEF Facts, PC, CacheType, CacheInv, SourceInv, MatrixInv, FreshCache,
        NoMatrix, Opening, Settled, PersistPC, MatrixPC
  <2>7. ASSUME NEW r \in Resource PROVE BalancedAt(t, r)
    <3> DEFINE x == IF r = "memory" THEN n ELSE 0
    <3>1. /\ used'[r] = used[r] + x /\ real'[t][r] = real[t][r] + x
          /\ (\A i \in {x, 0} : i \in Int)
      BY <1>3, <2>1, RecordTypes DEF Facts
    <3>2. CacheMoves(t, r, x, x)
      <4>1. CacheCounted(t, r) = 0 /\ CacheOwned(t, r) = 0
        BY <1>3, <2>2, <2>3, <2>4, <2>5, CacheBooks DEF Opening, Resource
      <4>2. CacheCounted(t, r)' = x /\ CacheOwned(t, r)' = x
        BY <2>2, <2>3, <2>4, <2>5, CacheBooksNext DEF Opening, Resource
      <4> QED BY <4>1, <4>2, <3>1 DEF CacheMoves
    <3>3. SourceMoves(t, r, 0, 0)
      BY <1>3, <2>2, <2>3, <2>4, <2>5, SourceStaysAfterOpen DEF Opening
    <3>4. MatrixMoves(t, r, 0, 0)
      BY <1>3, <2>2, <2>3, <2>4, <2>5, MatrixStays
    <3> HIDE DEF x
    <3> QED BY <3>1, <3>2, <3>3, <3>4, PartsBalance
  <2>8. \A r \in Resource : BoundedAt(r)
    BY <1>2, <1>3, <2>1, <2>2, <2>3, <2>4, <2>5, RecordTypes
    DEF BoundedAt, Granted, Facts
  <2> QED BY <2>1, <2>6, <2>7, <2>8, <1>1, <1>2, ThreadStep
<1>5. CASE /\ Granted("memory", n) /\ Fails("alloc")
           /\ Account(t, "memory", n, 0)
           /\ Goto(t, "disk")
           /\ UNCHANGED cache
  <2>1. /\ used' \in [Resource -> Int] /\ real'[t] \in [Resource -> Int]
        /\ \A q \in Resource :
              used'[q] = IF q = "memory" THEN used[q] + n ELSE used[q]
        /\ \A q \in Resource : real'[t][q] = real[t][q]
    BY <1>5, <1>3, AccountIs, RecordTypes, FactsHold DEF Facts, TypeOK, Resource
  <2>2. /\ pc'[t] = "disk"
    BY <1>5, FactsHold DEF TypeOK, Goto
  <2>3. /\ UNCHANGED cache[t] /\ ~Clean' /\ Granted("memory", n)
    BY <1>5 DEF Fails, Note, Clean
  <2>4. Facts(t)'
    BY <1>2, <1>3, <2>1, <2>2, <2>3
    DEF Facts, PC, CacheType, CacheInv, SourceInv, MatrixInv, FreshCache,
        NoMatrix, Opening, Settled, PersistPC, MatrixPC
  <2>5. ASSUME NEW r \in Resource PROVE BalancedAt(t, r)
    <3> DEFINE x == IF r = "memory" THEN n ELSE 0
    <3>1. /\ used'[r] = used[r] + x /\ real'[t][r] = real[t][r] + 0
          /\ x \in Nat
          /\ (\A i \in {x, 0} : i \in Int)
      BY <1>3, <2>1, RecordTypes DEF Facts
    <3>2. CacheMoves(t, r, 0, 0)
      BY <1>3, <2>2, <2>3, CacheStaysUnopened DEF Opening
    <3>3. SourceMoves(t, r, 0, 0)
      BY <1>3, <2>2, <2>3, SourceStays DEF Opening
    <3>4. MatrixMoves(t, r, 0, 0)
      BY <1>3, <2>2, <2>3, MatrixStays
    <3> QED BY <3>1, <3>2, <3>3, <3>4, <2>3, PartsBalance
  <2>6. \A r \in Resource : BoundedAt(r)
    BY <1>2, <1>3, <2>1, <2>2, <2>3, RecordTypes DEF BoundedAt, Granted, Facts
  <2> QED BY <2>1, <2>4, <2>5, <2>6, <1>1, <1>2, ThreadStep
<1>6. CASE /\ ~Granted("memory", n)
           /\ Goto(t, "disk")
           /\ UNCHANGED <<used, real, cache, failed>>
  <2>1. /\ used' \in [Resource -> Int] /\ real'[t] \in [Resource -> Int]
        /\ \A q \in Resource : used'[q] = used[q]
        /\ \A q \in Resource : real'[t][q] = real[t][q]
    <3>1. UNCHANGED <<used, real>>
      BY <1>6
    <3> QED BY <3>1, UnchangedIs, FactsHold
  <2>2. /\ pc'[t] = "disk"
    BY <1>6, FactsHold DEF TypeOK, Goto
  <2>3. /\ UNCHANGED <<cache[t], failed>>
    BY <1>6
  <2>4. Facts(t)'
    BY <1>2, <1>3, <2>1, <2>2, <2>3
    DEF Facts, PC, CacheType, CacheInv, SourceInv, MatrixInv, FreshCache,
        NoMatrix, Opening, Settled, PersistPC, MatrixPC
  <2>5. ASSUME NEW r \in Resource PROVE BalancedAt(t, r)
    <3>1. /\ used'[r] = used[r] + 0 /\ real'[t][r] = real[t][r] + 0
          /\ (\A i \in {0} : i \in Int)
      BY <1>3, <2>1, RecordTypes DEF Facts
    <3>2. CacheMoves(t, r, 0, 0)
      BY <1>3, <2>2, <2>3, CacheStaysUnopened DEF Opening
    <3>3. SourceMoves(t, r, 0, 0)
      BY <1>3, <2>2, <2>3, SourceStays DEF Opening
    <3>4. MatrixMoves(t, r, 0, 0)
      BY <1>3, <2>2, <2>3, MatrixStays
    <3> QED BY <3>1, <3>2, <3>3, <3>4, PartsBalance
  <2>6. \A r \in Resource : BoundedAt(r)
    BY <1>2, <1>3, <2>1, <2>2, <2>3, RecordTypes DEF BoundedAt, Granted, Facts
  <2> QED BY <2>1, <2>4, <2>5, <2>6, <1>1, <1>2, ThreadStep
<1> QED BY <1>4, <1>5, <1>6 DEF TryMemory

(* TryDisk: granted; refused but a server is there; refused, and the old   *)
(* pixels of a cache that is reopened are lost.                            *)
LEMMA TryDiskStep ==
    ASSUME IInv, NEW t \in Threads, TryDisk(t)
    PROVE  IInv'
<1> DEFINE n == cache[t].length
<1>1. Moves(t)
  BY FactsHold
  DEF Moves, TypeOK, TryDisk, Account, Goto, Become, AfterOpen, Fails, Note,
      GiveUp
<1>2. /\ failed \subseteq failed'
      /\ failed' \subseteq AllFailures \union Refusals
      /\ calls' \in 0..MaxCalls
  BY FactsHold
  DEF TypeOK, TryDisk, AllFailures, Refusals, Account, Goto, Become, AfterOpen,
      Fails, Note, GiveUp
<1>3. /\ Facts(t) /\ used \in [Resource -> Int]
      /\ real[t] \in [Resource -> Nat]
      /\ pc[t] = "disk" /\ UNCHANGED <<source[t], matrix[t], copied[t]>>
  BY FactsHold
  DEF TypeOK, TryDisk, Account, Goto, Become, AfterOpen, Fails, Note, GiveUp
<1>4. CASE /\ Granted("disk", n)
           /\ Account(t, "disk", n, 0)
           /\ Goto(t, "create")
           /\ UNCHANGED <<cache, failed>>
  <2>1. /\ used' \in [Resource -> Int] /\ real'[t] \in [Resource -> Int]
        /\ \A q \in Resource :
              used'[q] = IF q = "disk" THEN used[q] + n ELSE used[q]
        /\ \A q \in Resource : real'[t][q] = real[t][q]
    BY <1>4, <1>3, AccountIs, RecordTypes, FactsHold DEF Facts, TypeOK, Resource
  <2>2. /\ pc'[t] = "create"
    BY <1>4, FactsHold DEF TypeOK, Goto
  <2>3. /\ UNCHANGED <<cache[t], failed>> /\ Granted("disk", n)
    BY <1>4
  <2>4. /\ cache[t].open \in BOOLEAN
    BY <1>4, <1>3, RecordTypes DEF Facts
  <2>5. Facts(t)'
    BY <1>2, <1>3, <2>1, <2>2, <2>3, <2>4
    DEF Facts, PC, CacheType, CacheInv, SourceInv, MatrixInv, FreshCache,
        NoMatrix, Opening, Settled, PersistPC, MatrixPC
  <2>6. ASSUME NEW r \in Resource PROVE BalancedAt(t, r)
    <3> DEFINE x == IF r = "disk" THEN n ELSE 0
               f == IF r = "file" /\ cache[t].open THEN 1 ELSE 0
    <3>1. /\ used'[r] = used[r] + x /\ real'[t][r] = real[t][r] + 0
          /\ x \in Nat
          /\ f \in Nat /\ (\A i \in {x, 0} : i \in Int)
      BY <1>3, <2>1, RecordTypes DEF Facts
    <3>2. CacheMoves(t, r, x, 0)
      <4>1. CacheCounted(t, r) = f /\ CacheOwned(t, r) = f
        BY <1>3, <2>2, <2>3, <2>4, CacheBooks DEF Opening, Resource
      <4>2. /\ CacheCounted(t, r)' = (IF r = "disk" THEN n ELSE f)
            /\ CacheOwned(t, r)' = f
        BY <2>2, <2>3, <2>4, CacheBooksNext DEF Opening, Resource
      <4> QED BY <4>1, <4>2, <3>1 DEF CacheMoves
    <3>3. SourceMoves(t, r, 0, 0)
      BY <1>3, <2>2, <2>3, <2>4, SourceStays DEF Opening
    <3>4. MatrixMoves(t, r, 0, 0)
      BY <1>3, <2>2, <2>3, <2>4, MatrixStays
    <3> QED BY <3>1, <3>2, <3>3, <3>4, PartsBalance
  <2>7. \A r \in Resource : BoundedAt(r)
    BY <1>2, <1>3, <2>1, <2>2, <2>3, <2>4, RecordTypes
    DEF BoundedAt, Granted, Facts
  <2> QED BY <2>1, <2>5, <2>6, <2>7, <1>1, <1>2, ThreadStep
<1>5. CASE /\ ~Granted("disk", n) /\ HasHosts
           /\ Become(t, "distributed")
           /\ Goto(t, AfterOpen(t))
           /\ UNCHANGED <<used, real, failed>>
  <2>1. /\ used' \in [Resource -> Int] /\ real'[t] \in [Resource -> Int]
        /\ \A q \in Resource : used'[q] = used[q]
        /\ \A q \in Resource : real'[t][q] = real[t][q]
    <3>1. UNCHANGED <<used, real>>
      BY <1>5
    <3> QED BY <3>1, UnchangedIs, FactsHold
  <2>2. /\ cache'[t] \in CacheInfo /\ cache'[t].type = "distributed"
        /\ cache'[t].length = cache[t].length /\ cache'[t].open = cache[t].open
        /\ cache'[t].name = cache[t].name /\ cache'[t].mode = cache[t].mode
        /\ cache'[t].known = cache[t].known
    <3>1. cache'[t] = Typed(cache[t], "distributed")
      BY <1>5, FactsHold DEF TypeOK, Typed, Become
    <3>2. cache[t] \in CacheInfo /\ "distributed" \in CacheType
      BY <1>5, <1>3 DEF Facts, CacheType
    <3> QED BY <3>1, <3>2, WithType
  <2>3. /\ pc'[t] = (IF source[t].known /\ cache[t].mode # "read" THEN "copy"
              ELSE "finish")
    BY <1>5, FactsHold DEF TypeOK, Goto, AfterOpen
  <2>4. /\ UNCHANGED failed
    BY <1>5
  <2>5. /\ cache[t].open \in BOOLEAN
    BY <1>5, <1>3, RecordTypes DEF Facts
  <2>6. Facts(t)'
    BY <1>2, <1>3, <2>1, <2>2, <2>3, <2>4, <2>5
    DEF Facts, PC, CacheType, CacheInv, SourceInv, MatrixInv, FreshCache,
        NoMatrix, Opening, Settled, PersistPC, MatrixPC
  <2>7. ASSUME NEW r \in Resource PROVE BalancedAt(t, r)
    <3> DEFINE f == IF r = "file" /\ cache[t].open THEN 1 ELSE 0
    <3>1. /\ used'[r] = used[r] + 0 /\ real'[t][r] = real[t][r] + 0
          /\ f \in Nat
          /\ (\A i \in {0} : i \in Int)
      BY <1>3, <2>1, RecordTypes DEF Facts
    <3>2. CacheMoves(t, r, 0, 0)
      <4>1. CacheCounted(t, r) = f /\ CacheOwned(t, r) = f
        BY <1>3, <2>2, <2>3, <2>4, <2>5, CacheBooks DEF Opening, Resource
      <4>2. CacheCounted(t, r)' = f /\ CacheOwned(t, r)' = f
        BY <2>2, <2>3, <2>4, <2>5, CacheBooksNext DEF Opening, Resource
      <4> QED BY <4>1, <4>2, <3>1 DEF CacheMoves
    <3>3. SourceMoves(t, r, 0, 0)
      BY <1>3, <2>2, <2>3, <2>4, <2>5, SourceStaysAfterOpen DEF Opening
    <3>4. MatrixMoves(t, r, 0, 0)
      BY <1>3, <2>2, <2>3, <2>4, <2>5, MatrixStays
    <3> QED BY <3>1, <3>2, <3>3, <3>4, PartsBalance
  <2>8. \A r \in Resource : BoundedAt(r)
    BY <1>2, <1>3, <2>1, <2>2, <2>3, <2>4, <2>5, RecordTypes
    DEF BoundedAt, Granted, Facts
  <2> QED BY <2>1, <2>6, <2>7, <2>8, <1>1, <1>2, ThreadStep
<1>6. CASE /\ ~Granted("disk", n)
           /\ GiveUp(t)
           /\ IF source[t].known THEN Note("reopen") ELSE UNCHANGED failed
           /\ UNCHANGED <<used, real>>
  <2>1. /\ used' \in [Resource -> Int] /\ real'[t] \in [Resource -> Int]
        /\ \A q \in Resource : used'[q] = used[q]
        /\ \A q \in Resource : real'[t][q] = real[t][q]
    <3>1. UNCHANGED <<used, real>>
      BY <1>6
    <3> QED BY <3>1, UnchangedIs, FactsHold
  <2>2. /\ cache'[t] \in CacheInfo /\ cache'[t].type = "undefined"
        /\ cache'[t].length = cache[t].length /\ cache'[t].open = cache[t].open
        /\ cache'[t].name = cache[t].name /\ cache'[t].mode = cache[t].mode
        /\ cache'[t].known = cache[t].known
    <3>1. cache'[t] = Typed(cache[t], "undefined")
      BY <1>6, FactsHold DEF TypeOK, Typed, Become, GiveUp
    <3>2. cache[t] \in CacheInfo /\ "undefined" \in CacheType
      BY <1>6, <1>3 DEF Facts, CacheType
    <3> QED BY <3>1, <3>2, WithType
  <2>3. /\ pc'[t] = "finish"
    BY <1>6, FactsHold DEF TypeOK, GiveUp, Goto
  <2>4. /\ Clean' => \A q \in Resource : Holds(source[t])[q] = 0
    BY <1>6, <1>3 DEF Note, Clean, Facts, SourceInv, Opening
  <2>5. /\ cache[t].open \in BOOLEAN
    BY <1>6, <1>3, RecordTypes DEF Facts
  <2>6. Facts(t)'
    BY <1>2, <1>3, <2>1, <2>2, <2>3, <2>4, <2>5
    DEF Facts, PC, CacheType, CacheInv, SourceInv, MatrixInv, FreshCache,
        NoMatrix, Opening, Settled, PersistPC, MatrixPC
  <2>7. ASSUME NEW r \in Resource PROVE BalancedAt(t, r)
    <3> DEFINE f == IF r = "file" /\ cache[t].open THEN 1 ELSE 0
               h == Holds(source[t])[r]
               g == Frees(source[t])[r]
    <3>1. /\ used'[r] = used[r] + 0 /\ real'[t][r] = real[t][r] + 0
          /\ f \in Nat
          /\ h \in Nat /\ g \in Nat /\ g <= h
          /\ (\A i \in {0, -h, -g} : i \in Int)
      BY <1>3, <2>1, RecordTypes, HoldsType DEF Facts
    <3>2. CacheMoves(t, r, 0, 0)
      <4>1. CacheCounted(t, r) = f /\ CacheOwned(t, r) = f
        BY <1>3, <2>2, <2>3, <2>4, <2>5, CacheBooks DEF Opening, Resource
      <4>2. CacheCounted(t, r)' = f /\ CacheOwned(t, r)' = f
        BY <2>2, <2>3, <2>4, <2>5, CacheBooksNext DEF Opening, Resource
      <4> QED BY <4>1, <4>2, <3>1 DEF CacheMoves
    <3>3. SourceMoves(t, r, -h, -g)
      <4>1. SourceCounted(t, r) = h /\ SourceOwned(t, r) = g
        BY <1>3 DEF SourceCounted, SourceOwned, Opening
      <4>2. SourceCounted(t, r)' = 0 /\ SourceOwned(t, r)' = 0
        BY <2>2, <2>3, <2>4, <2>5, SourceBooksNext DEF Opening, Resource
      <4> QED BY <4>1, <4>2, <3>1 DEF SourceMoves
    <3>4. MatrixMoves(t, r, 0, 0)
      BY <1>3, <2>2, <2>3, <2>4, <2>5, MatrixStays
    <3> QED BY <3>1, <3>2, <3>3, <3>4, <2>4, PartsBalance
  <2>8. \A r \in Resource : BoundedAt(r)
    BY <1>2, <1>3, <2>1, <2>2, <2>3, <2>4, <2>5, RecordTypes
    DEF BoundedAt, Granted, Facts
  <2> QED BY <2>1, <2>6, <2>7, <2>8, <1>1, <1>2, ThreadStep
<1> QED BY <1>4, <1>5, <1>6 DEF TryDisk

(* CreateFile: the old file is left for the new one; the file cannot be    *)
(* created, and what the disk granted stays counted.                       *)
LEMMA CreateFileStep ==
    ASSUME IInv, NEW t \in Threads, CreateFile(t)
    PROVE  IInv'
<1> DEFINE n == cache[t].length
           c == cache[t]
           leave == source[t].known /\ c.mode = "io"
           closed == IF leave /\ c.open THEN 1 ELSE 0
           name == IF leave THEN "none" ELSE c.name
<1>1. Moves(t)
  BY FactsHold
  DEF Moves, TypeOK, CreateFile, Account, Goto, Become, AfterOpen, Fails, Note,
      GiveUp
<1>2. /\ failed \subseteq failed'
      /\ failed' \subseteq AllFailures \union Refusals
      /\ calls' \in 0..MaxCalls
  BY FactsHold
  DEF TypeOK, CreateFile, AllFailures, Refusals, Account, Goto, Become,
      AfterOpen, Fails, Note, GiveUp
<1>3. /\ Facts(t) /\ used \in [Resource -> Int]
      /\ real[t] \in [Resource -> Nat]
      /\ pc[t] = "create" /\ UNCHANGED <<source[t], matrix[t], copied[t]>>
  BY FactsHold
  DEF TypeOK, CreateFile, Account, Goto, Become, AfterOpen, Fails, Note, GiveUp
<1>4. /\ closed \in {0, 1} /\ closed = IF cache[t].open THEN 1 ELSE 0
      /\ (cache[t].open /\ ~leave) = FALSE
  <2>1. cache[t].open => source[t].known
    BY <1>3 DEF Facts, SourceInv, Opening
  <2>2. cache[t].open => leave
    BY <1>3, <2>1 DEF Facts, CacheInv, SourceInv, Opening
  <2> QED BY <2>2
<1>5. /\ name \in {"none", "temp", "given"} /\ n \in Nat
      /\ cache[t].open \in BOOLEAN
  BY <1>3, RecordTypes DEF Facts, CacheInfo
<1>6. c = cache[t]
  OBVIOUS
<1> HIDE DEF c, leave, closed, name
<1>7. CASE /\ Account(t, "file", 1 - closed, 1 - closed)
           /\ cache' = [cache EXCEPT ![t].open = TRUE,
                                     ![t].name = IF name = "none" THEN "temp"
                                        ELSE name]
           /\ Goto(t, "extend")
           /\ UNCHANGED failed
  <2>1. /\ used' \in [Resource -> Int] /\ real'[t] \in [Resource -> Int]
        /\ \A q \in Resource :
              used'[q] = IF q = "file" THEN used[q] + (1 - closed) ELSE used[q]
        /\ \A q \in Resource :
              real'[t][q] = IF q = "file" THEN real[t][q] + (1 - closed)
                 ELSE real[t][q]
    <3>1. (1 - closed) \in Int
      BY <1>7, <1>4
    <3>2. "file" \in Resource
      BY <1>7 DEF Resource
    <3>3. Account(t, "file", (1 - closed), (1 - closed))
      BY <1>7
    <3> QED BY <3>1, <3>2, <3>3, AccountIs, FactsHold DEF TypeOK
  <2>2. /\ cache'[t] \in CacheInfo /\ cache'[t].type = cache[t].type
        /\ cache'[t].length = cache[t].length /\ cache'[t].open
        /\ cache'[t].name = (IF name = "none" THEN "temp" ELSE name)
        /\ cache'[t].mode = cache[t].mode /\ cache'[t].known = cache[t].known
    <3>1. cache'[t] = OnFile(cache[t], IF name = "none" THEN "temp" ELSE name)
      BY <1>7, FactsHold DEF TypeOK, OnFile
    <3>2. /\ cache[t] \in CacheInfo
          /\ (IF name = "none" THEN "temp"
                ELSE name) \in {"none", "temp", "given"}
      BY <1>7, <1>3, <1>5 DEF Facts
    <3> QED BY <3>1, <3>2, WithFile
  <2>3. /\ pc'[t] = "extend"
    BY <1>7, FactsHold DEF TypeOK, Goto
  <2>4. /\ UNCHANGED failed
    BY <1>7
  <2>5. Facts(t)'
    BY <1>2, <1>3, <2>1, <2>2, <2>3, <2>4
    DEF Facts, PC, CacheType, CacheInv, SourceInv, MatrixInv, FreshCache,
        NoMatrix, Opening, Settled, PersistPC, MatrixPC
  <2>6. ASSUME NEW r \in Resource PROVE BalancedAt(t, r)
    <3> DEFINE x == IF r = "file" THEN 1 - closed ELSE 0
               f == IF r = "file" /\ cache[t].open THEN 1 ELSE 0
    <3>1. /\ used'[r] = used[r] + x /\ real'[t][r] = real[t][r] + x
          /\ closed \in {0, 1} /\ f \in {0, 1} /\ (\A i \in {x, 0} : i \in Int)
      BY <1>3, <2>1, <1>4, <1>5 DEF Facts
    <3>2. CacheMoves(t, r, x, x)
      <4>1. /\ CacheCounted(t, r) = (IF r = "disk" THEN n ELSE f)
            /\ CacheOwned(t, r) = f
        BY <1>3, <2>2, <2>3, <2>4, <1>4, <1>5, CacheBooks DEF Opening, Resource
      <4>2. /\ CacheCounted(t, r)' = (IF r = "disk" THEN n
                  ELSE IF r = "file" THEN 1 ELSE 0)
            /\ CacheOwned(t, r)' = (IF r = "file" THEN 1 ELSE 0)
        BY <2>2, <2>3, <2>4, <1>4, <1>5, CacheBooksNext DEF Opening, Resource
      <4> QED BY <4>1, <4>2, <3>1, <1>4, <1>5 DEF CacheMoves
    <3>3. SourceMoves(t, r, 0, 0)
      BY <1>3, <2>2, <2>3, <2>4, SourceStays DEF Opening
    <3>4. MatrixMoves(t, r, 0, 0)
      BY <1>3, <2>2, <2>3, <2>4, MatrixStays
    <3> QED BY <3>1, <3>2, <3>3, <3>4, PartsBalance
  <2>7. \A r \in Resource : BoundedAt(r)
    BY <1>2, <1>3, <2>1, <2>2, <2>3, <2>4, RecordTypes
    DEF BoundedAt, Granted, Facts
  <2> QED BY <2>1, <2>5, <2>6, <2>7, <1>1, <1>2, ThreadStep
<1>8. CASE /\ Fails("open")
           /\ Account(t, "file", -closed, -closed)
           /\ cache' = [cache EXCEPT ![t].type = "undefined", ![t].name = name,
                                     ![t].open = @ /\ ~leave]
           /\ Goto(t, "finish")
  <2>1. /\ used' \in [Resource -> Int] /\ real'[t] \in [Resource -> Int]
        /\ \A q \in Resource :
              used'[q] = IF q = "file" THEN used[q] + (-closed) ELSE used[q]
        /\ \A q \in Resource :
              real'[t][q] = IF q = "file" THEN real[t][q] + (-closed)
                 ELSE real[t][q]
    <3>1. (-closed) \in Int
      BY <1>8, <1>4
    <3>2. "file" \in Resource
      BY <1>8 DEF Resource
    <3>3. Account(t, "file", (-closed), (-closed))
      BY <1>8
    <3> QED BY <3>1, <3>2, <3>3, AccountIs, FactsHold DEF TypeOK
  <2>2. /\ cache'[t] \in CacheInfo /\ cache'[t].type = "undefined"
        /\ cache'[t].length = cache[t].length /\ ~cache'[t].open
        /\ cache'[t].name = name /\ cache'[t].mode = cache[t].mode
        /\ cache'[t].known = cache[t].known
    <3>1. cache'[t] = OffFile(cache[t], "undefined", name)
      BY <1>8, FactsHold, <1>4, <1>6 DEF TypeOK, OffFile
    <3>2. /\ cache[t] \in CacheInfo /\ "undefined" \in CacheType
          /\ name \in {"none", "temp", "given"}
      BY <1>8, <1>3, <1>5 DEF Facts, CacheType
    <3> QED BY <3>1, <3>2, WithoutFile, SMTT(60)
  <2>3. /\ pc'[t] = "finish"
    BY <1>8, FactsHold DEF TypeOK, Goto
  <2>4. /\ ~Clean'
    BY <1>8 DEF Fails, Note, Clean
  <2>5. Facts(t)'
    BY <1>2, <1>3, <2>1, <2>2, <2>3, <2>4
    DEF Facts, PC, CacheType, CacheInv, SourceInv, MatrixInv, FreshCache,
        NoMatrix, Opening, Settled, PersistPC, MatrixPC
  <2>6. ASSUME NEW r \in Resource PROVE BalancedAt(t, r)
    <3> DEFINE x == IF r = "disk" THEN n ELSE 0
               f == IF r = "file" /\ cache[t].open THEN 1 ELSE 0
               h == Holds(source[t])[r]
               g == Frees(source[t])[r]
    <3>1. /\ used'[r] = used[r] + (-f) /\ real'[t][r] = real[t][r] + (-f)
          /\ x \in Nat /\ f \in Nat /\ h \in Nat /\ g \in Nat /\ g <= h
          /\ (\A i \in {(-f), (-x - f), -h, -g, 0} : i \in Int)
      BY <1>3, <2>1, <1>4, <1>5, RecordTypes, HoldsType DEF Facts
    <3>2. CacheMoves(t, r, (-x - f), (-f))
      <4>1. /\ CacheCounted(t, r) = (IF r = "disk" THEN n ELSE f)
            /\ CacheOwned(t, r) = f
        BY <1>3, <2>2, <2>3, <2>4, <1>4, <1>5, CacheBooks DEF Opening, Resource
      <4>2. CacheCounted(t, r)' = 0 /\ CacheOwned(t, r)' = 0
        BY <2>2, <2>3, <2>4, <1>4, <1>5, CacheBooksNext DEF Opening, Resource
      <4> QED BY <4>1, <4>2, <3>1 DEF CacheMoves
    <3>3. SourceMoves(t, r, -h, -g)
      <4>1. SourceCounted(t, r) = h /\ SourceOwned(t, r) = g
        BY <1>3 DEF SourceCounted, SourceOwned, Opening
      <4>2. SourceCounted(t, r)' = 0 /\ SourceOwned(t, r)' = 0
        BY <2>2, <2>3, <2>4, SourceBooksNext DEF Opening, Resource
      <4> QED BY <4>1, <4>2, <3>1 DEF SourceMoves
    <3>4. MatrixMoves(t, r, 0, 0)
      BY <1>3, <2>2, <2>3, <2>4, MatrixStays
    <3> QED BY <3>1, <3>2, <3>3, <3>4, <2>4, PartsBalance
  <2>7. \A r \in Resource : BoundedAt(r)
    BY <1>2, <1>3, <2>1, <2>2, <2>3, <2>4, RecordTypes
    DEF BoundedAt, Granted, Facts
  <2> QED BY <2>1, <2>5, <2>6, <2>7, <1>1, <1>2, ThreadStep
<1> QED BY <1>7, <1>8 DEF CreateFile, c, leave, closed, name, n

(* SetPixelCacheExtent: the file grows; it cannot, and the space stays     *)
(* counted.                                                                *)
LEMMA SetPixelCacheExtentStep ==
    ASSUME IInv, NEW t \in Threads, SetPixelCacheExtent(t)
    PROVE  IInv'
<1> DEFINE n == cache[t].length
           z == IF cache[t].name = "temp" THEN cache[t].length ELSE 0
<1>1. Moves(t)
  BY FactsHold
  DEF Moves, TypeOK, SetPixelCacheExtent, Account, Goto, Become, AfterOpen,
      Fails, Note, GiveUp
<1>2. /\ failed \subseteq failed'
      /\ failed' \subseteq AllFailures \union Refusals
      /\ calls' \in 0..MaxCalls
  BY FactsHold
  DEF TypeOK, SetPixelCacheExtent, AllFailures, Refusals, Account, Goto, Become,
      AfterOpen, Fails, Note, GiveUp
<1>3. /\ Facts(t) /\ used \in [Resource -> Int]
      /\ real[t] \in [Resource -> Nat]
      /\ pc[t] = "extend" /\ UNCHANGED <<source[t], matrix[t], copied[t]>>
  BY FactsHold
  DEF TypeOK, SetPixelCacheExtent, Account, Goto, Become, AfterOpen, Fails,
      Note, GiveUp
<1>4. CASE /\ Become(t, "disk")
           /\ Account(t, "disk", 0, IF cache[t].name = "temp"
                 THEN cache[t].length ELSE 0)
           /\ Goto(t, "map")
           /\ UNCHANGED failed
  <2>1. /\ used' \in [Resource -> Int] /\ real'[t] \in [Resource -> Int]
        /\ \A q \in Resource : used'[q] = used[q]
        /\ \A q \in Resource :
              real'[t][q] = IF q = "disk" THEN real[t][q] + z ELSE real[t][q]
    BY <1>4, <1>3, AccountIs, RecordTypes, FactsHold DEF Facts, TypeOK, Resource
  <2>2. /\ cache'[t] \in CacheInfo /\ cache'[t].type = "disk"
        /\ cache'[t].length = cache[t].length /\ cache'[t].open = cache[t].open
        /\ cache'[t].name = cache[t].name /\ cache'[t].mode = cache[t].mode
        /\ cache'[t].known = cache[t].known
    <3>1. cache'[t] = Typed(cache[t], "disk")
      BY <1>4, FactsHold DEF TypeOK, Typed, Become
    <3>2. cache[t] \in CacheInfo /\ "disk" \in CacheType
      BY <1>4, <1>3 DEF Facts, CacheType
    <3> QED BY <3>1, <3>2, WithType
  <2>3. /\ pc'[t] = "map"
    BY <1>4, FactsHold DEF TypeOK, Goto
  <2>4. /\ UNCHANGED failed
    BY <1>4
  <2>5. /\ cache[t].open /\ z \in Nat
    BY <1>4, <1>3, RecordTypes DEF Facts, SourceInv
  <2>6. Facts(t)'
    BY <1>2, <1>3, <2>1, <2>2, <2>3, <2>4, <2>5
    DEF Facts, PC, CacheType, CacheInv, SourceInv, MatrixInv, FreshCache,
        NoMatrix, Opening, Settled, PersistPC, MatrixPC
  <2>7. ASSUME NEW r \in Resource PROVE BalancedAt(t, r)
    <3> DEFINE x == IF r = "disk" THEN z ELSE 0
    <3>1. /\ used'[r] = used[r] + 0 /\ real'[t][r] = real[t][r] + x
          /\ x \in Nat
          /\ n \in Nat /\ z \in Nat /\ (\A i \in {0, x} : i \in Int)
      BY <1>3, <2>1, <2>5, RecordTypes DEF Facts
    <3>2. CacheMoves(t, r, 0, x)
      <4>1. /\ CacheCounted(t, r) = (IF r = "disk" THEN n
                  ELSE IF r = "file" THEN 1 ELSE 0)
            /\ CacheOwned(t, r) = (IF r = "file" THEN 1 ELSE 0)
        BY <1>3, <2>2, <2>3, <2>4, <2>5, CacheBooks DEF Opening, Resource
      <4>2. /\ CacheCounted(t, r)' = (IF r = "disk" THEN n
                  ELSE IF r = "file" THEN 1 ELSE 0)
            /\ CacheOwned(t, r)' = (IF r = "disk" THEN z
                  ELSE IF r = "file" THEN 1 ELSE 0)
        BY <2>2, <2>3, <2>4, <2>5, CacheBooksNext DEF Opening, Resource
      <4> QED BY <4>1, <4>2, <3>1 DEF CacheMoves
    <3>3. SourceMoves(t, r, 0, 0)
      BY <1>3, <2>2, <2>3, <2>4, <2>5, SourceStays DEF Opening
    <3>4. MatrixMoves(t, r, 0, 0)
      BY <1>3, <2>2, <2>3, <2>4, <2>5, MatrixStays
    <3> QED BY <3>1, <3>2, <3>3, <3>4, PartsBalance
  <2>8. \A r \in Resource : BoundedAt(r)
    BY <1>2, <1>3, <2>1, <2>2, <2>3, <2>4, <2>5, RecordTypes
    DEF BoundedAt, Granted, Facts
  <2> QED BY <2>1, <2>6, <2>7, <2>8, <1>1, <1>2, ThreadStep
<1>5. CASE /\ Fails("extend")
           /\ GiveUp(t)
           /\ UNCHANGED <<used, real>>
  <2>1. /\ used' \in [Resource -> Int] /\ real'[t] \in [Resource -> Int]
        /\ \A q \in Resource : used'[q] = used[q]
        /\ \A q \in Resource : real'[t][q] = real[t][q]
    <3>1. UNCHANGED <<used, real>>
      BY <1>5
    <3> QED BY <3>1, UnchangedIs, FactsHold
  <2>2. /\ cache'[t] \in CacheInfo /\ cache'[t].type = "undefined"
        /\ cache'[t].length = cache[t].length /\ cache'[t].open = cache[t].open
        /\ cache'[t].name = cache[t].name /\ cache'[t].mode = cache[t].mode
        /\ cache'[t].known = cache[t].known
    <3>1. cache'[t] = Typed(cache[t], "undefined")
      BY <1>5, FactsHold DEF TypeOK, Typed, Become, GiveUp
    <3>2. cache[t] \in CacheInfo /\ "undefined" \in CacheType
      BY <1>5, <1>3 DEF Facts, CacheType
    <3> QED BY <3>1, <3>2, WithType
  <2>3. /\ pc'[t] = "finish"
    BY <1>5, FactsHold DEF TypeOK, GiveUp, Goto
  <2>4. /\ ~Clean' /\ "extend" \in failed'
    BY <1>5 DEF Fails, Note, Clean
  <2>5. /\ cache[t].open
    BY <1>5, <1>3 DEF Facts, SourceInv
  <2>6. Facts(t)'
    BY <1>2, <1>3, <2>1, <2>2, <2>3, <2>4, <2>5
    DEF Facts, PC, CacheType, CacheInv, SourceInv, MatrixInv, FreshCache,
        NoMatrix, Opening, Settled, PersistPC, MatrixPC
  <2>7. ASSUME NEW r \in Resource PROVE BalancedAt(t, r)
    <3> DEFINE x == IF r = "disk" THEN n ELSE 0
               f == IF r = "file" THEN 1 ELSE 0
               h == Holds(source[t])[r]
               g == Frees(source[t])[r]
    <3>1. /\ used'[r] = used[r] + 0 /\ real'[t][r] = real[t][r] + 0
          /\ x \in Nat
          /\ f \in Nat /\ h \in Nat /\ g \in Nat /\ g <= h
          /\ (\A i \in {0, (-x), -h, -g} : i \in Int)
      BY <1>3, <2>1, RecordTypes, HoldsType DEF Facts
    <3>2. CacheMoves(t, r, (-x), 0)
      <4>1. /\ CacheCounted(t, r) = (IF r = "disk" THEN n ELSE f)
            /\ CacheOwned(t, r) = f
        BY <1>3, <2>2, <2>3, <2>4, <2>5, CacheBooks DEF Opening, Resource
      <4>2. CacheCounted(t, r)' = f /\ CacheOwned(t, r)' = f
        BY <2>2, <2>3, <2>4, <2>5, CacheBooksNext DEF Opening, Resource
      <4> QED BY <4>1, <4>2, <3>1 DEF CacheMoves
    <3>3. SourceMoves(t, r, -h, -g)
      <4>1. SourceCounted(t, r) = h /\ SourceOwned(t, r) = g
        BY <1>3 DEF SourceCounted, SourceOwned, Opening
      <4>2. SourceCounted(t, r)' = 0 /\ SourceOwned(t, r)' = 0
        BY <2>2, <2>3, <2>4, <2>5, SourceBooksNext DEF Opening, Resource
      <4> QED BY <4>1, <4>2, <3>1 DEF SourceMoves
    <3>4. MatrixMoves(t, r, 0, 0)
      BY <1>3, <2>2, <2>3, <2>4, <2>5, MatrixStays
    <3> QED BY <3>1, <3>2, <3>3, <3>4, <2>4, PartsBalance
  <2>8. \A r \in Resource : BoundedAt(r)
    BY <1>2, <1>3, <2>1, <2>2, <2>3, <2>4, <2>5, RecordTypes
    DEF BoundedAt, Granted, Facts
  <2> QED BY <2>1, <2>6, <2>7, <2>8, <1>1, <1>2, ThreadStep
<1> QED BY <1>4, <1>5 DEF SetPixelCacheExtent

(* TryMap: the map takes the place of the descriptor; the map fails or is  *)
(* refused, and the cache stays on disk.                                   *)
LEMMA TryMapStep ==
    ASSUME IInv, NEW t \in Threads, TryMap(t)
    PROVE  IInv'
<1> DEFINE n == cache[t].length
<1>1. Moves(t)
  BY FactsHold
  DEF Moves, TypeOK, TryMap, Account, Goto, Become, AfterOpen, Fails, Note,
      GiveUp
<1>2. /\ failed \subseteq failed'
      /\ failed' \subseteq AllFailures \union Refusals
      /\ calls' \in 0..MaxCalls
  BY FactsHold
  DEF TypeOK, TryMap, AllFailures, Refusals, Account, Goto, Become, AfterOpen,
      Fails, Note, GiveUp
<1>3. /\ Facts(t) /\ used \in [Resource -> Int]
      /\ real[t] \in [Resource -> Nat]
      /\ pc[t] = "map" /\ UNCHANGED <<source[t], matrix[t], copied[t]>>
      /\ pc'[t] = (IF source[t].known /\ cache[t].mode # "read" THEN "copy"
            ELSE "finish")
  BY FactsHold
  DEF TypeOK, TryMap, Account, Goto, Become, AfterOpen, Fails, Note, GiveUp
<1>4. CASE /\ Granted("map", n)
           /\ used' = [used EXCEPT !["map"] = @ + n, !["file"] = @ - 1]
           /\ real' = [real EXCEPT ![t]["map"] = @ + n, ![t]["file"] = @ - 1]
           /\ cache' = [cache EXCEPT ![t].type = "map", ![t].open = FALSE]
           /\ UNCHANGED failed
  <2>1. /\ used' \in [Resource -> Int] /\ real'[t] \in [Resource -> Int]
        /\ \A q \in Resource :
              used'[q] = (IF q = "map" THEN used[q] + n
                 ELSE IF q = "file" THEN used[q] - 1 ELSE used[q])
        /\ \A q \in Resource :
              real'[t][q] = (IF q = "map" THEN real[t][q] + n
                 ELSE IF q = "file" THEN real[t][q] - 1 ELSE real[t][q])
    <3>1. n \in Int
      BY <1>4, <1>3, RecordTypes DEF Facts
    <3>2. used' = [used EXCEPT !["map"] = @ + n, !["file"] = @ - 1]
      BY <1>4
    <3>3. real' = [real EXCEPT ![t]["map"] = @ + n, ![t]["file"] = @ - 1]
      BY <1>4
    <3> QED BY <3>1, <3>2, <3>3, MapIs, FactsHold
  <2>2. /\ cache'[t] \in CacheInfo /\ cache'[t].type = "map"
        /\ cache'[t].length = cache[t].length /\ ~cache'[t].open
        /\ cache'[t].name = cache[t].name /\ cache'[t].mode = cache[t].mode
        /\ cache'[t].known = cache[t].known
    <3>1. cache'[t] = Mapped(cache[t], "map")
      BY <1>4, FactsHold DEF TypeOK, Mapped
    <3>2. cache[t] \in CacheInfo /\ "map" \in CacheType
      BY <1>4, <1>3 DEF Facts, CacheType
    <3> QED BY <3>1, <3>2, WithMap
  <2>3. /\ UNCHANGED failed /\ Granted("map", n)
    BY <1>4
  <2>4. /\ cache[t].open /\ cache[t].type = "disk"
    BY <1>4, <1>3 DEF Facts, SourceInv
  <2>5. Facts(t)'
    BY <1>2, <1>3, <2>1, <2>2, <2>3, <2>4
    DEF Facts, PC, CacheType, CacheInv, SourceInv, MatrixInv, FreshCache,
        NoMatrix, Opening, Settled, PersistPC, MatrixPC
  <2>6. ASSUME NEW r \in Resource PROVE BalancedAt(t, r)
    <3> DEFINE x == IF r = "map" THEN n ELSE IF r = "file" THEN -1 ELSE 0
               z == IF cache[t].name = "temp" THEN n ELSE 0
    <3>1. /\ used'[r] = used[r] + x /\ real'[t][r] = real[t][r] + x
          /\ x \in Int
          /\ n \in Nat /\ z \in Nat /\ (\A i \in {x, 0} : i \in Int)
      BY <1>3, <2>1, RecordTypes DEF Facts
    <3>2. CacheMoves(t, r, x, x)
      <4>1. /\ CacheCounted(t, r) = (IF r = "disk" THEN n
                  ELSE IF r = "file" THEN 1 ELSE 0)
            /\ CacheOwned(t, r) = (IF r = "disk" THEN z
                  ELSE IF r = "file" THEN 1 ELSE 0)
        BY <1>3, <2>2, <2>3, <2>4, <1>3, CacheBooks DEF Opening, Resource
      <4>2. /\ CacheCounted(t, r)' = (IF r \in {"map", "disk"} THEN n ELSE 0)
            /\ CacheOwned(t, r)' = (IF r = "map" THEN n
                  ELSE IF r = "disk" THEN z ELSE 0)
        BY <2>2, <2>3, <2>4, <1>3, CacheBooksNext DEF Opening, Resource
      <4> QED BY <4>1, <4>2, <3>1 DEF CacheMoves
    <3>3. SourceMoves(t, r, 0, 0)
      BY <1>3, <2>2, <2>3, <2>4, SourceStaysAfterOpen DEF Opening
    <3>4. MatrixMoves(t, r, 0, 0)
      BY <1>3, <2>2, <2>3, <2>4, MatrixStays
    <3> HIDE DEF x, z
    <3> QED BY <3>1, <3>2, <3>3, <3>4, PartsBalance
  <2>7. \A r \in Resource : BoundedAt(r)
    BY <1>2, <1>3, <2>1, <2>2, <2>3, <2>4, RecordTypes
    DEF BoundedAt, Granted, Facts
  <2> QED BY <2>1, <2>5, <2>6, <2>7, <1>1, <1>2, ThreadStep
<1>5. CASE /\ ~Granted("map", n)
           /\ UNCHANGED <<used, real, cache, failed>>
  <2>1. /\ used' \in [Resource -> Int] /\ real'[t] \in [Resource -> Int]
        /\ \A q \in Resource : used'[q] = used[q]
        /\ \A q \in Resource : real'[t][q] = real[t][q]
    <3>1. UNCHANGED <<used, real>>
      BY <1>5
    <3> QED BY <3>1, UnchangedIs, FactsHold
  <2>2. /\ UNCHANGED <<cache[t], failed>>
    BY <1>5
  <2>3. Facts(t)'
    BY <1>2, <1>3, <2>1, <2>2
    DEF Facts, PC, CacheType, CacheInv, SourceInv, MatrixInv, FreshCache,
        NoMatrix, Opening, Settled, PersistPC, MatrixPC
  <2>4. ASSUME NEW r \in Resource PROVE BalancedAt(t, r)
    <3>1. /\ used'[r] = used[r] + 0 /\ real'[t][r] = real[t][r] + 0
          /\ (\A i \in {0} : i \in Int)
      BY <1>3, <2>1, RecordTypes DEF Facts
    <3>2. CacheMoves(t, r, 0, 0)
      BY <1>3, <2>2, CacheStaysOpened DEF Opening
    <3>3. SourceMoves(t, r, 0, 0)
      BY <1>3, <2>2, SourceStaysAfterOpen DEF Opening
    <3>4. MatrixMoves(t, r, 0, 0)
      BY <1>3, <2>2, MatrixStays
    <3> QED BY <3>1, <3>2, <3>3, <3>4, PartsBalance
  <2>5. \A r \in Resource : BoundedAt(r)
    BY <1>2, <1>3, <2>1, <2>2, RecordTypes DEF BoundedAt, Granted, Facts
  <2> QED BY <2>1, <2>3, <2>4, <2>5, <1>1, <1>2, ThreadStep
<1>6. CASE /\ Granted("map", n) /\ Fails("map")
           /\ UNCHANGED <<used, real, cache>>
  <2>1. /\ used' \in [Resource -> Int] /\ real'[t] \in [Resource -> Int]
        /\ \A q \in Resource : used'[q] = used[q]
        /\ \A q \in Resource : real'[t][q] = real[t][q]
    <3>1. UNCHANGED <<used, real>>
      BY <1>6
    <3> QED BY <3>1, UnchangedIs, FactsHold
  <2>2. /\ UNCHANGED cache[t]
    BY <1>6
  <2>3. Facts(t)'
    BY <1>2, <1>3, <2>1, <2>2
    DEF Facts, PC, CacheType, CacheInv, SourceInv, MatrixInv, FreshCache,
        NoMatrix, Opening, Settled, PersistPC, MatrixPC
  <2>4. ASSUME NEW r \in Resource PROVE BalancedAt(t, r)
    <3>1. /\ used'[r] = used[r] + 0 /\ real'[t][r] = real[t][r] + 0
          /\ (\A i \in {0} : i \in Int)
      BY <1>3, <2>1, RecordTypes DEF Facts
    <3>2. CacheMoves(t, r, 0, 0)
      BY <1>3, <2>2, CacheStaysOpened DEF Opening
    <3>3. SourceMoves(t, r, 0, 0)
      BY <1>3, <2>2, SourceStaysAfterOpen DEF Opening
    <3>4. MatrixMoves(t, r, 0, 0)
      BY <1>3, <2>2, MatrixStays
    <3> QED BY <3>1, <3>2, <3>3, <3>4, PartsBalance
  <2>5. \A r \in Resource : BoundedAt(r)
    BY <1>2, <1>3, <2>1, <2>2, RecordTypes DEF BoundedAt, Granted, Facts
  <2> QED BY <2>1, <2>3, <2>4, <2>5, <1>1, <1>2, ThreadStep
<1> QED BY <1>4, <1>5, <1>6 DEF TryMap

(* CopyOldPixels: a source on disk is opened for the copy; any other source*)
(* is not.                                                                 *)
LEMMA CopyOldPixelsStep ==
    ASSUME IInv, NEW t \in Threads, CopyOldPixels(t)
    PROVE  IInv'
<1>1. Moves(t)
  BY FactsHold
  DEF Moves, TypeOK, CopyOldPixels, Account, Goto, Become, AfterOpen, Fails,
      Note, GiveUp
<1>2. /\ failed \subseteq failed'
      /\ failed' \subseteq AllFailures \union Refusals
      /\ calls' \in 0..MaxCalls
  BY FactsHold
  DEF TypeOK, CopyOldPixels, AllFailures, Refusals, Account, Goto, Become,
      AfterOpen, Fails, Note, GiveUp
<1>3. /\ Facts(t) /\ used \in [Resource -> Int]
      /\ real[t] \in [Resource -> Nat]
      /\ pc[t] = "copy" /\ pc'[t] = "relinquish"
      /\ UNCHANGED <<cache[t], matrix[t]>> /\ copied'[t] \in BOOLEAN
      /\ (~copied'[t] => "copy" \in failed') /\ ~source[t].open
      /\ source[t].known
  BY FactsHold
 , ZenonT(60) DEF TypeOK, CopyOldPixels, Facts, SourceInv, Account, Goto, Become, AfterOpen,
      Fails, Note, GiveUp
<1>4. CASE source[t].type = "disk"
  <2>1. /\ used' \in [Resource -> Int] /\ real'[t] \in [Resource -> Int]
        /\ \A q \in Resource :
              used'[q] = IF q = "file" THEN used[q] + 1 ELSE used[q]
        /\ \A q \in Resource :
              real'[t][q] = IF q = "file" THEN real[t][q] + 1 ELSE real[t][q]
    <3>1. 1 \in Int
      BY <1>4
    <3>2. "file" \in Resource
      BY <1>4 DEF Resource
    <3>3. Account(t, "file", 1, 1)
      BY <1>4 DEF CopyOldPixels
    <3> QED BY <3>1, <3>2, <3>3, AccountIs, FactsHold DEF TypeOK
  <2>2. /\ source'[t] \in CacheInfo /\ source'[t].type = source[t].type
        /\ source'[t].length = source[t].length /\ source'[t].open
        /\ source'[t].name = source[t].name /\ source'[t].mode = source[t].mode
        /\ source'[t].known = source[t].known
    <3>1. source'[t] = Opened(source[t])
      BY <1>4, FactsHold DEF TypeOK, Opened, CopyOldPixels
    <3>2. source[t] \in CacheInfo
      BY <1>4, <1>3 DEF Facts
    <3> QED BY <3>1, <3>2, WithOpen
  <2>3. /\ source[t].type = "disk"
    BY <1>4
  <2>4. Facts(t)'
    BY <1>2, <1>3, <2>1, <2>2, <2>3
    DEF Facts, PC, CacheType, CacheInv, SourceInv, MatrixInv, FreshCache,
        NoMatrix, Opening, Settled, PersistPC, MatrixPC
  <2>5. ASSUME NEW r \in Resource PROVE BalancedAt(t, r)
    <3> DEFINE x == IF r = "file" THEN 1 ELSE 0
               k == IF r = "disk" THEN source[t].length ELSE 0
               l == IF r = "disk" /\ source[t].name = "temp"
                  THEN source[t].length ELSE 0
    <3>1. /\ used'[r] = used[r] + x /\ real'[t][r] = real[t][r] + x
          /\ k \in Nat
          /\ l \in Nat /\ (\A i \in {x, 0} : i \in Int)
      BY <1>3, <2>1, RecordTypes DEF Facts
    <3>2. CacheMoves(t, r, 0, 0)
      BY <1>3, <2>2, <2>3, CacheStays DEF Opening
    <3>3. SourceMoves(t, r, x, x)
      <4>1. SourceCounted(t, r) = k /\ SourceOwned(t, r) = l
        BY <1>3, <2>2, <2>3, <1>3, SourceBooks DEF Opening, Resource
      <4>2. /\ SourceCounted(t, r)' = (IF r = "file" THEN 1 ELSE k)
            /\ SourceOwned(t, r)' = (IF r = "file" THEN 1 ELSE l)
        BY <2>2, <2>3, <1>3, SourceBooksNext DEF Opening, Resource
      <4> QED BY <4>1, <4>2, <3>1 DEF SourceMoves
    <3>4. MatrixMoves(t, r, 0, 0)
      BY <1>3, <2>2, <2>3, MatrixStays
    <3> QED BY <3>1, <3>2, <3>3, <3>4, PartsBalance
  <2>6. \A r \in Resource : BoundedAt(r)
    BY <1>2, <1>3, <2>1, <2>2, <2>3, RecordTypes DEF BoundedAt, Granted, Facts
  <2> QED BY <2>1, <2>4, <2>5, <2>6, <1>1, <1>2, ThreadStep
<1>5. CASE source[t].type # "disk"
  <2>1. /\ used' \in [Resource -> Int] /\ real'[t] \in [Resource -> Int]
        /\ \A q \in Resource : used'[q] = used[q]
        /\ \A q \in Resource : real'[t][q] = real[t][q]
    <3>1. UNCHANGED <<used, real>>
      BY <1>5 DEF CopyOldPixels
    <3> QED BY <3>1, UnchangedIs, FactsHold
  <2>2. /\ source'[t] \in CacheInfo /\ source'[t].type = source[t].type
        /\ source'[t].length = source[t].length /\ ~source'[t].open
        /\ source'[t].name = source[t].name /\ source'[t].mode = source[t].mode
        /\ source'[t].known = source[t].known
    <3>1. source'[t] = Closed(source[t])
      BY <1>5, FactsHold DEF TypeOK, Closed, CopyOldPixels
    <3>2. source[t] \in CacheInfo
      BY <1>5, <1>3 DEF Facts
    <3> QED BY <3>1, <3>2, WithClosed
  <2>3. /\ source[t].type # "disk"
    BY <1>5
  <2>4. Facts(t)'
    BY <1>2, <1>3, <2>1, <2>2, <2>3
    DEF Facts, PC, CacheType, CacheInv, SourceInv, MatrixInv, FreshCache,
        NoMatrix, Opening, Settled, PersistPC, MatrixPC
  <2>5. ASSUME NEW r \in Resource PROVE BalancedAt(t, r)
    <3>1. /\ used'[r] = used[r] + 0 /\ real'[t][r] = real[t][r] + 0
          /\ (\A i \in {0} : i \in Int)
      BY <1>3, <2>1, RecordTypes DEF Facts
    <3>2. CacheMoves(t, r, 0, 0)
      BY <1>3, <2>2, <2>3, CacheStays DEF Opening
    <3>3. SourceMoves(t, r, 0, 0)
      BY <1>3, <2>2, <2>3, SourceSame DEF Opening
    <3>4. MatrixMoves(t, r, 0, 0)
      BY <1>3, <2>2, <2>3, MatrixStays
    <3> QED BY <3>1, <3>2, <3>3, <3>4, PartsBalance
  <2>6. \A r \in Resource : BoundedAt(r)
    BY <1>2, <1>3, <2>1, <2>2, <2>3, RecordTypes DEF BoundedAt, Granted, Facts
  <2> QED BY <2>1, <2>4, <2>5, <2>6, <1>1, <1>2, ThreadStep
<1> QED BY <1>4, <1>5

(* RelinquishOldPixels: the old pixels go; if they could not be copied, the*)
(* new cache is forgotten, with what it held.                              *)
LEMMA RelinquishOldPixelsStep ==
    ASSUME IInv, NEW t \in Threads, RelinquishOldPixels(t)
    PROVE  IInv'
<1>1. Moves(t)
  BY FactsHold
  DEF Moves, TypeOK, RelinquishOldPixels, Account, Goto, Become, AfterOpen,
      Fails, Note, GiveUp, RelinquishPixelCachePixels
<1>2. /\ failed \subseteq failed'
      /\ failed' \subseteq AllFailures \union Refusals
      /\ calls' \in 0..MaxCalls
  BY FactsHold
  DEF TypeOK, RelinquishOldPixels, AllFailures, Refusals, Account, Goto, Become,
      AfterOpen, Fails, Note, GiveUp, RelinquishPixelCachePixels
<1>3. /\ Facts(t) /\ used \in [Resource -> Int]
      /\ real[t] \in [Resource -> Nat]
      /\ pc[t] = "relinquish" /\ pc'[t] = "finish"
      /\ UNCHANGED <<source[t], matrix[t], copied[t], failed>>
      /\ source[t].known /\ (~copied[t] => "copy" \in failed)
  BY FactsHold
  DEF TypeOK, RelinquishOldPixels, Facts, SourceInv, Account, Goto, Become,
      AfterOpen, Fails, Note, GiveUp, RelinquishPixelCachePixels
<1>4. CASE copied[t]
  <2>1. /\ used' \in [Resource -> Int] /\ real'[t] \in [Resource -> Int]
        /\ \A q \in Resource : used'[q] = used[q] - Holds(source[t])[q]
        /\ \A q \in Resource : real'[t][q] = real[t][q] - Frees(source[t])[q]
    <3>1. RelinquishPixelCachePixels(t, source[t])
      BY <1>4 DEF RelinquishOldPixels
    <3>2. source[t] \in CacheInfo
      BY <1>4, <1>3 DEF Facts
    <3> QED BY <3>1, <3>2, RelinquishIs, FactsHold
  <2>2. /\ UNCHANGED cache[t]
    BY <1>4 DEF RelinquishOldPixels
  <2>3. /\ cache[t].open \in BOOLEAN
    BY <1>4, <1>3, RecordTypes DEF Facts
  <2>4. Facts(t)'
    BY <1>2, <1>3, <2>1, <2>2, <2>3
    DEF Facts, PC, CacheType, CacheInv, SourceInv, MatrixInv, FreshCache,
        NoMatrix, Opening, Settled, PersistPC, MatrixPC
  <2>5. ASSUME NEW r \in Resource PROVE BalancedAt(t, r)
    <3> DEFINE h == Holds(source[t])[r]
               g == Frees(source[t])[r]
    <3>1. /\ used'[r] = used[r] + (-h) /\ real'[t][r] = real[t][r] + (-g)
          /\ h \in Nat /\ g \in Nat /\ g <= h
          /\ (\A i \in {(-h), (-g), 0} : i \in Int)
      BY <1>3, <2>1, RecordTypes, HoldsType DEF Facts
    <3>2. CacheMoves(t, r, 0, 0)
      BY <1>3, <2>2, <2>3, CacheStays DEF Opening
    <3>3. SourceMoves(t, r, (-h), (-g))
      <4>1. SourceCounted(t, r) = h /\ SourceOwned(t, r) = g
        BY <1>3 DEF SourceCounted, SourceOwned, Opening
      <4>2. SourceCounted(t, r)' = 0 /\ SourceOwned(t, r)' = 0
        BY <2>2, <2>3, <1>3, SourceBooksNext DEF Opening, Resource
      <4> QED BY <4>1, <4>2, <3>1 DEF SourceMoves
    <3>4. MatrixMoves(t, r, 0, 0)
      BY <1>3, <2>2, <2>3, MatrixStays
    <3> QED BY <3>1, <3>2, <3>3, <3>4, PartsBalance
  <2>6. \A r \in Resource : BoundedAt(r)
    BY <1>3, <2>1, RecordTypes, HoldsType DEF BoundedAt, Granted, Facts
  <2> QED BY <2>1, <2>4, <2>5, <2>6, <1>1, <1>2, ThreadStep
<1>5. CASE ~copied[t]
  <2>1. /\ used' \in [Resource -> Int] /\ real'[t] \in [Resource -> Int]
        /\ \A q \in Resource : used'[q] = used[q] - Holds(source[t])[q]
        /\ \A q \in Resource : real'[t][q] = real[t][q] - Frees(source[t])[q]
    <3>1. RelinquishPixelCachePixels(t, source[t])
      BY <1>5 DEF RelinquishOldPixels
    <3>2. source[t] \in CacheInfo
      BY <1>5, <1>3 DEF Facts
    <3> QED BY <3>1, <3>2, RelinquishIs, FactsHold
  <2>2. /\ cache'[t] \in CacheInfo /\ cache'[t].type = "undefined"
        /\ cache'[t].length = cache[t].length /\ cache'[t].open = cache[t].open
        /\ cache'[t].name = cache[t].name /\ cache'[t].mode = cache[t].mode
        /\ cache'[t].known = cache[t].known
    <3>1. cache'[t] = Typed(cache[t], "undefined")
      BY <1>5, FactsHold DEF TypeOK, Typed, Become, RelinquishOldPixels
    <3>2. cache[t] \in CacheInfo /\ "undefined" \in CacheType
      BY <1>5, <1>3 DEF Facts, CacheType
    <3> QED BY <3>1, <3>2, WithType
  <2>3. /\ ~Clean'
    BY <1>5, <1>3 DEF Clean
  <2>4. /\ cache[t].open \in BOOLEAN
    BY <1>5, <1>3, RecordTypes DEF Facts
  <2>5. Facts(t)'
    BY <1>2, <1>3, <2>1, <2>2, <2>3, <2>4
    DEF Facts, PC, CacheType, CacheInv, SourceInv, MatrixInv, FreshCache,
        NoMatrix, Opening, Settled, PersistPC, MatrixPC
  <2>6. ASSUME NEW r \in Resource PROVE BalancedAt(t, r)
    <3> DEFINE h == Holds(source[t])[r]
               g == Frees(source[t])[r]
               k == IF r = "file" THEN 0 ELSE Holds(cache[t])[r]
               l == IF r = "file" THEN 0 ELSE Frees(cache[t])[r]
               f == IF r = "file" /\ cache[t].open THEN 1 ELSE 0
    <3>1. /\ used'[r] = used[r] + (-h) /\ real'[t][r] = real[t][r] + (-g)
          /\ h \in Nat /\ g \in Nat /\ g <= h /\ k \in Nat /\ l \in Nat
          /\ l <= k /\ f \in Nat
          /\ (\A i \in {(-h), (-g), (-k), (-l), 0} : i \in Int)
      BY <1>3, <2>1, RecordTypes, HoldsType DEF Facts
    <3>2. CacheMoves(t, r, (-k), (-l))
      <4>1. /\ CacheCounted(t, r) = (IF r = "file" THEN f ELSE k)
            /\ CacheOwned(t, r) = (IF r = "file" THEN f ELSE l)
        BY <1>3 DEF CacheCounted, CacheOwned, Opening
      <4>2. CacheCounted(t, r)' = f /\ CacheOwned(t, r)' = f
        BY <2>2, <2>3, <2>4, <1>3, CacheBooksNext DEF Opening, Resource
      <4> QED BY <4>1, <4>2, <3>1 DEF CacheMoves
    <3>3. SourceMoves(t, r, (-h), (-g))
      <4>1. SourceCounted(t, r) = h /\ SourceOwned(t, r) = g
        BY <1>3 DEF SourceCounted, SourceOwned, Opening
      <4>2. SourceCounted(t, r)' = 0 /\ SourceOwned(t, r)' = 0
        BY <2>2, <2>3, <2>4, <1>3, SourceBooksNext DEF Opening, Resource
      <4> QED BY <4>1, <4>2, <3>1 DEF SourceMoves
    <3>4. MatrixMoves(t, r, 0, 0)
      BY <1>3, <2>2, <2>3, <2>4, MatrixStays
    <3> QED BY <3>1, <3>2, <3>3, <3>4, <2>3, PartsBalance
  <2>7. \A r \in Resource : BoundedAt(r)
    BY <1>3, <2>1, RecordTypes, HoldsType DEF BoundedAt, Granted, Facts
  <2> QED BY <2>1, <2>5, <2>6, <2>7, <1>1, <1>2, ThreadStep
<1> QED BY <1>4, <1>5

(* FinishOpen: a new cache that failed, a new cache that is open, and a    *)
(* cache that was opened in place.                                         *)
LEMMA FinishOpenStep ==
    ASSUME IInv, NEW t \in Threads, FinishOpen(t)
    PROVE  IInv'
<1> DEFINE z == IF cache[t].open THEN -1 ELSE 0
<1>1. Moves(t)
  BY FactsHold
  DEF Moves, TypeOK, FinishOpen, Account, Goto, Become, AfterOpen, Fails, Note,
      GiveUp, CloseIfOpen
<1>2. /\ failed \subseteq failed'
      /\ failed' \subseteq AllFailures \union Refusals
      /\ calls' \in 0..MaxCalls
  BY FactsHold
  DEF TypeOK, FinishOpen, AllFailures, Refusals, Account, Goto, Become,
      AfterOpen, Fails, Note, GiveUp
<1>3. /\ Facts(t) /\ used \in [Resource -> Int]
      /\ real[t] \in [Resource -> Nat]
      /\ pc[t] = "finish" /\ pc'[t] = "idle"
      /\ UNCHANGED <<matrix[t], copied[t], failed>>
  BY FactsHold DEF TypeOK, FinishOpen, Goto
<1>4. CASE /\ ~source[t].known /\ cache[t].type = "undefined"
           /\ cache' = [cache EXCEPT ![t] = FreshCache]
           /\ UNCHANGED <<used, real>>
  <2>1. /\ used' \in [Resource -> Int] /\ real'[t] \in [Resource -> Int]
        /\ \A q \in Resource : used'[q] = used[q]
        /\ \A q \in Resource : real'[t][q] = real[t][q]
    <3>1. UNCHANGED <<used, real>>
      BY <1>4
    <3> QED BY <3>1, UnchangedIs, FactsHold
  <2>2. /\ source'[t] \in CacheInfo /\ source'[t] = FreshCache
        /\ source'[t].type = "undefined" /\ source'[t].length = 0
        /\ ~source'[t].open /\ source'[t].name = "none"
        /\ source'[t].mode = "io" /\ ~source'[t].known
    <3>1. source'[t] = FreshCache
      BY <1>4, FactsHold DEF TypeOK, FinishOpen
    <3> QED BY <3>1, FreshTypes
  <2>3. /\ cache'[t] \in CacheInfo /\ cache'[t] = FreshCache
        /\ cache'[t].type = "undefined" /\ cache'[t].length = 0
        /\ ~cache'[t].open /\ cache'[t].name = "none" /\ cache'[t].mode = "io"
        /\ ~cache'[t].known
    <3>1. cache'[t] = FreshCache
      BY <1>4, FactsHold DEF TypeOK
    <3> QED BY <3>1, FreshTypes
  <2>4. /\ (Clean' => ~cache[t].open) /\ cache[t].type = "undefined"
    BY <1>4, <1>3 DEF Facts, CacheInv, Clean
  <2>5. /\ cache[t].open \in BOOLEAN
    BY <1>4, <1>3, RecordTypes DEF Facts
  <2>6. Facts(t)'
    BY <1>2, <1>3, <2>1, <2>2, <2>3, <2>4, <2>5
    DEF Facts, PC, CacheType, CacheInv, SourceInv, MatrixInv, FreshCache,
        NoMatrix, Opening, Settled, PersistPC, MatrixPC
  <2>7. ASSUME NEW r \in Resource PROVE BalancedAt(t, r)
    <3> DEFINE f == IF r = "file" /\ cache[t].open THEN 1 ELSE 0
    <3>1. /\ used'[r] = used[r] + 0 /\ real'[t][r] = real[t][r] + 0
          /\ f \in Nat
          /\ (\A i \in {0, (-f)} : i \in Int)
      BY <1>3, <2>1, RecordTypes DEF Facts
    <3>2. CacheMoves(t, r, (-f), (-f))
      <4>1. CacheCounted(t, r) = f /\ CacheOwned(t, r) = f
        BY <1>3, <2>4, HoldsNothing DEF CacheCounted, CacheOwned, Opening
      <4>2. CacheCounted(t, r)' = 0 /\ CacheOwned(t, r)' = 0
        BY <2>2, <2>3, <2>4, <2>5, <1>3, CacheBooksNext DEF Opening, Resource
      <4> QED BY <4>1, <4>2, <3>1 DEF CacheMoves
    <3>3. SourceMoves(t, r, 0, 0)
      <4>1. SourceCounted(t, r) = 0 /\ SourceOwned(t, r) = 0
        BY <1>3 DEF SourceCounted, SourceOwned, Opening
      <4>2. SourceCounted(t, r)' = 0 /\ SourceOwned(t, r)' = 0
        BY <2>2, <2>3, <2>4, <2>5, SourceBooksNext DEF Opening, Resource
      <4> QED BY <4>1, <4>2, <3>1 DEF SourceMoves
    <3>4. MatrixMoves(t, r, 0, 0)
      BY <1>3, <2>2, <2>3, <2>4, <2>5, MatrixStays
    <3> QED BY <3>1, <3>2, <3>3, <3>4, <2>4, PartsBalance
  <2>8. \A r \in Resource : BoundedAt(r)
    BY <1>2, <1>3, <2>1, <2>2, <2>3, <2>4, <2>5, RecordTypes
    DEF BoundedAt, Granted, Facts
  <2> QED BY <2>1, <2>6, <2>7, <2>8, <1>1, <1>2, ThreadStep
<1>5. CASE /\ ~source[t].known /\ cache[t].type # "undefined"
           /\ UNCHANGED <<used, real, cache>>
  <2>1. /\ used' \in [Resource -> Int] /\ real'[t] \in [Resource -> Int]
        /\ \A q \in Resource : used'[q] = used[q]
        /\ \A q \in Resource : real'[t][q] = real[t][q]
    <3>1. UNCHANGED <<used, real>>
      BY <1>5
    <3> QED BY <3>1, UnchangedIs, FactsHold
  <2>2. /\ source'[t] \in CacheInfo /\ source'[t] = FreshCache
        /\ source'[t].type = "undefined" /\ source'[t].length = 0
        /\ ~source'[t].open /\ source'[t].name = "none"
        /\ source'[t].mode = "io" /\ ~source'[t].known
    <3>1. source'[t] = FreshCache
      BY <1>5, FactsHold DEF TypeOK, FinishOpen
    <3> QED BY <3>1, FreshTypes
  <2>3. /\ UNCHANGED cache[t] /\ cache[t].type # "undefined"
    BY <1>5
  <2>4. /\ cache[t].open => cache[t].type = "disk"
    BY <1>5, <1>3, <2>3 DEF Facts, CacheInv
  <2>5. /\ cache[t].known
    BY <1>5, <1>3 DEF Facts, CacheInv
  <2>6. /\ cache[t].open \in BOOLEAN
    BY <1>5, <1>3, RecordTypes DEF Facts
  <2>7. Facts(t)'
    BY <1>2, <1>3, <2>1, <2>2, <2>3, <2>4, <2>5, <2>6
    DEF Facts, PC, CacheType, CacheInv, SourceInv, MatrixInv, FreshCache,
        NoMatrix, Opening, Settled, PersistPC, MatrixPC
  <2>8. ASSUME NEW r \in Resource PROVE BalancedAt(t, r)
    <3>1. /\ used'[r] = used[r] + 0 /\ real'[t][r] = real[t][r] + 0
          /\ (\A i \in {0} : i \in Int)
      BY <1>3, <2>1, RecordTypes DEF Facts
    <3>2. CacheMoves(t, r, 0, 0)
      BY <1>3, <2>2, <2>3, <2>4, <2>5, <2>6, CacheStays DEF Opening
    <3>3. SourceMoves(t, r, 0, 0)
      <4>1. SourceCounted(t, r) = 0 /\ SourceOwned(t, r) = 0
        BY <1>3 DEF SourceCounted, SourceOwned, Opening
      <4>2. SourceCounted(t, r)' = 0 /\ SourceOwned(t, r)' = 0
        BY <2>2, <2>3, <2>4, <2>5, <2>6, SourceBooksNext DEF Opening, Resource
      <4> QED BY <4>1, <4>2, <3>1 DEF SourceMoves
    <3>4. MatrixMoves(t, r, 0, 0)
      BY <1>3, <2>2, <2>3, <2>4, <2>5, <2>6, MatrixStays
    <3> QED BY <3>1, <3>2, <3>3, <3>4, PartsBalance
  <2>9. \A r \in Resource : BoundedAt(r)
    BY <1>2, <1>3, <2>1, <2>2, <2>3, <2>4, <2>5, <2>6, RecordTypes
    DEF BoundedAt, Granted, Facts
  <2> QED BY <2>1, <2>7, <2>8, <2>9, <1>1, <1>2, ThreadStep
<1>6. CASE /\ cache[t].mode = "io"
           /\ CloseIfOpen(t, cache[t])
           /\ cache' = [cache EXCEPT ![t].open = FALSE]
  <2>1. /\ used' \in [Resource -> Int] /\ real'[t] \in [Resource -> Int]
        /\ \A q \in Resource :
              used'[q] = IF q = "file" THEN used[q] + z ELSE used[q]
        /\ \A q \in Resource :
              real'[t][q] = IF q = "file" THEN real[t][q] + z ELSE real[t][q]
    <3>1. z \in Int
      BY <1>6
    <3>2. "file" \in Resource
      BY <1>6 DEF Resource
    <3>3. Account(t, "file", z, z)
      BY <1>6 DEF CloseIfOpen
    <3> QED BY <3>1, <3>2, <3>3, AccountIs, FactsHold DEF TypeOK
  <2>2. /\ source'[t] \in CacheInfo /\ source'[t] = FreshCache
        /\ source'[t].type = "undefined" /\ source'[t].length = 0
        /\ ~source'[t].open /\ source'[t].name = "none"
        /\ source'[t].mode = "io" /\ ~source'[t].known
    <3>1. source'[t] = FreshCache
      BY <1>6, FactsHold DEF TypeOK, FinishOpen
    <3> QED BY <3>1, FreshTypes
  <2>3. /\ cache'[t] \in CacheInfo /\ cache'[t].type = cache[t].type
        /\ cache'[t].length = cache[t].length /\ ~cache'[t].open
        /\ cache'[t].name = cache[t].name /\ cache'[t].mode = cache[t].mode
        /\ cache'[t].known = cache[t].known
    <3>1. cache'[t] = Closed(cache[t])
      BY <1>6, FactsHold DEF TypeOK, Closed
    <3>2. cache[t] \in CacheInfo
      BY <1>6, <1>3 DEF Facts
    <3> QED BY <3>1, <3>2, WithClosed
  <2>4. /\ cache[t].known
    BY <1>6, <1>3 DEF Facts, CacheInv
  <2>5. /\ cache[t].open \in BOOLEAN
    BY <1>6, <1>3, RecordTypes DEF Facts
  <2>6. Facts(t)'
    BY <1>2, <1>3, <2>1, <2>2, <2>3, <2>4, <2>5
    DEF Facts, PC, CacheType, CacheInv, SourceInv, MatrixInv, FreshCache,
        NoMatrix, Opening, Settled, PersistPC, MatrixPC
  <2>7. ASSUME NEW r \in Resource PROVE BalancedAt(t, r)
    <3> DEFINE f == IF r = "file" /\ cache[t].open THEN 1 ELSE 0
    <3>1. /\ used'[r] = used[r] + (-f) /\ real'[t][r] = real[t][r] + (-f)
          /\ f \in Nat /\ (\A i \in {(-f), 0} : i \in Int)
      BY <1>3, <2>1, RecordTypes DEF Facts
    <3>2. CacheMoves(t, r, (-f), (-f))
      BY <1>3, <2>2, <2>3, <2>4, <2>5, <3>1, CacheReopens DEF Opening
    <3>3. SourceMoves(t, r, 0, 0)
      <4>1. SourceCounted(t, r) = 0 /\ SourceOwned(t, r) = 0
        BY <1>3 DEF SourceCounted, SourceOwned, Opening
      <4>2. SourceCounted(t, r)' = 0 /\ SourceOwned(t, r)' = 0
        BY <2>2, <2>3, <2>4, <2>5, SourceBooksNext DEF Opening, Resource
      <4> QED BY <4>1, <4>2, <3>1 DEF SourceMoves
    <3>4. MatrixMoves(t, r, 0, 0)
      BY <1>3, <2>2, <2>3, <2>4, <2>5, MatrixStays
    <3> QED BY <3>1, <3>2, <3>3, <3>4, PartsBalance
  <2>8. \A r \in Resource : BoundedAt(r)
    BY <1>2, <1>3, <2>1, <2>2, <2>3, <2>4, <2>5, RecordTypes
    DEF BoundedAt, Granted, Facts
  <2> QED BY <2>1, <2>6, <2>7, <2>8, <1>1, <1>2, ThreadStep
<1> QED BY <1>4, <1>5, <1>6 DEF FinishOpen

(* OpenPixelCacheOnDisk takes one descriptor.                              *)
LEMMA OpenPixelCacheOnDiskStep ==
    ASSUME IInv, NEW t \in Threads, OpenPixelCacheOnDisk(t)
    PROVE  IInv'
<1>1. Moves(t)
  BY FactsHold
  DEF Moves, TypeOK, OpenPixelCacheOnDisk, Account, Goto, Become, AfterOpen,
      Fails, Note, GiveUp
<1>2. /\ failed \subseteq failed'
      /\ failed' \subseteq AllFailures \union Refusals
      /\ calls' \in 0..MaxCalls
  BY FactsHold
  DEF TypeOK, OpenPixelCacheOnDisk, AllFailures, Refusals, Account, Goto,
      Become, AfterOpen, Fails, Note, GiveUp
<1>3. /\ Facts(t) /\ used \in [Resource -> Int]
      /\ real[t] \in [Resource -> Nat]
      /\ pc[t] = "idle" /\ pc'[t] = "idle"
      /\ UNCHANGED <<source[t], matrix[t], copied[t], failed>>
      /\ ~cache[t].open
      /\ cache[t].type = "disk"
  BY FactsHold
  DEF TypeOK, OpenPixelCacheOnDisk, Account, Goto, Become, AfterOpen, Fails,
      Note, GiveUp
<1>4. /\ used' \in [Resource -> Int] /\ real'[t] \in [Resource -> Int]
      /\ \A q \in Resource :
            used'[q] = IF q = "file" THEN used[q] + 1 ELSE used[q]
      /\ \A q \in Resource :
            real'[t][q] = IF q = "file" THEN real[t][q] + 1 ELSE real[t][q]
  <2>1. 1 \in Int
    OBVIOUS
  <2>2. "file" \in Resource
    BY DEF Resource
  <2>3. Account(t, "file", 1, 1)
    BY DEF OpenPixelCacheOnDisk
  <2> QED BY <2>1, <2>2, <2>3, AccountIs, FactsHold DEF TypeOK
<1>5. /\ cache'[t] \in CacheInfo /\ cache'[t].type = cache[t].type
      /\ cache'[t].length = cache[t].length /\ cache'[t].open
      /\ cache'[t].name = cache[t].name /\ cache'[t].mode = cache[t].mode
      /\ cache'[t].known = cache[t].known
  <2>1. cache'[t] = Opened(cache[t])
    BY FactsHold DEF TypeOK, Opened, OpenPixelCacheOnDisk
  <2>2. cache[t] \in CacheInfo
    BY <1>3 DEF Facts
  <2> QED BY <2>1, <2>2, WithOpen
<1>6. Facts(t)'
  BY <1>2, <1>3, <1>4, <1>5
  DEF Facts, PC, CacheType, CacheInv, SourceInv, MatrixInv, FreshCache,
      NoMatrix, Opening, Settled, PersistPC, MatrixPC
<1>7. ASSUME NEW r \in Resource PROVE BalancedAt(t, r)
  <2> DEFINE x == IF r = "file" THEN 1 ELSE 0
  <2>1. /\ used'[r] = used[r] + x /\ real'[t][r] = real[t][r] + x
        /\ (\A i \in {x, 0} : i \in Int)
    BY <1>3, <1>4, RecordTypes DEF Facts
  <2>2. CacheMoves(t, r, x, x)
    BY <1>3, <1>5, <2>1, CacheReopens DEF Opening
  <2>3. SourceMoves(t, r, 0, 0)
    BY <1>3, <1>5, SourceStays DEF Opening
  <2>4. MatrixMoves(t, r, 0, 0)
    BY <1>3, <1>5, MatrixStays
  <2> QED BY <2>1, <2>2, <2>3, <2>4, PartsBalance
<1>8. \A r \in Resource : BoundedAt(r)
  BY <1>2, <1>3, <1>4, <1>5, RecordTypes DEF BoundedAt, Granted, Facts
<1> QED BY <1>4, <1>6, <1>7, <1>8, <1>1, <1>2, ThreadStep

(* DestroyPixelCache gives back all that is counted for the cache.         *)
LEMMA DestroyPixelCacheStep ==
    ASSUME IInv, NEW t \in Threads, DestroyPixelCache(t)
    PROVE  IInv'
<1>1. Moves(t)
  BY FactsHold
  DEF Moves, TypeOK, DestroyPixelCache, Account, Goto, Become, AfterOpen, Fails,
      Note, GiveUp, RelinquishPixelCachePixels
<1>2. /\ failed \subseteq failed'
      /\ failed' \subseteq AllFailures \union Refusals
      /\ calls' \in 0..MaxCalls
  BY FactsHold
  DEF TypeOK, DestroyPixelCache, AllFailures, Refusals, Account, Goto, Become,
      AfterOpen, Fails, Note, GiveUp, RelinquishPixelCachePixels
<1>3. /\ Facts(t) /\ used \in [Resource -> Int]
      /\ real[t] \in [Resource -> Nat]
      /\ pc[t] = "idle" /\ pc'[t] = "idle"
      /\ UNCHANGED <<source[t], matrix[t], copied[t], failed>>
      /\ (cache[t].open => cache[t].type = "disk")
  BY FactsHold
  DEF TypeOK, DestroyPixelCache, Facts, CacheInv, Account, Goto, Become,
      AfterOpen, Fails, Note, GiveUp, RelinquishPixelCachePixels
<1>4. /\ used' \in [Resource -> Int] /\ real'[t] \in [Resource -> Int]
      /\ \A q \in Resource : used'[q] = used[q] - Holds(cache[t])[q]
      /\ \A q \in Resource : real'[t][q] = real[t][q] - Frees(cache[t])[q]
  <2>1. RelinquishPixelCachePixels(t, cache[t])
    BY DEF DestroyPixelCache
  <2>2. cache[t] \in CacheInfo
    BY <1>3 DEF Facts
  <2> QED BY <2>1, <2>2, RelinquishIs, FactsHold
<1>5. /\ cache'[t] \in CacheInfo /\ cache'[t] = FreshCache
      /\ cache'[t].type = "undefined" /\ cache'[t].length = 0
      /\ ~cache'[t].open
      /\ cache'[t].name = "none" /\ cache'[t].mode = "io" /\ ~cache'[t].known
  <2>1. cache'[t] = FreshCache
    BY FactsHold DEF TypeOK, DestroyPixelCache
  <2> QED BY <2>1, FreshTypes
<1>6. Facts(t)'
  BY <1>2, <1>3, <1>4, <1>5
  DEF Facts, PC, CacheType, CacheInv, SourceInv, MatrixInv, FreshCache,
      NoMatrix, Opening, Settled, PersistPC, MatrixPC
<1>7. ASSUME NEW r \in Resource PROVE BalancedAt(t, r)
  <2> DEFINE h == Holds(cache[t])[r]
             g == Frees(cache[t])[r]
  <2>1. /\ used'[r] = used[r] + (-h) /\ real'[t][r] = real[t][r] + (-g)
        /\ h \in Nat /\ g \in Nat /\ g <= h
        /\ (\A i \in {(-h), (-g), 0} : i \in Int)
    BY <1>3, <1>4, RecordTypes, HoldsType DEF Facts
  <2>2. CacheMoves(t, r, (-h), (-g))
    <3>1. CacheCounted(t, r) = h /\ CacheOwned(t, r) = g
      BY <1>3, HoldsIs, FreesIs DEF CacheCounted, CacheOwned, Opening
    <3>2. CacheCounted(t, r)' = 0 /\ CacheOwned(t, r)' = 0
      BY <1>5, <1>3, CacheBooksNext DEF Opening, Resource
    <3> QED BY <3>1, <3>2, <2>1 DEF CacheMoves
  <2>3. SourceMoves(t, r, 0, 0)
    BY <1>3, <1>5, SourceStays DEF Opening
  <2>4. MatrixMoves(t, r, 0, 0)
    BY <1>3, <1>5, MatrixStays
  <2> QED BY <2>1, <2>2, <2>3, <2>4, PartsBalance
<1>8. \A r \in Resource : BoundedAt(r)
  BY <1>3, <1>4, RecordTypes, HoldsType DEF BoundedAt, Granted, Facts
<1> QED BY <1>4, <1>6, <1>7, <1>8, <1>1, <1>2, ThreadStep

(* PersistPixelCache takes disk space for a file the user keeps.           *)
LEMMA PersistPixelCacheStep ==
    ASSUME IInv, NEW t \in Threads, PersistPixelCache(t)
    PROVE  IInv'
<1> DEFINE n == cache[t].length
<1>1. Moves(t)
  BY FactsHold
  DEF Moves, TypeOK, PersistPixelCache, Account, Goto, Become, AfterOpen, Fails,
      Note, GiveUp, Call
<1>2. /\ failed \subseteq failed'
      /\ failed' \subseteq AllFailures \union Refusals
      /\ calls' \in 0..MaxCalls
  BY FactsHold
  DEF TypeOK, PersistPixelCache, AllFailures, Refusals, Call, Account, Goto,
      Become, AfterOpen, Fails, Note, GiveUp, Call
<1>3. /\ Facts(t) /\ used \in [Resource -> Int]
      /\ real[t] \in [Resource -> Nat]
      /\ pc[t] = "idle" /\ pc'[t] = "persist_open"
      /\ UNCHANGED <<cache[t], matrix[t], copied[t], failed>>
  BY FactsHold
  DEF TypeOK, PersistPixelCache, Account, Goto, Become, AfterOpen, Fails, Note,
      GiveUp, Call
<1>4. source[t] = FreshCache /\ source[t].type = "undefined"
  BY <1>3, FreshTypes DEF Facts, SourceInv
<1>5. /\ used' \in [Resource -> Int] /\ real'[t] \in [Resource -> Int]
      /\ \A q \in Resource :
            used'[q] = IF q = "disk" THEN used[q] + n ELSE used[q]
      /\ \A q \in Resource : real'[t][q] = real[t][q]
  <2>1. n \in Int /\ 0 \in Int
    BY <1>3, RecordTypes DEF Facts
  <2>2. "disk" \in Resource
    BY DEF Resource
  <2>3. Account(t, "disk", n, 0)
    BY DEF PersistPixelCache
  <2> QED BY <2>1, <2>2, <2>3, AccountIs, FactsHold DEF TypeOK
<1>6. /\ source'[t] \in CacheInfo /\ source'[t].type = "disk"
      /\ source'[t].length = n /\ ~source'[t].open /\ source'[t].name = "given"
      /\ source'[t].mode = "persist" /\ source'[t].known
  <2>1. source'[t] = FileFor(n)
    BY FactsHold DEF TypeOK, FileFor, PersistPixelCache
  <2>2. n \in Lengths \union {0}
    BY <1>3 DEF Facts, CacheInfo
  <2> QED BY <2>1, <2>2, PersistedFile
<1>7. /\ Granted("disk", n)
  BY DEF PersistPixelCache
<1>8. /\ n \in Nat
  BY <1>3, RecordTypes DEF Facts
<1>9. Facts(t)'
  BY <1>2, <1>3, <1>5, <1>6, <1>7, <1>8
  DEF Facts, PC, CacheType, CacheInv, SourceInv, MatrixInv, FreshCache,
      NoMatrix, Opening, Settled, PersistPC, MatrixPC
<1>10. ASSUME NEW r \in Resource PROVE BalancedAt(t, r)
  <2> DEFINE x == IF r = "disk" THEN n ELSE 0
  <2>1. /\ used'[r] = used[r] + x /\ real'[t][r] = real[t][r] + 0 /\ x \in Nat
        /\ (\A i \in {x, 0} : i \in Int)
    BY <1>3, <1>5, <1>8 DEF Facts
  <2>2. CacheMoves(t, r, 0, 0)
    BY <1>3, <1>6, <1>7, <1>8, CacheStays DEF Opening
  <2>3. SourceMoves(t, r, x, 0)
    <3>1. SourceCounted(t, r) = 0 /\ SourceOwned(t, r) = 0
      BY <1>3, HoldsNothing, <1>4 DEF SourceCounted, SourceOwned, Opening
    <3>2. SourceCounted(t, r)' = x /\ SourceOwned(t, r)' = 0
      BY <1>6, <1>7, <1>8, <1>3, SourceBooksNext DEF Opening, Resource
    <3> QED BY <3>1, <3>2, <2>1 DEF SourceMoves
  <2>4. MatrixMoves(t, r, 0, 0)
    BY <1>3, <1>6, <1>7, <1>8, MatrixStays
  <2> QED BY <2>1, <2>2, <2>3, <2>4, PartsBalance
<1>11. \A r \in Resource : BoundedAt(r)
  BY <1>2, <1>3, <1>5, <1>6, <1>7, <1>8, RecordTypes
  DEF BoundedAt, Granted, Facts
<1> QED BY <1>5, <1>9, <1>10, <1>11, <1>1, <1>2, ThreadStep

(* PersistOpen: the file is opened, or it cannot be.                       *)
LEMMA PersistOpenStep ==
    ASSUME IInv, NEW t \in Threads, PersistOpen(t)
    PROVE  IInv'
<1>1. Moves(t)
  BY FactsHold
  DEF Moves, TypeOK, PersistOpen, Account, Goto, Become, AfterOpen, Fails, Note,
      GiveUp
<1>2. /\ failed \subseteq failed'
      /\ failed' \subseteq AllFailures \union Refusals
      /\ calls' \in 0..MaxCalls
  BY FactsHold
  DEF TypeOK, PersistOpen, AllFailures, Refusals, Account, Goto, Become,
      AfterOpen, Fails, Note, GiveUp
<1>3. /\ Facts(t) /\ used \in [Resource -> Int]
      /\ real[t] \in [Resource -> Nat]
      /\ pc[t] = "persist_open" /\ pc'[t] = "persist_done"
      /\ UNCHANGED <<cache[t], matrix[t], copied[t]>>
  BY FactsHold
  DEF TypeOK, PersistOpen, Account, Goto, Become, AfterOpen, Fails, Note, GiveUp
<1>4. CASE /\ Account(t, "file", 1, 1)
           /\ source' = [source EXCEPT ![t].open = TRUE]
           /\ UNCHANGED failed
  <2>1. /\ used' \in [Resource -> Int] /\ real'[t] \in [Resource -> Int]
        /\ \A q \in Resource :
              used'[q] = IF q = "file" THEN used[q] + 1 ELSE used[q]
        /\ \A q \in Resource :
              real'[t][q] = IF q = "file" THEN real[t][q] + 1 ELSE real[t][q]
    <3>1. 1 \in Int
      BY <1>4
    <3>2. "file" \in Resource
      BY <1>4 DEF Resource
    <3>3. Account(t, "file", 1, 1)
      BY <1>4
    <3> QED BY <3>1, <3>2, <3>3, AccountIs, FactsHold DEF TypeOK
  <2>2. /\ source'[t] \in CacheInfo /\ source'[t].type = source[t].type
        /\ source'[t].length = source[t].length /\ source'[t].open
        /\ source'[t].name = source[t].name /\ source'[t].mode = source[t].mode
        /\ source'[t].known = source[t].known
    <3>1. source'[t] = Opened(source[t])
      BY <1>4, FactsHold DEF TypeOK, Opened
    <3>2. source[t] \in CacheInfo
      BY <1>4, <1>3 DEF Facts
    <3> QED BY <3>1, <3>2, WithOpen
  <2>3. /\ source[t].type = "disk" /\ source[t].name = "given"
        /\ ~source[t].open
    BY <1>4, <1>3 DEF Facts, SourceInv, PersistPC
  <2>4. Facts(t)'
    BY <1>2, <1>3, <2>1, <2>2, <2>3
    DEF Facts, PC, CacheType, CacheInv, SourceInv, MatrixInv, FreshCache,
        NoMatrix, Opening, Settled, PersistPC, MatrixPC
  <2>5. ASSUME NEW r \in Resource PROVE BalancedAt(t, r)
    <3> DEFINE x == IF r = "file" THEN 1 ELSE 0
               k == IF r = "disk" THEN source[t].length ELSE 0
    <3>1. /\ used'[r] = used[r] + x /\ real'[t][r] = real[t][r] + x
          /\ k \in Nat
          /\ (\A i \in {x, 0} : i \in Int)
      BY <1>3, <2>1, RecordTypes DEF Facts
    <3>2. CacheMoves(t, r, 0, 0)
      BY <1>3, <2>2, <2>3, CacheStays DEF Opening
    <3>3. SourceMoves(t, r, x, x)
      <4>1. SourceCounted(t, r) = k /\ SourceOwned(t, r) = 0
        BY <1>3, <2>2, <2>3, <1>3, SourceBooks DEF Opening, Resource
      <4>2. /\ SourceCounted(t, r)' = (IF r = "file" THEN 1 ELSE k)
            /\ SourceOwned(t, r)' = (IF r = "file" THEN 1 ELSE 0)
        BY <2>2, <2>3, <1>3, SourceBooksNext DEF Opening, Resource
      <4> QED BY <4>1, <4>2, <3>1 DEF SourceMoves
    <3>4. MatrixMoves(t, r, 0, 0)
      BY <1>3, <2>2, <2>3, MatrixStays
    <3> QED BY <3>1, <3>2, <3>3, <3>4, PartsBalance
  <2>6. \A r \in Resource : BoundedAt(r)
    BY <1>2, <1>3, <2>1, <2>2, <2>3, RecordTypes DEF BoundedAt, Granted, Facts
  <2> QED BY <2>1, <2>4, <2>5, <2>6, <1>1, <1>2, ThreadStep
<1>5. CASE /\ Fails("open")
           /\ UNCHANGED <<used, real, source>>
  <2>1. /\ used' \in [Resource -> Int] /\ real'[t] \in [Resource -> Int]
        /\ \A q \in Resource : used'[q] = used[q]
        /\ \A q \in Resource : real'[t][q] = real[t][q]
    <3>1. UNCHANGED <<used, real>>
      BY <1>5
    <3> QED BY <3>1, UnchangedIs, FactsHold
  <2>2. /\ UNCHANGED source[t]
    BY <1>5
  <2>3. Facts(t)'
    BY <1>2, <1>3, <2>1, <2>2
    DEF Facts, PC, CacheType, CacheInv, SourceInv, MatrixInv, FreshCache,
        NoMatrix, Opening, Settled, PersistPC, MatrixPC
  <2>4. ASSUME NEW r \in Resource PROVE BalancedAt(t, r)
    <3>1. /\ used'[r] = used[r] + 0 /\ real'[t][r] = real[t][r] + 0
          /\ (\A i \in {0} : i \in Int)
      BY <1>3, <2>1, RecordTypes DEF Facts
    <3>2. CacheMoves(t, r, 0, 0)
      BY <1>3, <2>2, CacheStays DEF Opening
    <3>3. SourceMoves(t, r, 0, 0)
      BY <1>3, <2>2, SourceStays DEF Opening
    <3>4. MatrixMoves(t, r, 0, 0)
      BY <1>3, <2>2, MatrixStays
    <3> QED BY <3>1, <3>2, <3>3, <3>4, PartsBalance
  <2>5. \A r \in Resource : BoundedAt(r)
    BY <1>2, <1>3, <2>1, <2>2, RecordTypes DEF BoundedAt, Granted, Facts
  <2> QED BY <2>1, <2>3, <2>4, <2>5, <1>1, <1>2, ThreadStep
<1> QED BY <1>4, <1>5 DEF PersistOpen

(* PersistDone gives back what was counted for the copy.                   *)
LEMMA PersistDoneStep ==
    ASSUME IInv, NEW t \in Threads, PersistDone(t)
    PROVE  IInv'
<1>1. Moves(t)
  BY FactsHold
  DEF Moves, TypeOK, PersistDone, Account, Goto, Become, AfterOpen, Fails, Note,
      GiveUp, RelinquishPixelCachePixels
<1>2. /\ failed \subseteq failed'
      /\ failed' \subseteq AllFailures \union Refusals
      /\ calls' \in 0..MaxCalls
  BY FactsHold
  DEF TypeOK, PersistDone, AllFailures, Refusals, Account, Goto, Become,
      AfterOpen, Fails, Note, GiveUp, RelinquishPixelCachePixels
<1>3. /\ Facts(t) /\ used \in [Resource -> Int]
      /\ real[t] \in [Resource -> Nat]
      /\ pc[t] = "persist_done" /\ pc'[t] = "idle"
      /\ UNCHANGED <<cache[t], matrix[t], copied[t], failed>>
  BY FactsHold
  DEF TypeOK, PersistDone, Account, Goto, Become, AfterOpen, Fails, Note,
      GiveUp, RelinquishPixelCachePixels
<1>4. /\ used' \in [Resource -> Int] /\ real'[t] \in [Resource -> Int]
      /\ \A q \in Resource : used'[q] = used[q] - Holds(source[t])[q]
      /\ \A q \in Resource : real'[t][q] = real[t][q] - Frees(source[t])[q]
  <2>1. RelinquishPixelCachePixels(t, source[t])
    BY DEF PersistDone
  <2>2. source[t] \in CacheInfo
    BY <1>3 DEF Facts
  <2> QED BY <2>1, <2>2, RelinquishIs, FactsHold
<1>5. /\ source'[t] \in CacheInfo /\ source'[t] = FreshCache
      /\ source'[t].type = "undefined" /\ source'[t].length = 0
      /\ ~source'[t].open /\ source'[t].name = "none" /\ source'[t].mode = "io"
      /\ ~source'[t].known
  <2>1. source'[t] = FreshCache
    BY FactsHold DEF TypeOK, PersistDone
  <2> QED BY <2>1, FreshTypes
<1>6. Facts(t)'
  BY <1>2, <1>3, <1>4, <1>5
  DEF Facts, PC, CacheType, CacheInv, SourceInv, MatrixInv, FreshCache,
      NoMatrix, Opening, Settled, PersistPC, MatrixPC
<1>7. ASSUME NEW r \in Resource PROVE BalancedAt(t, r)
  <2> DEFINE h == Holds(source[t])[r]
             g == Frees(source[t])[r]
  <2>1. /\ used'[r] = used[r] + (-h) /\ real'[t][r] = real[t][r] + (-g)
        /\ h \in Nat /\ g \in Nat /\ g <= h
        /\ (\A i \in {(-h), (-g), 0} : i \in Int)
    BY <1>3, <1>4, RecordTypes, HoldsType DEF Facts
  <2>2. CacheMoves(t, r, 0, 0)
    BY <1>3, <1>5, CacheStays DEF Opening
  <2>3. SourceMoves(t, r, (-h), (-g))
    <3>1. SourceCounted(t, r) = h /\ SourceOwned(t, r) = g
      BY <1>3 DEF SourceCounted, SourceOwned, Opening
    <3>2. SourceCounted(t, r)' = 0 /\ SourceOwned(t, r)' = 0
      BY <1>5, <1>3, SourceBooksNext DEF Opening, Resource
    <3> QED BY <3>1, <3>2, <2>1 DEF SourceMoves
  <2>4. MatrixMoves(t, r, 0, 0)
    BY <1>3, <1>5, MatrixStays
  <2> QED BY <2>1, <2>2, <2>3, <2>4, PartsBalance
<1>8. \A r \in Resource : BoundedAt(r)
  BY <1>3, <1>4, RecordTypes, HoldsType DEF BoundedAt, Granted, Facts
<1> QED BY <1>4, <1>6, <1>7, <1>8, <1>1, <1>2, ThreadStep

(* OpenPixelCache: what was the cache's is the source's now.               *)
LEMMA OpenPixelCacheStep ==
    ASSUME IInv, NEW t \in Threads, NEW n \in Lengths, OpenPixelCache(t, n)
    PROVE  IInv'
<1>1. Moves(t)
  BY FactsHold
  DEF Moves, TypeOK, OpenPixelCache, Account, Goto, Become, AfterOpen, Fails,
      Note, GiveUp, Call, Begin
<1>2. /\ failed \subseteq failed'
      /\ failed' \subseteq AllFailures \union Refusals
      /\ calls' \in 0..MaxCalls
  BY FactsHold
  DEF TypeOK, OpenPixelCache, AllFailures, Refusals, Call, Begin, Account, Goto,
      Become, AfterOpen, Fails, Note, GiveUp, Call, Begin
<1>3. /\ Facts(t) /\ used \in [Resource -> Int]
      /\ real[t] \in [Resource -> Nat]
      /\ pc[t] = "idle" /\ pc'[t] \in {"memory", "disk"}
      /\ UNCHANGED <<matrix[t], copied[t], failed>> /\ cache[t].mode = "io"
      /\ (pc'[t] = "memory" => cache[t].type \in {"undefined", "memory"})
  BY FactsHold
  DEF TypeOK, OpenPixelCache, Account, Goto, Become, AfterOpen, Fails, Note,
      GiveUp, Call, Begin
<1>4. /\ used' \in [Resource -> Int] /\ real'[t] \in [Resource -> Int]
      /\ \A q \in Resource : used'[q] = used[q]
      /\ \A q \in Resource : real'[t][q] = real[t][q]
  <2>1. UNCHANGED <<used, real>>
    BY DEF OpenPixelCache
  <2> QED BY <2>1, UnchangedIs, FactsHold
<1>5. /\ source'[t] \in CacheInfo /\ source'[t].type = cache[t].type
      /\ source'[t].length = cache[t].length /\ ~source'[t].open
      /\ source'[t].name = cache[t].name /\ source'[t].mode = cache[t].mode
      /\ source'[t].known = cache[t].known
  <2>1. source'[t] = Closed(cache[t])
    BY FactsHold DEF TypeOK, Closed, Begin, OpenPixelCache
  <2>2. cache[t] \in CacheInfo
    BY <1>3 DEF Facts
  <2> QED BY <2>1, <2>2, WithClosed
<1>6. /\ cache'[t] \in CacheInfo /\ cache'[t].type = cache[t].type
      /\ cache'[t].length = n /\ cache'[t].open = cache[t].open
      /\ cache'[t].name = cache[t].name /\ cache'[t].mode = "io"
      /\ cache'[t].known
  <2>1. cache'[t] = Resized(cache[t], n, "io")
    BY FactsHold DEF TypeOK, Resized, Begin, OpenPixelCache
  <2>2. cache[t] \in CacheInfo
    BY <1>3 DEF Facts
  <2> QED BY <2>1, <2>2, WithLength
<1>7. /\ \A r \in Resource :
            /\ Holds(source'[t])[r] = (IF r = "file" THEN 0
                  ELSE Holds(cache[t])[r])
                             /\ Frees(source'[t])[r] = (IF r = "file" THEN 0
                                   ELSE Frees(cache[t])[r])
  BY <1>5, HoldsCopy
<1>8. /\ (cache[t].open => cache[t].type = "disk")
      /\ (~cache[t].known => cache[t] = FreshCache)
  BY <1>3 DEF Facts, CacheInv
<1>9. /\ (~cache[t].known => \A r \in Resource : Holds(source'[t])[r] = 0)
  BY <1>7, <1>8, HoldsNothing, FreshTypes
<1>10. /\ (cache[t].open => cache[t].known)
  BY <1>8, FreshTypes
<1>11. /\ cache[t].open \in BOOLEAN
  BY <1>3, RecordTypes DEF Facts
<1>12. /\ source[t] = FreshCache /\ source[t].type = "undefined"
  BY <1>3, FreshTypes DEF Facts, SourceInv
<1>13. Facts(t)'
  BY <1>2, <1>3, <1>4, <1>5, <1>6, <1>7, <1>8, <1>9, <1>10, <1>11, <1>12
  DEF Facts, PC, CacheType, CacheInv, SourceInv, MatrixInv, FreshCache,
      NoMatrix, Opening, Settled, PersistPC, MatrixPC
<1>14. ASSUME NEW r \in Resource PROVE BalancedAt(t, r)
  <2> DEFINE k == IF r = "file" THEN 0 ELSE Holds(cache[t])[r]
             l == IF r = "file" THEN 0 ELSE Frees(cache[t])[r]
             f == IF r = "file" /\ cache[t].open THEN 1 ELSE 0
  <2>1. /\ used'[r] = used[r] + 0 /\ real'[t][r] = real[t][r] + 0 /\ k \in Nat
        /\ l \in Nat /\ l <= k /\ f \in Nat
        /\ (\A i \in {0, (-k), (-l), k, l} : i \in Int)
    BY <1>3, <1>4, RecordTypes, HoldsType DEF Facts
  <2>2. CacheMoves(t, r, (-k), (-l))
    <3>1. /\ CacheCounted(t, r) = (IF r = "file" THEN f ELSE k)
          /\ CacheOwned(t, r) = (IF r = "file" THEN f ELSE l)
      BY <1>3 DEF CacheCounted, CacheOwned, Opening
    <3>2. CacheCounted(t, r)' = f /\ CacheOwned(t, r)' = f
      BY <1>5, <1>6, <1>7, <1>8, <1>9, <1>10, <1>11, <1>12, <1>3, CacheBooksNext
      DEF Opening, Resource
    <3> QED BY <3>1, <3>2, <2>1 DEF CacheMoves
  <2>3. SourceMoves(t, r, k, l)
    <3>1. SourceCounted(t, r) = 0 /\ SourceOwned(t, r) = 0
      BY <1>3, HoldsNothing, <1>12 DEF SourceCounted, SourceOwned, Opening
    <3>2. SourceCounted(t, r)' = k /\ SourceOwned(t, r)' = l
      BY <1>5, <1>6, <1>7, <1>8, <1>9, <1>10, <1>11, <1>12, <1>3
      DEF SourceCounted, SourceOwned, Opening
    <3> QED BY <3>1, <3>2, <2>1 DEF SourceMoves
  <2>4. MatrixMoves(t, r, 0, 0)
    BY <1>3, <1>5, <1>6, <1>7, <1>8, <1>9, <1>10, <1>11, <1>12, MatrixStays
  <2> QED BY <2>1, <2>2, <2>3, <2>4, PartsBalance
<1>15. \A r \in Resource : BoundedAt(r)
  BY <1>2, <1>3, <1>4, <1>5, <1>6, <1>7, <1>8, <1>9, <1>10, <1>11, <1>12,
     RecordTypes DEF BoundedAt, Granted, Facts
<1> QED BY <1>4, <1>13, <1>14, <1>15, <1>1, <1>2, ThreadStep

(* AttachPixelCache: nothing is held yet.                                  *)
LEMMA AttachPixelCacheStep ==
    ASSUME IInv, NEW t \in Threads, NEW n \in Lengths, AttachPixelCache(t, n)
    PROVE  IInv'
<1>1. Moves(t)
  BY FactsHold
  DEF Moves, TypeOK, AttachPixelCache, Account, Goto, Become, AfterOpen, Fails,
      Note, GiveUp, Call, Begin
<1>2. /\ failed \subseteq failed'
      /\ failed' \subseteq AllFailures \union Refusals
      /\ calls' \in 0..MaxCalls
  BY FactsHold
  DEF TypeOK, AttachPixelCache, AllFailures, Refusals, Call, Begin, Account,
      Goto, Become, AfterOpen, Fails, Note, GiveUp, Call, Begin
<1>3. /\ Facts(t) /\ used \in [Resource -> Int]
      /\ real[t] \in [Resource -> Nat]
      /\ pc[t] = "idle" /\ pc'[t] = "disk"
      /\ UNCHANGED <<matrix[t], copied[t], failed>> /\ ~cache[t].known
  BY FactsHold
  DEF TypeOK, AttachPixelCache, Account, Goto, Become, AfterOpen, Fails, Note,
      GiveUp, Call, Begin
<1>4. /\ used' \in [Resource -> Int] /\ real'[t] \in [Resource -> Int]
      /\ \A q \in Resource : used'[q] = used[q]
      /\ \A q \in Resource : real'[t][q] = real[t][q]
  <2>1. UNCHANGED <<used, real>>
    BY DEF AttachPixelCache
  <2> QED BY <2>1, UnchangedIs, FactsHold
<1>5. /\ source'[t] \in CacheInfo /\ source'[t].type = "map"
      /\ source'[t].length = 0 /\ ~source'[t].open /\ source'[t].name = "given"
      /\ source'[t].mode = "io" /\ ~source'[t].known
  <2>1. source'[t] = Closed(Given(FreshCache, "map"))
    BY FactsHold DEF TypeOK, Given, Closed, Begin, AttachPixelCache
  <2>2. "map" \in CacheType
    BY DEF CacheType
  <2>3. Given(FreshCache, "map") \in CacheInfo
    BY <2>2, WithGiven, FreshTypes
  <2>4. /\ ~Given(FreshCache, "map").open /\ ~Given(FreshCache, "map").known
         /\ Given(FreshCache, "map").length = 0
         /\ Given(FreshCache, "map").mode = "io"
         /\ Given(FreshCache, "map").type = "map"
         /\ Given(FreshCache, "map").name = "given"
    BY <2>2, WithGiven, FreshTypes
  <2> QED BY <2>1, <2>2, <2>3, <2>4, WithClosed
<1>6. /\ cache'[t] \in CacheInfo /\ cache'[t].type = "map"
      /\ cache'[t].length = n /\ ~cache'[t].open /\ cache'[t].name = "given"
      /\ cache'[t].mode = "read" /\ cache'[t].known
  <2>1. cache'[t] = Resized(Given(FreshCache, "map"), n, "read")
    BY FactsHold DEF TypeOK, Resized, Given, Begin, AttachPixelCache
  <2>2. "map" \in CacheType
    BY DEF CacheType
  <2>3. Given(FreshCache, "map") \in CacheInfo
    BY <2>2, WithGiven, FreshTypes
  <2>4. /\ ~Given(FreshCache, "map").open /\ ~Given(FreshCache, "map").known
         /\ Given(FreshCache, "map").length = 0
         /\ Given(FreshCache, "map").mode = "io"
         /\ Given(FreshCache, "map").type = "map"
         /\ Given(FreshCache, "map").name = "given"
    BY <2>2, WithGiven, FreshTypes
  <2> QED BY <2>1, <2>2, <2>3, <2>4, WithLength
<1>7. /\ cache[t] = FreshCache /\ cache[t].type = "undefined" /\ ~cache[t].open
  BY <1>3, FreshTypes DEF Facts, CacheInv
<1>8. /\ source[t] = FreshCache /\ source[t].type = "undefined"
  BY <1>3, FreshTypes DEF Facts, SourceInv
<1>9. /\ \A r \in Resource :
            Holds(source'[t])[r] = 0 /\ Frees(source'[t])[r] = 0
  BY <1>5, HoldsNothing
<1>10. Facts(t)'
  BY <1>2, <1>3, <1>4, <1>5, <1>6, <1>7, <1>8, <1>9
  DEF Facts, PC, CacheType, CacheInv, SourceInv, MatrixInv, FreshCache,
      NoMatrix, Opening, Settled, PersistPC, MatrixPC
<1>11. ASSUME NEW r \in Resource PROVE BalancedAt(t, r)
  <2>1. /\ used'[r] = used[r] + 0 /\ real'[t][r] = real[t][r] + 0
        /\ (\A i \in {0} : i \in Int)
    BY <1>3, <1>4, RecordTypes DEF Facts
  <2>2. CacheMoves(t, r, 0, 0)
    <3>1. CacheCounted(t, r) = 0 /\ CacheOwned(t, r) = 0
      BY <1>3, <1>7, HoldsNothing DEF CacheCounted, CacheOwned, Opening
    <3>2. CacheCounted(t, r)' = 0 /\ CacheOwned(t, r)' = 0
      BY <1>5, <1>6, <1>7, <1>8, <1>9, <1>3, CacheBooksNext
      DEF Opening, Resource
    <3> QED BY <3>1, <3>2, <2>1 DEF CacheMoves
  <2>3. SourceMoves(t, r, 0, 0)
    <3>1. SourceCounted(t, r) = 0 /\ SourceOwned(t, r) = 0
      BY <1>3, <1>8, HoldsNothing DEF SourceCounted, SourceOwned, Opening
    <3>2. SourceCounted(t, r)' = 0 /\ SourceOwned(t, r)' = 0
      BY <1>5, <1>6, <1>7, <1>8, <1>9, <1>3
      DEF SourceCounted, SourceOwned, Opening
    <3> QED BY <3>1, <3>2, <2>1 DEF SourceMoves
  <2>4. MatrixMoves(t, r, 0, 0)
    BY <1>3, <1>5, <1>6, <1>7, <1>8, <1>9, MatrixStays
  <2> QED BY <2>1, <2>2, <2>3, <2>4, PartsBalance
<1>12. \A r \in Resource : BoundedAt(r)
  BY <1>2, <1>3, <1>4, <1>5, <1>6, <1>7, <1>8, <1>9, RecordTypes
  DEF BoundedAt, Granted, Facts
<1> QED BY <1>4, <1>10, <1>11, <1>12, <1>1, <1>2, ThreadStep

(* AcquireMatrixInfo: nothing is held yet.                                 *)
LEMMA AcquireMatrixInfoStep ==
    ASSUME IInv, NEW t \in Threads, NEW n \in Lengths, AcquireMatrixInfo(t, n)
    PROVE  IInv'
<1>1. Moves(t)
  BY FactsHold
  DEF Moves, TypeOK, AcquireMatrixInfo, Account, Goto, Become, AfterOpen, Fails,
      Note, GiveUp, Call
<1>2. /\ failed \subseteq failed'
      /\ failed' \subseteq AllFailures \union Refusals
      /\ calls' \in 0..MaxCalls
  BY FactsHold
  DEF TypeOK, AcquireMatrixInfo, AllFailures, Refusals, Call, Account, Goto,
      Become, AfterOpen, Fails, Note, GiveUp, Call
<1>3. /\ Facts(t) /\ used \in [Resource -> Int]
      /\ real[t] \in [Resource -> Nat]
      /\ pc[t] = "idle" /\ pc'[t] \in {"m_memory", "m_disk"}
      /\ UNCHANGED <<cache[t], source[t], copied[t], failed>>
      /\ matrix[t] = NoMatrix
  BY FactsHold
  DEF TypeOK, AcquireMatrixInfo, Account, Goto, Become, AfterOpen, Fails, Note,
      GiveUp, Call
<1>4. /\ used' \in [Resource -> Int] /\ real'[t] \in [Resource -> Int]
      /\ \A q \in Resource : used'[q] = used[q]
      /\ \A q \in Resource : real'[t][q] = real[t][q]
  <2>1. UNCHANGED <<used, real>>
    BY DEF AcquireMatrixInfo
  <2> QED BY <2>1, UnchangedIs, FactsHold
<1>5. /\ matrix'[t] \in Matrix /\ matrix'[t].type = "memory"
      /\ matrix'[t].length = n /\ ~matrix'[t].elements /\ ~matrix'[t].open
  <2>1. matrix'[t] = WantedMatrix(n)
    BY FactsHold DEF TypeOK, WantedMatrix, AcquireMatrixInfo
  <2> QED BY <2>1, MatrixMade
<1>6. Facts(t)'
  BY <1>2, <1>3, <1>4, <1>5
  DEF Facts, PC, CacheType, CacheInv, SourceInv, MatrixInv, FreshCache,
      NoMatrix, Opening, Settled, PersistPC, MatrixPC
<1>7. ASSUME NEW r \in Resource PROVE BalancedAt(t, r)
  <2>1. /\ used'[r] = used[r] + 0 /\ real'[t][r] = real[t][r] + 0
        /\ (\A i \in {0} : i \in Int)
    BY <1>3, <1>4, RecordTypes DEF Facts
  <2>2. CacheMoves(t, r, 0, 0)
    BY <1>3, <1>5, CacheStays DEF Opening
  <2>3. SourceMoves(t, r, 0, 0)
    BY <1>3, <1>5, SourceStays DEF Opening
  <2>4. MatrixMoves(t, r, 0, 0)
    <3>1. MatrixCounted(t, r) = 0 /\ MatrixOwned(t, r) = 0
      BY <1>3, MatrixHoldsNothing DEF MatrixCounted, MatrixOwned, Opening
    <3>2. MatrixCounted(t, r)' = 0 /\ MatrixOwned(t, r)' = 0
      BY <1>5, <1>3 DEF MatrixCounted, MatrixOwned, Opening
    <3> QED BY <3>1, <3>2, <2>1 DEF MatrixMoves
  <2> QED BY <2>1, <2>2, <2>3, <2>4, PartsBalance
<1>8. \A r \in Resource : BoundedAt(r)
  BY <1>2, <1>3, <1>4, <1>5, RecordTypes DEF BoundedAt, Granted, Facts
<1> QED BY <1>4, <1>6, <1>7, <1>8, <1>1, <1>2, ThreadStep

(* MatrixMemory: granted and allocated; granted but not allocated; refused.*)
LEMMA MatrixMemoryStep ==
    ASSUME IInv, NEW t \in Threads, MatrixMemory(t)
    PROVE  IInv'
<1> DEFINE n == matrix[t].length
<1>1. Moves(t)
  BY FactsHold
  DEF Moves, TypeOK, MatrixMemory, Account, Goto, Become, AfterOpen, Fails,
      Note, GiveUp
<1>2. /\ failed \subseteq failed'
      /\ failed' \subseteq AllFailures \union Refusals
      /\ calls' \in 0..MaxCalls
  BY FactsHold
  DEF TypeOK, MatrixMemory, AllFailures, Refusals, Account, Goto, Become,
      AfterOpen, Fails, Note, GiveUp
<1>3. /\ Facts(t) /\ used \in [Resource -> Int]
      /\ real[t] \in [Resource -> Nat]
      /\ pc[t] = "m_memory" /\ UNCHANGED <<cache[t], source[t], copied[t]>>
  BY FactsHold
  DEF TypeOK, MatrixMemory, Account, Goto, Become, AfterOpen, Fails, Note,
      GiveUp
<1>4. CASE /\ Granted("memory", n)
           /\ Account(t, "memory", n, n)
           /\ matrix' = [matrix EXCEPT ![t].elements = TRUE]
           /\ Goto(t, "idle")
           /\ UNCHANGED failed
  <2>1. /\ used' \in [Resource -> Int] /\ real'[t] \in [Resource -> Int]
        /\ \A q \in Resource :
              used'[q] = IF q = "memory" THEN used[q] + n ELSE used[q]
        /\ \A q \in Resource :
              real'[t][q] = IF q = "memory" THEN real[t][q] + n ELSE real[t][q]
    <3>1. n \in Int
      BY <1>4, <1>3, RecordTypes DEF Facts
    <3>2. "memory" \in Resource
      BY <1>4 DEF Resource
    <3>3. Account(t, "memory", n, n)
      BY <1>4
    <3> QED BY <3>1, <3>2, <3>3, AccountIs, FactsHold DEF TypeOK
  <2>2. /\ matrix'[t] \in Matrix /\ matrix'[t].type = matrix[t].type
        /\ matrix'[t].length = matrix[t].length /\ matrix'[t].elements
        /\ matrix'[t].open = matrix[t].open
    <3>1. matrix'[t] = InMemory(matrix[t])
      BY <1>4, FactsHold DEF TypeOK, InMemory
    <3>2. matrix[t] \in Matrix
      BY <1>4, <1>3 DEF Facts
    <3> QED BY <3>1, <3>2, MatrixElements
  <2>3. /\ pc'[t] = "idle"
    BY <1>4, FactsHold DEF TypeOK, Goto
  <2>4. /\ UNCHANGED failed /\ Granted("memory", n)
    BY <1>4
  <2>5. /\ matrix[t].type = "memory" /\ ~matrix[t].open
    BY <1>4, <1>3 DEF Facts, MatrixInv
  <2>6. /\ n \in Nat
    BY <1>4, <1>3, RecordTypes DEF Facts
  <2>7. Facts(t)'
    BY <1>2, <1>3, <2>1, <2>2, <2>3, <2>4, <2>5, <2>6
    DEF Facts, PC, CacheType, CacheInv, SourceInv, MatrixInv, FreshCache,
        NoMatrix, Opening, Settled, PersistPC, MatrixPC
  <2>8. ASSUME NEW r \in Resource PROVE BalancedAt(t, r)
    <3> DEFINE x == IF r = "memory" THEN n ELSE 0
    <3>1. /\ used'[r] = used[r] + x /\ real'[t][r] = real[t][r] + x
          /\ x \in Nat
          /\ (\A i \in {x, 0} : i \in Int)
      BY <1>3, <2>1, <2>6 DEF Facts
    <3>2. CacheMoves(t, r, 0, 0)
      BY <1>3, <2>2, <2>3, <2>4, <2>5, <2>6, CacheStays DEF Opening
    <3>3. SourceMoves(t, r, 0, 0)
      BY <1>3, <2>2, <2>3, <2>4, <2>5, <2>6, SourceStays DEF Opening
    <3>4. MatrixMoves(t, r, x, x)
      <4>1. MatrixCounted(t, r) = 0 /\ MatrixOwned(t, r) = 0
        BY <1>3 DEF MatrixCounted, MatrixOwned, Opening
      <4>2. MatrixCounted(t, r)' = x /\ MatrixOwned(t, r)' = x
        BY <2>2, <2>3, <2>4, <2>5, <2>6, <1>3, MatrixBooksNext
        DEF Opening, Resource
      <4> QED BY <4>1, <4>2, <3>1 DEF MatrixMoves
    <3> QED BY <3>1, <3>2, <3>3, <3>4, PartsBalance
  <2>9. \A r \in Resource : BoundedAt(r)
    BY <1>3, <2>1, RecordTypes, <2>4 DEF BoundedAt, Granted, Facts
  <2> QED BY <2>1, <2>7, <2>8, <2>9, <1>1, <1>2, ThreadStep
<1>5. CASE /\ Granted("memory", n) /\ Fails("m_alloc")
           /\ Goto(t, "m_disk")
           /\ UNCHANGED <<used, real, matrix>>
  <2>1. /\ used' \in [Resource -> Int] /\ real'[t] \in [Resource -> Int]
        /\ \A q \in Resource : used'[q] = used[q]
        /\ \A q \in Resource : real'[t][q] = real[t][q]
    <3>1. UNCHANGED <<used, real>>
      BY <1>5
    <3> QED BY <3>1, UnchangedIs, FactsHold
  <2>2. /\ pc'[t] = "m_disk"
    BY <1>5, FactsHold DEF TypeOK, Goto
  <2>3. /\ UNCHANGED matrix[t]
    BY <1>5
  <2>4. Facts(t)'
    BY <1>2, <1>3, <2>1, <2>2, <2>3
    DEF Facts, PC, CacheType, CacheInv, SourceInv, MatrixInv, FreshCache,
        NoMatrix, Opening, Settled, PersistPC, MatrixPC
  <2>5. ASSUME NEW r \in Resource PROVE BalancedAt(t, r)
    <3>1. /\ used'[r] = used[r] + 0 /\ real'[t][r] = real[t][r] + 0
          /\ (\A i \in {0} : i \in Int)
      BY <1>3, <2>1, RecordTypes DEF Facts
    <3>2. CacheMoves(t, r, 0, 0)
      BY <1>3, <2>2, <2>3, CacheStays DEF Opening
    <3>3. SourceMoves(t, r, 0, 0)
      BY <1>3, <2>2, <2>3, SourceStays DEF Opening
    <3>4. MatrixMoves(t, r, 0, 0)
      BY <1>3, <2>2, <2>3, MatrixStaysWanted
    <3> QED BY <3>1, <3>2, <3>3, <3>4, PartsBalance
  <2>6. \A r \in Resource : BoundedAt(r)
    BY <1>2, <1>3, <2>1, <2>2, <2>3, RecordTypes DEF BoundedAt, Granted, Facts
  <2> QED BY <2>1, <2>4, <2>5, <2>6, <1>1, <1>2, ThreadStep
<1>6. CASE /\ ~Granted("memory", n)
           /\ Goto(t, "m_disk")
           /\ UNCHANGED <<used, real, matrix, failed>>
  <2>1. /\ used' \in [Resource -> Int] /\ real'[t] \in [Resource -> Int]
        /\ \A q \in Resource : used'[q] = used[q]
        /\ \A q \in Resource : real'[t][q] = real[t][q]
    <3>1. UNCHANGED <<used, real>>
      BY <1>6
    <3> QED BY <3>1, UnchangedIs, FactsHold
  <2>2. /\ pc'[t] = "m_disk"
    BY <1>6, FactsHold DEF TypeOK, Goto
  <2>3. /\ UNCHANGED <<matrix[t], failed>>
    BY <1>6
  <2>4. Facts(t)'
    BY <1>2, <1>3, <2>1, <2>2, <2>3
    DEF Facts, PC, CacheType, CacheInv, SourceInv, MatrixInv, FreshCache,
        NoMatrix, Opening, Settled, PersistPC, MatrixPC
  <2>5. ASSUME NEW r \in Resource PROVE BalancedAt(t, r)
    <3>1. /\ used'[r] = used[r] + 0 /\ real'[t][r] = real[t][r] + 0
          /\ (\A i \in {0} : i \in Int)
      BY <1>3, <2>1, RecordTypes DEF Facts
    <3>2. CacheMoves(t, r, 0, 0)
      BY <1>3, <2>2, <2>3, CacheStays DEF Opening
    <3>3. SourceMoves(t, r, 0, 0)
      BY <1>3, <2>2, <2>3, SourceStays DEF Opening
    <3>4. MatrixMoves(t, r, 0, 0)
      BY <1>3, <2>2, <2>3, MatrixStaysWanted
    <3> QED BY <3>1, <3>2, <3>3, <3>4, PartsBalance
  <2>6. \A r \in Resource : BoundedAt(r)
    BY <1>2, <1>3, <2>1, <2>2, <2>3, RecordTypes DEF BoundedAt, Granted, Facts
  <2> QED BY <2>1, <2>4, <2>5, <2>6, <1>1, <1>2, ThreadStep
<1> QED BY <1>4, <1>5, <1>6 DEF MatrixMemory

(* MatrixDisk: granted; granted but not opened; refused, and a matrix of   *)
(* type memory goes to its destruction.                                    *)
LEMMA MatrixDiskStep ==
    ASSUME IInv, NEW t \in Threads, MatrixDisk(t)
    PROVE  IInv'
<1> DEFINE n == matrix[t].length
<1>1. Moves(t)
  BY FactsHold
  DEF Moves, TypeOK, MatrixDisk, Account, Goto, Become, AfterOpen, Fails, Note,
      GiveUp
<1>2. /\ failed \subseteq failed'
      /\ failed' \subseteq AllFailures \union Refusals
      /\ calls' \in 0..MaxCalls
  BY FactsHold
  DEF TypeOK, MatrixDisk, AllFailures, Refusals, Account, Goto, Become,
      AfterOpen, Fails, Note, GiveUp
<1>3. /\ Facts(t) /\ used \in [Resource -> Int]
      /\ real[t] \in [Resource -> Nat]
      /\ pc[t] = "m_disk" /\ UNCHANGED <<cache[t], source[t], copied[t]>>
  BY FactsHold
  DEF TypeOK, MatrixDisk, Account, Goto, Become, AfterOpen, Fails, Note, GiveUp
<1>4. CASE /\ Granted("disk", n)
           /\ Account(t, "disk", n, n)
           /\ matrix' = [matrix EXCEPT ![t].type = "disk", ![t].open = TRUE]
           /\ Goto(t, "m_map")
           /\ UNCHANGED failed
  <2>1. /\ used' \in [Resource -> Int] /\ real'[t] \in [Resource -> Int]
        /\ \A q \in Resource :
              used'[q] = IF q = "disk" THEN used[q] + n ELSE used[q]
        /\ \A q \in Resource :
              real'[t][q] = IF q = "disk" THEN real[t][q] + n ELSE real[t][q]
    <3>1. n \in Int
      BY <1>4, <1>3, RecordTypes DEF Facts
    <3>2. "disk" \in Resource
      BY <1>4 DEF Resource
    <3>3. Account(t, "disk", n, n)
      BY <1>4
    <3> QED BY <3>1, <3>2, <3>3, AccountIs, FactsHold DEF TypeOK
  <2>2. /\ matrix'[t] \in Matrix /\ matrix'[t].type = "disk"
        /\ matrix'[t].length = matrix[t].length
        /\ matrix'[t].elements = matrix[t].elements /\ matrix'[t].open
    <3>1. matrix'[t] = OnDisk(matrix[t])
      BY <1>4, FactsHold DEF TypeOK, OnDisk
    <3>2. matrix[t] \in Matrix
      BY <1>4, <1>3 DEF Facts
    <3> QED BY <3>1, <3>2, MatrixOnDisk
  <2>3. /\ pc'[t] = "m_map"
    BY <1>4, FactsHold DEF TypeOK, Goto
  <2>4. /\ UNCHANGED failed /\ Granted("disk", n)
    BY <1>4
  <2>5. /\ matrix[t].type = "memory" /\ ~matrix[t].open /\ ~matrix[t].elements
    BY <1>4, <1>3 DEF Facts, MatrixInv
  <2>6. /\ n \in Nat
    BY <1>4, <1>3, RecordTypes DEF Facts
  <2>7. Facts(t)'
    BY <1>2, <1>3, <2>1, <2>2, <2>3, <2>4, <2>5, <2>6
    DEF Facts, PC, CacheType, CacheInv, SourceInv, MatrixInv, FreshCache,
        NoMatrix, Opening, Settled, PersistPC, MatrixPC
  <2>8. ASSUME NEW r \in Resource PROVE BalancedAt(t, r)
    <3> DEFINE x == IF r = "disk" THEN n ELSE 0
    <3>1. /\ used'[r] = used[r] + x /\ real'[t][r] = real[t][r] + x
          /\ x \in Nat
          /\ (\A i \in {x, 0} : i \in Int)
      BY <1>3, <2>1, <2>6 DEF Facts
    <3>2. CacheMoves(t, r, 0, 0)
      BY <1>3, <2>2, <2>3, <2>4, <2>5, <2>6, CacheStays DEF Opening
    <3>3. SourceMoves(t, r, 0, 0)
      BY <1>3, <2>2, <2>3, <2>4, <2>5, <2>6, SourceStays DEF Opening
    <3>4. MatrixMoves(t, r, x, x)
      <4>1. MatrixCounted(t, r) = 0 /\ MatrixOwned(t, r) = 0
        BY <1>3 DEF MatrixCounted, MatrixOwned, Opening
      <4>2. MatrixCounted(t, r)' = x /\ MatrixOwned(t, r)' = x
        BY <2>2, <2>3, <2>4, <2>5, <2>6, <1>3, MatrixBooksNext
        DEF Opening, Resource
      <4> QED BY <4>1, <4>2, <3>1 DEF MatrixMoves
    <3> QED BY <3>1, <3>2, <3>3, <3>4, PartsBalance
  <2>9. \A r \in Resource : BoundedAt(r)
    BY <1>3, <2>1, RecordTypes, <2>4 DEF BoundedAt, Granted, Facts
  <2> QED BY <2>1, <2>7, <2>8, <2>9, <1>1, <1>2, ThreadStep
<1>5. CASE /\ Granted("disk", n) /\ Fails("m_open")
           /\ Account(t, "disk", n, 0)
           /\ matrix' = [matrix EXCEPT ![t].type = "disk"]
           /\ Goto(t, "m_destroy")
  <2>1. /\ used' \in [Resource -> Int] /\ real'[t] \in [Resource -> Int]
        /\ \A q \in Resource :
              used'[q] = IF q = "disk" THEN used[q] + n ELSE used[q]
        /\ \A q \in Resource : real'[t][q] = real[t][q]
    <3>1. n \in Int /\ 0 \in Int
      BY <1>5, <1>3, RecordTypes DEF Facts
    <3>2. "disk" \in Resource
      BY <1>5 DEF Resource
    <3>3. Account(t, "disk", n, 0)
      BY <1>5
    <3> QED BY <3>1, <3>2, <3>3, AccountIs, FactsHold DEF TypeOK
  <2>2. /\ matrix'[t] \in Matrix /\ matrix'[t].type = "disk"
        /\ matrix'[t].length = matrix[t].length
        /\ matrix'[t].elements = matrix[t].elements
        /\ matrix'[t].open = matrix[t].open
    <3>1. matrix'[t] = OfDisk(matrix[t])
      BY <1>5, FactsHold DEF TypeOK, OfDisk
    <3>2. matrix[t] \in Matrix
      BY <1>5, <1>3 DEF Facts
    <3> QED BY <3>1, <3>2, MatrixTypeDisk
  <2>3. /\ pc'[t] = "m_destroy"
    BY <1>5, FactsHold DEF TypeOK, Goto
  <2>4. /\ Granted("disk", n)
    BY <1>5
  <2>5. /\ matrix[t].type = "memory" /\ ~matrix[t].open /\ ~matrix[t].elements
    BY <1>5, <1>3 DEF Facts, MatrixInv
  <2>6. /\ n \in Nat
    BY <1>5, <1>3, RecordTypes DEF Facts
  <2>7. Facts(t)'
    BY <1>2, <1>3, <2>1, <2>2, <2>3, <2>4, <2>5, <2>6
    DEF Facts, PC, CacheType, CacheInv, SourceInv, MatrixInv, FreshCache,
        NoMatrix, Opening, Settled, PersistPC, MatrixPC
  <2>8. ASSUME NEW r \in Resource PROVE BalancedAt(t, r)
    <3> DEFINE x == IF r = "disk" THEN n ELSE 0
    <3>1. /\ used'[r] = used[r] + x /\ real'[t][r] = real[t][r] + 0
          /\ x \in Nat
          /\ (\A i \in {x, 0} : i \in Int)
      BY <1>3, <2>1, <2>6 DEF Facts
    <3>2. CacheMoves(t, r, 0, 0)
      BY <1>3, <2>2, <2>3, <2>4, <2>5, <2>6, CacheStays DEF Opening
    <3>3. SourceMoves(t, r, 0, 0)
      BY <1>3, <2>2, <2>3, <2>4, <2>5, <2>6, SourceStays DEF Opening
    <3>4. MatrixMoves(t, r, x, 0)
      <4>1. MatrixCounted(t, r) = 0 /\ MatrixOwned(t, r) = 0
        BY <1>3 DEF MatrixCounted, MatrixOwned, Opening
      <4>2. MatrixCounted(t, r)' = x /\ MatrixOwned(t, r)' = 0
        BY <2>2, <2>3, <2>4, <2>5, <2>6, <1>3, MatrixBooksNext
        DEF Opening, Resource
      <4> QED BY <4>1, <4>2, <3>1 DEF MatrixMoves
    <3> QED BY <3>1, <3>2, <3>3, <3>4, PartsBalance
  <2>9. \A r \in Resource : BoundedAt(r)
    BY <1>3, <2>1, RecordTypes, <2>4 DEF BoundedAt, Granted, Facts
  <2> QED BY <2>1, <2>7, <2>8, <2>9, <1>1, <1>2, ThreadStep
<1>6. CASE /\ ~Granted("disk", n)
           /\ Note("m_disk")
           /\ Goto(t, "m_destroy")
           /\ UNCHANGED <<used, real, matrix>>
  <2>1. /\ used' \in [Resource -> Int] /\ real'[t] \in [Resource -> Int]
        /\ \A q \in Resource : used'[q] = used[q]
        /\ \A q \in Resource : real'[t][q] = real[t][q]
    <3>1. UNCHANGED <<used, real>>
      BY <1>6
    <3> QED BY <3>1, UnchangedIs, FactsHold
  <2>2. /\ pc'[t] = "m_destroy"
    BY <1>6, FactsHold DEF TypeOK, Goto
  <2>3. /\ UNCHANGED matrix[t]
    BY <1>6
  <2>4. /\ "m_disk" \in failed' /\ ~Clean'
    BY <1>6 DEF Note, Clean
  <2>5. /\ matrix[t].type = "memory" /\ ~matrix[t].open /\ ~matrix[t].elements
    BY <1>6, <1>3 DEF Facts, MatrixInv
  <2>6. /\ n \in Nat
    BY <1>6, <1>3, RecordTypes DEF Facts
  <2>7. Facts(t)'
    BY <1>2, <1>3, <2>1, <2>2, <2>3, <2>4, <2>5, <2>6
    DEF Facts, PC, CacheType, CacheInv, SourceInv, MatrixInv, FreshCache,
        NoMatrix, Opening, Settled, PersistPC, MatrixPC
  <2>8. ASSUME NEW r \in Resource PROVE BalancedAt(t, r)
    <3> DEFINE x == IF r = "memory" THEN n ELSE 0
    <3>1. /\ used'[r] = used[r] + 0 /\ real'[t][r] = real[t][r] + 0
          /\ x \in Nat
          /\ (\A i \in {0, x} : i \in Int)
      BY <1>3, <2>1, <2>6 DEF Facts
    <3>2. CacheMoves(t, r, 0, 0)
      BY <1>3, <2>2, <2>3, <2>4, <2>5, <2>6, CacheStays DEF Opening
    <3>3. SourceMoves(t, r, 0, 0)
      BY <1>3, <2>2, <2>3, <2>4, <2>5, <2>6, SourceStays DEF Opening
    <3>4. MatrixMoves(t, r, x, 0)
      <4>1. MatrixCounted(t, r) = 0 /\ MatrixOwned(t, r) = 0
        BY <1>3 DEF MatrixCounted, MatrixOwned, Opening
      <4>2. MatrixCounted(t, r)' = x /\ MatrixOwned(t, r)' = 0
        BY <2>2, <2>3, <2>4, <2>5, <2>6, <1>3, MatrixBooksNext
        DEF Opening, Resource
      <4> QED BY <4>1, <4>2, <3>1 DEF MatrixMoves
    <3> QED BY <3>1, <3>2, <3>3, <3>4, <2>4, PartsBalance
  <2>9. \A r \in Resource : BoundedAt(r)
    BY <1>2, <1>3, <2>1, <2>2, <2>3, <2>4, <2>5, <2>6, RecordTypes
    DEF BoundedAt, Granted, Facts
  <2> QED BY <2>1, <2>7, <2>8, <2>9, <1>1, <1>2, ThreadStep
<1> QED BY <1>4, <1>5, <1>6 DEF MatrixDisk

(* MatrixMap: mapped, on top of its file; not mapped; refused.             *)
LEMMA MatrixMapStep ==
    ASSUME IInv, NEW t \in Threads, MatrixMap(t)
    PROVE  IInv'
<1> DEFINE n == matrix[t].length
<1>1. Moves(t)
  BY FactsHold
  DEF Moves, TypeOK, MatrixMap, Account, Goto, Become, AfterOpen, Fails, Note,
      GiveUp
<1>2. /\ failed \subseteq failed'
      /\ failed' \subseteq AllFailures \union Refusals
      /\ calls' \in 0..MaxCalls
  BY FactsHold
  DEF TypeOK, MatrixMap, AllFailures, Refusals, Account, Goto, Become,
      AfterOpen, Fails, Note, GiveUp
<1>3. /\ Facts(t) /\ used \in [Resource -> Int]
      /\ real[t] \in [Resource -> Nat]
      /\ pc[t] = "m_map" /\ pc'[t] = "idle"
      /\ UNCHANGED <<cache[t], source[t], copied[t]>>
  BY FactsHold
  DEF TypeOK, MatrixMap, Account, Goto, Become, AfterOpen, Fails, Note, GiveUp
<1>4. CASE /\ Granted("map", n)
           /\ Account(t, "map", n, n)
           /\ matrix' = [matrix EXCEPT ![t].type = "map", ![t].elements = TRUE]
           /\ UNCHANGED failed
  <2>1. /\ used' \in [Resource -> Int] /\ real'[t] \in [Resource -> Int]
        /\ \A q \in Resource :
              used'[q] = IF q = "map" THEN used[q] + n ELSE used[q]
        /\ \A q \in Resource :
              real'[t][q] = IF q = "map" THEN real[t][q] + n ELSE real[t][q]
    <3>1. n \in Int
      BY <1>4, <1>3, RecordTypes DEF Facts
    <3>2. "map" \in Resource
      BY <1>4 DEF Resource
    <3>3. Account(t, "map", n, n)
      BY <1>4
    <3> QED BY <3>1, <3>2, <3>3, AccountIs, FactsHold DEF TypeOK
  <2>2. /\ matrix'[t] \in Matrix /\ matrix'[t].type = "map"
        /\ matrix'[t].length = matrix[t].length /\ matrix'[t].elements
        /\ matrix'[t].open = matrix[t].open
    <3>1. matrix'[t] = InMap(matrix[t])
      BY <1>4, FactsHold DEF TypeOK, InMap
    <3>2. matrix[t] \in Matrix
      BY <1>4, <1>3 DEF Facts
    <3> QED BY <3>1, <3>2, MatrixMapped
  <2>3. /\ UNCHANGED failed /\ Granted("map", n)
    BY <1>4
  <2>4. /\ matrix[t].type = "disk" /\ matrix[t].open /\ ~matrix[t].elements
    BY <1>4, <1>3 DEF Facts, MatrixInv
  <2>5. /\ n \in Nat
    BY <1>4, <1>3, RecordTypes DEF Facts
  <2>6. Facts(t)'
    BY <1>2, <1>3, <2>1, <2>2, <2>3, <2>4, <2>5
    DEF Facts, PC, CacheType, CacheInv, SourceInv, MatrixInv, FreshCache,
        NoMatrix, Opening, Settled, PersistPC, MatrixPC
  <2>7. ASSUME NEW r \in Resource PROVE BalancedAt(t, r)
    <3> DEFINE x == IF r = "map" THEN n ELSE 0
               k == IF r = "disk" THEN n ELSE 0
               h == IF r \in {"map", "disk"} THEN n ELSE 0
    <3>1. /\ used'[r] = used[r] + x /\ real'[t][r] = real[t][r] + x
          /\ x \in Nat
          /\ k \in Nat /\ (\A i \in {x, 0} : i \in Int)
      BY <1>3, <2>1, <2>5 DEF Facts
    <3>2. CacheMoves(t, r, 0, 0)
      BY <1>3, <2>2, <2>3, <2>4, <2>5, CacheStays DEF Opening
    <3>3. SourceMoves(t, r, 0, 0)
      BY <1>3, <2>2, <2>3, <2>4, <2>5, SourceStays DEF Opening
    <3>4. MatrixMoves(t, r, x, x)
      <4>1. MatrixCounted(t, r) = k /\ MatrixOwned(t, r) = k
        BY <1>3, <2>2, <2>3, <2>4, <2>5, <1>3, MatrixBooks DEF Opening, Resource
      <4>2. MatrixCounted(t, r)' = h /\ MatrixOwned(t, r)' = h
        BY <2>2, <2>3, <2>4, <2>5, <1>3, MatrixBooksNext DEF Opening, Resource
      <4> QED BY <4>1, <4>2, <3>1 DEF MatrixMoves
    <3> QED BY <3>1, <3>2, <3>3, <3>4, PartsBalance
  <2>8. \A r \in Resource : BoundedAt(r)
    BY <1>3, <2>1, RecordTypes, <2>3 DEF BoundedAt, Granted, Facts
  <2> QED BY <2>1, <2>6, <2>7, <2>8, <1>1, <1>2, ThreadStep
<1>5. CASE /\ Granted("map", n) /\ Fails("m_map")
           /\ UNCHANGED <<used, real, matrix>>
  <2>1. /\ used' \in [Resource -> Int] /\ real'[t] \in [Resource -> Int]
        /\ \A q \in Resource : used'[q] = used[q]
        /\ \A q \in Resource : real'[t][q] = real[t][q]
    <3>1. UNCHANGED <<used, real>>
      BY <1>5
    <3> QED BY <3>1, UnchangedIs, FactsHold
  <2>2. /\ UNCHANGED matrix[t]
    BY <1>5
  <2>3. Facts(t)'
    BY <1>2, <1>3, <2>1, <2>2
    DEF Facts, PC, CacheType, CacheInv, SourceInv, MatrixInv, FreshCache,
        NoMatrix, Opening, Settled, PersistPC, MatrixPC
  <2>4. ASSUME NEW r \in Resource PROVE BalancedAt(t, r)
    <3>1. /\ used'[r] = used[r] + 0 /\ real'[t][r] = real[t][r] + 0
          /\ (\A i \in {0} : i \in Int)
      BY <1>3, <2>1, RecordTypes DEF Facts
    <3>2. CacheMoves(t, r, 0, 0)
      BY <1>3, <2>2, CacheStays DEF Opening
    <3>3. SourceMoves(t, r, 0, 0)
      BY <1>3, <2>2, SourceStays DEF Opening
    <3>4. MatrixMoves(t, r, 0, 0)
      BY <1>3, <2>2, MatrixStays
    <3> QED BY <3>1, <3>2, <3>3, <3>4, PartsBalance
  <2>5. \A r \in Resource : BoundedAt(r)
    BY <1>2, <1>3, <2>1, <2>2, RecordTypes DEF BoundedAt, Granted, Facts
  <2> QED BY <2>1, <2>3, <2>4, <2>5, <1>1, <1>2, ThreadStep
<1>6. CASE /\ ~Granted("map", n)
           /\ UNCHANGED <<used, real, matrix, failed>>
  <2>1. /\ used' \in [Resource -> Int] /\ real'[t] \in [Resource -> Int]
        /\ \A q \in Resource : used'[q] = used[q]
        /\ \A q \in Resource : real'[t][q] = real[t][q]
    <3>1. UNCHANGED <<used, real>>
      BY <1>6
    <3> QED BY <3>1, UnchangedIs, FactsHold
  <2>2. /\ UNCHANGED <<matrix[t], failed>>
    BY <1>6
  <2>3. Facts(t)'
    BY <1>2, <1>3, <2>1, <2>2
    DEF Facts, PC, CacheType, CacheInv, SourceInv, MatrixInv, FreshCache,
        NoMatrix, Opening, Settled, PersistPC, MatrixPC
  <2>4. ASSUME NEW r \in Resource PROVE BalancedAt(t, r)
    <3>1. /\ used'[r] = used[r] + 0 /\ real'[t][r] = real[t][r] + 0
          /\ (\A i \in {0} : i \in Int)
      BY <1>3, <2>1, RecordTypes DEF Facts
    <3>2. CacheMoves(t, r, 0, 0)
      BY <1>3, <2>2, CacheStays DEF Opening
    <3>3. SourceMoves(t, r, 0, 0)
      BY <1>3, <2>2, SourceStays DEF Opening
    <3>4. MatrixMoves(t, r, 0, 0)
      BY <1>3, <2>2, MatrixStays
    <3> QED BY <3>1, <3>2, <3>3, <3>4, PartsBalance
  <2>5. \A r \in Resource : BoundedAt(r)
    BY <1>2, <1>3, <2>1, <2>2, RecordTypes DEF BoundedAt, Granted, Facts
  <2> QED BY <2>1, <2>3, <2>4, <2>5, <1>1, <1>2, ThreadStep
<1> QED BY <1>4, <1>5, <1>6 DEF MatrixMap

(* DestroyMatrixInfo gives back all that is counted for the matrix.        *)
LEMMA DestroyMatrixInfoStep ==
    ASSUME IInv, NEW t \in Threads, DestroyMatrixInfo(t)
    PROVE  IInv'
<1>1. Moves(t)
  BY FactsHold
  DEF Moves, TypeOK, DestroyMatrixInfo, Account, Goto, Become, AfterOpen, Fails,
      Note, GiveUp
<1>2. /\ failed \subseteq failed'
      /\ failed' \subseteq AllFailures \union Refusals
      /\ calls' \in 0..MaxCalls
  BY FactsHold
  DEF TypeOK, DestroyMatrixInfo, AllFailures, Refusals, Account, Goto, Become,
      AfterOpen, Fails, Note, GiveUp
<1>3. /\ Facts(t) /\ used \in [Resource -> Int]
      /\ real[t] \in [Resource -> Nat]
      /\ pc[t] \in {"idle", "m_destroy"} /\ pc'[t] = "idle"
      /\ UNCHANGED <<cache[t], source[t], copied[t], failed>>
  BY FactsHold
  DEF TypeOK, DestroyMatrixInfo, Account, Goto, Become, AfterOpen, Fails, Note,
      GiveUp
<1>4. /\ used' \in [Resource -> Int] /\ real'[t] \in [Resource -> Int]
      /\ \A q \in Resource : used'[q] = used[q] - MatrixHolds(matrix[t])[q]
      /\ \A q \in Resource :
            real'[t][q] = real[t][q] - MatrixFrees(matrix[t])[q]
  <2>1. matrix[t] \in Matrix
    BY <1>3 DEF Facts
  <2>2. used' = [r \in Resource |-> used[r] - MatrixHolds(matrix[t])[r]]
    BY DEF DestroyMatrixInfo
  <2>3. real' = [real EXCEPT ![t] = [r \in Resource |-> @[r] - MatrixFrees(matrix[t])[r]]]
    BY DEF DestroyMatrixInfo
  <2> QED BY <2>1, <2>2, <2>3, MatrixReturnIs, FactsHold
<1>5. /\ matrix'[t] \in Matrix /\ matrix'[t] = NoMatrix
      /\ matrix'[t].type = "undefined" /\ matrix'[t].length = 0
      /\ ~matrix'[t].elements /\ ~matrix'[t].open
  <2>1. matrix'[t] = NoMatrix
    BY FactsHold DEF TypeOK, DestroyMatrixInfo
  <2> QED BY <2>1, FreshTypes
<1>6. Facts(t)'
  BY <1>2, <1>3, <1>4, <1>5
  DEF Facts, PC, CacheType, CacheInv, SourceInv, MatrixInv, FreshCache,
      NoMatrix, Opening, Settled, PersistPC, MatrixPC
<1>7. ASSUME NEW r \in Resource PROVE BalancedAt(t, r)
  <2> DEFINE h == MatrixHolds(matrix[t])[r]
             g == MatrixFrees(matrix[t])[r]
  <2>1. /\ used'[r] = used[r] + (-h) /\ real'[t][r] = real[t][r] + (-g)
        /\ h \in Nat /\ g \in Nat /\ g <= h
        /\ (\A i \in {(-h), (-g), 0} : i \in Int)
    BY <1>3, <1>4, RecordTypes, MatrixHoldsType DEF Facts
  <2>2. CacheMoves(t, r, 0, 0)
    BY <1>3, <1>5, CacheStays DEF Opening
  <2>3. SourceMoves(t, r, 0, 0)
    BY <1>3, <1>5, SourceStays DEF Opening
  <2>4. MatrixMoves(t, r, (-h), (-g))
    <3>1. MatrixCounted(t, r) = h /\ MatrixOwned(t, r) = g
      BY <1>3 DEF MatrixCounted, MatrixOwned, Opening
    <3>2. MatrixCounted(t, r)' = 0 /\ MatrixOwned(t, r)' = 0
      BY <1>5, <1>3, MatrixBooksNext DEF Opening, Resource
    <3> QED BY <3>1, <3>2, <2>1 DEF MatrixMoves
  <2> HIDE DEF h, g
  <2> QED BY <2>1, <2>2, <2>3, <2>4, PartsBalance
<1>8. \A r \in Resource : BoundedAt(r)
  BY <1>3, <1>4, RecordTypes, MatrixHoldsType DEF BoundedAt, Granted, Facts
<1> QED BY <1>4, <1>6, <1>7, <1>8, <1>1, <1>2, ThreadStep

-----------------------------------------------------------------------------
(* The invariant holds                                                     *)

(* The invariant holds at the start.                                       *)
LEMMA InitInv == Init => IInv
<1> SUFFICES ASSUME Init PROVE IInv
  OBVIOUS
<1>1. TypeOK
  BY FreshTypes DEF Init, TypeOK, Resource, PC
<1>2. ASSUME NEW t \in Threads
      PROVE  /\ cache[t] = FreshCache /\ source[t] = FreshCache /\ matrix[t] = NoMatrix
             /\ pc[t] = "idle" /\ \A r \in Resource : real[t][r] = 0
  BY DEF Init
<1>3. ControlInv
  BY <1>2, FreshTypes
  DEF ControlInv, CacheInv, SourceInv, MatrixInv, Opening, Settled, PersistPC,
      MatrixPC
<1>4. ASSUME NEW t \in Threads, NEW r \in Resource
      PROVE  Counted(t, r) = 0 /\ Owned(t, r) = 0 /\ real[t][r] = 0
  <2>1. Holds(FreshCache)[r] = 0 /\ Frees(FreshCache)[r] = 0
    BY HoldsNothing, FreshTypes
  <2>2. CacheCounted(t, r) = 0 /\ CacheOwned(t, r) = 0
    BY <1>2, <2>1, FreshTypes DEF CacheCounted, CacheOwned, Opening
  <2>3. SourceCounted(t, r) = 0 /\ SourceOwned(t, r) = 0
    BY <1>2, <2>1 DEF SourceCounted, SourceOwned
  <2>4. MatrixCounted(t, r) = 0 /\ MatrixOwned(t, r) = 0
    BY <1>2, MatrixHoldsNothing DEF MatrixCounted, MatrixOwned
  <2> QED BY <1>2, <2>2, <2>3, <2>4 DEF Counted, Owned
<1>5. ASSUME NEW r \in Resource PROVE used[r] = 0 /\ Total(Amounts(r)) = 0
  <2>1. used[r] = 0
    BY DEF Init
  <2>2. Amounts(r) \in [Threads -> Nat] /\ \A t \in Threads : Amounts(r)[t] = 0
    BY <1>4 DEF Amounts, Amount
  <2> QED BY <2>1, <2>2, TotalOfNothing
<1>6. OwnedInv /\ UsageInv /\ ExactInv /\ LimitInv
  BY <1>4, <1>5 DEF OwnedInv, UsageInv, ExactInv, LimitInv
<1> QED BY <1>1, <1>3, <1>6 DEF IInv

(* Every action keeps it.                                                  *)
LEMMA StepInv == ASSUME IInv, NEW t \in Threads, Step(t) PROVE IInv'
<1>1. ASSUME NEW n \in Lengths,
             OpenPixelCache(t, n) \/ AttachPixelCache(t, n) \/ AcquireMatrixInfo(t, n)
      PROVE  IInv'
  BY <1>1, OpenPixelCacheStep, AttachPixelCacheStep, AcquireMatrixInfoStep
<1>2. CASE TryMemory(t) \/ TryDisk(t) \/ CreateFile(t) \/ SetPixelCacheExtent(t) \/ TryMap(t)
  BY <1>2, TryMemoryStep, TryDiskStep, CreateFileStep, SetPixelCacheExtentStep, TryMapStep
<1>3. CASE CopyOldPixels(t) \/ RelinquishOldPixels(t) \/ FinishOpen(t)
  BY <1>3, CopyOldPixelsStep, RelinquishOldPixelsStep, FinishOpenStep
<1>4. CASE OpenPixelCacheOnDisk(t) \/ DestroyPixelCache(t)
  BY <1>4, OpenPixelCacheOnDiskStep, DestroyPixelCacheStep
<1>5. CASE PersistPixelCache(t) \/ PersistOpen(t) \/ PersistDone(t)
  BY <1>5, PersistPixelCacheStep, PersistOpenStep, PersistDoneStep
<1>6. CASE MatrixMemory(t) \/ MatrixDisk(t) \/ MatrixMap(t) \/ DestroyMatrixInfo(t)
  BY <1>6, MatrixMemoryStep, MatrixDiskStep, MatrixMapStep, DestroyMatrixInfoStep
<1> QED BY <1>1, <1>2, <1>3, <1>4, <1>5, <1>6 DEF Step

(* So does a step that changes nothing.                                    *)
LEMMA StutterInv == ASSUME IInv, UNCHANGED vars PROVE IInv'
<1>1. /\ used' = used /\ cache' = cache /\ source' = source /\ matrix' = matrix
      /\ pc' = pc /\ copied' = copied /\ real' = real /\ failed' = failed
      /\ calls' = calls
  BY DEF vars
<1>2. TypeOK' /\ ControlInv' /\ LimitInv'
  BY <1>1
  DEF IInv, TypeOK, ControlInv, CacheInv, SourceInv, MatrixInv, LimitInv
<1>3. \A t \in Threads, r \in Resource :
         Counted(t, r)' = Counted(t, r) /\ Owned(t, r)' = Owned(t, r)
  BY <1>1
  DEF Counted, Owned, CacheCounted, CacheOwned, SourceCounted, SourceOwned,
      MatrixCounted, MatrixOwned
<1>4. \A r \in Resource : Amounts(r)' = Amounts(r)
  BY <1>1, <1>3 DEF Amounts, Amount
<1>5. \A r \in Resource : Total(Amounts(r))' = Total(Amounts(r))
  BY <1>4 DEF Total
<1>6. OwnedInv' /\ UsageInv' /\ ExactInv'
  BY <1>1, <1>3, <1>5 DEF IInv, OwnedInv, UsageInv, ExactInv, Clean
<1> QED BY <1>2, <1>6 DEF IInv

(* So does every step.                                                     *)
LEMMA NextInv == IInv /\ [Next]_vars => IInv'
BY StepInv, StutterInv DEF Next, Terminated

(* The invariant the theorems below follow from: the counters cover what   *)
(* every thread holds and what is lost, and stay below their limits.       *)
THEOREM Invariance == Spec => []IInv
BY InitInv, NextInv, PTL DEF Spec

-----------------------------------------------------------------------------
(* What it implies                                                         *)

(* What is really held by all threads is covered by their amounts.         *)
LEMMA TotalsOrdered ==
    ASSUME IInv, NEW r \in Resource
    PROVE  /\ RealTotal(r) \in Nat /\ Total(Amounts(r)) \in Nat
           /\ RealTotal(r) <= Total(Amounts(r))
<1> DEFINE f == [t \in Threads |-> real[t][r]]
<1>1. /\ f \in [Threads -> Nat] /\ Amounts(r) \in [Threads -> Nat]
      /\ \A t \in Threads : f[t] <= Amounts(r)[t]
  BY AmountType DEF IInv, Amounts
<1>2. RealTotal(r) = Total(f)
  BY DEF RealTotal
<1> HIDE DEF f
<1> QED BY <1>1, <1>2, TotalMonotone, AllUnitsFinite

(* AcquireMagickResource and RelinquishMagickResource, on every            *)
(* interleaving of their callers: no counter falls below what the process  *)
(* really holds, until a matrix is refused disk space.                     *)
THEOREM UsageCorrect == Spec => []UsageCounted
<1>1. IInv => UsageCounted
  <2> SUFFICES ASSUME IInv PROVE UsageCounted
    OBVIOUS
  <2>1. TypeOK /\ UsageInv
    BY DEF IInv
  <2>2. ASSUME "m_disk" \notin failed, NEW r \in Resource PROVE used[r] >= RealTotal(r)
    <3>1. used[r] >= Total(Amounts(r)) /\ used[r] \in Int
      BY <2>1, <2>2 DEF UsageInv, TypeOK
    <3> QED BY <3>1, TotalsOrdered
  <2> QED BY <2>1, <2>2 DEF UsageCounted
<1> QED BY <1>1, Invariance, PTL

(* The limits of resource.c for memory, maps and disk space hold for what  *)
(* all threads together really hold, though each attempt of OpenPixelCache *)
(* is a critical section of its own.                                       *)
THEOREM LimitsKept == Spec => []LimitsHold
<1>1. IInv => LimitsHold
  <2> SUFFICES ASSUME IInv, "m_disk" \notin failed, NEW r \in Resource \ {"file"}
               PROVE  RealTotal(r) = 0 \/ limit[r] = Infinity \/ RealTotal(r) < limit[r]
    BY DEF LimitsHold
  <2>1. used[r] >= Total(Amounts(r)) /\ used[r] \in Int
    BY DEF IInv, UsageInv, TypeOK
  <2>2. used[r] <= 0 \/ limit[r] = Infinity \/ used[r] < limit[r]
    BY DEF IInv, LimitInv
  <2>3. limit[r] = Infinity \/ limit[r] \in Nat
    BY DEF limit, Resource
  <2> QED BY <2>1, <2>2, <2>3, TotalsOrdered
<1> QED BY <1>1, Invariance, PTL

(* RelinquishPixelCachePixels and DestroyMatrixInfo give back, by the type *)
(* of the cache or matrix, exactly what was taken for it on its way        *)
(* through memory, disk and map.                                           *)
THEOREM AccountCorrect == Spec => []AccountExact
<1>1. IInv => AccountExact
  <2> SUFFICES ASSUME IInv, \A t \in Threads : pc[t] = "idle", Clean PROVE Exact
    BY DEF AccountExact, Clean
  <2>1. ASSUME NEW t \in Threads, NEW r \in Resource
        PROVE  /\ Counted(t, r) = Entitled(t, r)
               /\ Owned(t, r) = Frees(cache[t])[r] + MatrixFrees(matrix[t])[r]
    <3>1. Facts(t) /\ pc[t] = "idle"
      BY FactsHold
    <3>2. source[t] = FreshCache /\ (cache[t].open => cache[t].type = "disk")
      BY <3>1 DEF Facts, SourceInv, CacheInv
    <3>3. SourceCounted(t, r) = 0 /\ SourceOwned(t, r) = 0
      BY <3>1, <3>2, HoldsNothing, FreshTypes DEF SourceCounted, SourceOwned
    <3>4. CacheCounted(t, r) = Holds(cache[t])[r] /\ CacheOwned(t, r) = Frees(cache[t])[r]
      BY <3>1, <3>2, HoldsIs, FreesIs, ZenonT(60) DEF CacheCounted, CacheOwned, Opening
    <3>5. /\ MatrixCounted(t, r) = MatrixHolds(matrix[t])[r]
          /\ MatrixOwned(t, r) = MatrixFrees(matrix[t])[r]
      BY <3>1 DEF MatrixCounted, MatrixOwned
    <3>6. /\ CacheCounted(t, r) \in Nat /\ CacheOwned(t, r) \in Nat
          /\ MatrixCounted(t, r) \in Nat /\ MatrixOwned(t, r) \in Nat
      BY <3>1, PartTypes
    <3>7. /\ Counted(t, r) = CacheCounted(t, r) + MatrixCounted(t, r)
          /\ Owned(t, r) = CacheOwned(t, r) + MatrixOwned(t, r)
      BY <3>3, <3>6 DEF Counted, Owned
    <3> QED BY <3>4, <3>5, <3>7 DEF Entitled
  <2>2. ASSUME NEW t \in Threads, NEW r \in Resource
        PROVE  real[t][r] = Owned(t, r) /\ Amount(t, r) = Entitled(t, r)
    <3>1. real[t][r] = Owned(t, r)
      BY DEF IInv, ExactInv
    <3>2. Counted(t, r) \in Nat /\ Owned(t, r) \in Nat
      BY AmountType DEF IInv
    <3> QED BY <2>1, <3>1, <3>2 DEF Amount
  <2>3. ASSUME NEW r \in Resource
        PROVE  used[r] = Total([t \in Threads |-> Entitled(t, r)])
    <3>1. Amounts(r) = [t \in Threads |-> Entitled(t, r)]
      BY <2>2 DEF Amounts
    <3>2. used[r] = Total(Amounts(r))
      BY DEF IInv, ExactInv
    <3> QED BY <3>1, <3>2
  <2>4. ASSUME NEW t \in Threads
        PROVE  real[t] = [r \in Resource |-> Frees(cache[t])[r] + MatrixFrees(matrix[t])[r]]
    <3>1. real[t] \in [Resource -> Nat]
      BY DEF IInv, TypeOK
    <3> QED BY <2>1, <2>2, <3>1
  <2> QED BY <2>3, <2>4 DEF Exact
<1> QED BY <1>1, Invariance, PTL

=============================================================================
