-------------------------- MODULE MagickResources --------------------------
(***************************************************************************)
(* How pixel caches (cache.c) and matrices (matrix.c) of MagickCore obtain *)
(* memory, disk and maps under the limits of resource.c.                   *)
(*                                                                         *)
(* AcquireMagickResource and RelinquishMagickResource each update one      *)
(* process-wide counter under its semaphore.  OpenPixelCache tries memory, *)
(* then a file (or a server), then a map of that file, with a critical     *)
(* section of its own for each attempt, while other threads do the same.   *)
(* Each thread works on one cache and one matrix: image->semaphore and     *)
(* cache_info->semaphore keep two threads from opening the same one.       *)
(***************************************************************************)
EXTENDS Integers, FiniteSets

CONSTANTS
    Threads,
    Lengths,          (* sizes of caches and matrices                       *)
    AreaLimit,        (* sizes below it are wanted in memory                *)
    MemoryLimit, MapLimit, DiskLimit, FileLimit,
    Infinity,         (* MagickResourceInfinity                             *)
    HasHosts,         (* whether cache:hosts names distributed cache servers*)
    Kinds,            (* what threads make: "cache"s, "matrix"es            *)
    FailureKinds,     (* which system calls may fail                        *)
    MaxFailures,      (* bound: kinds of system calls that do fail          *)
    MaxCalls          (* bound: opens, attaches, persists and matrices      *)

(* System calls, of caches and of matrices, that can fail.                 *)
AllFailures == {"alloc", "open", "extend", "map", "copy",
                "m_alloc", "m_open", "m_map"}
(* Refusals: of the disk to a cache that is reopened, and to a matrix.     *)
Refusals    == {"reopen", "m_disk"}
Resource    == {"memory", "map", "disk", "file"}

ASSUME LengthsAssumption  == Lengths \subseteq Nat \ {0} /\ IsFiniteSet(Lengths)
ASSUME ThreadsAssumption  == IsFiniteSet(Threads)
ASSUME InfinityAssumption == Infinity \notin Nat
ASSUME LimitsAssumption   == {MemoryLimit, MapLimit, DiskLimit, FileLimit}
                                 \subseteq Nat \union {Infinity}
ASSUME OptionsAssumption  == /\ HasHosts \in BOOLEAN
                             /\ Kinds \subseteq {"cache", "matrix"}
                             /\ AreaLimit \in Nat
                             /\ FailureKinds \subseteq AllFailures
                             /\ MaxFailures \in Nat /\ MaxCalls \in Nat

VARIABLES
    used,      (* resource_info.memory, .map, .disk, .file                  *)
    cache,     (* CacheInfo of each thread                                  *)
    source,    (* source_info of OpenPixelCache, clone_info of Persist...   *)
    matrix,    (* MatrixInfo of each thread                                 *)
    pc,        (* where the thread's call stands                            *)
    copied,    (* the status ClonePixelCacheRepository returned             *)
    real,      (* what each thread has allocated, mapped, stored and opened *)
    failed,    (* what has failed or been refused so far                    *)
    calls

vars == <<used, cache, source, matrix, pc, copied, real, failed, calls>>

limit == [memory |-> MemoryLimit, map |-> MapLimit, disk |-> DiskLimit,
          file |-> FileLimit]

CacheType == {"undefined", "memory", "disk", "map", "distributed"}
CacheInfo == [type : CacheType, length : Lengths \union {0}, open : BOOLEAN,
              name : {"none", "temp", "given"}, mode : {"io", "read", "persist"},
              known : BOOLEAN]
Matrix    == [type : {"undefined", "memory", "disk", "map"},
              length : Lengths \union {0}, elements : BOOLEAN, open : BOOLEAN]

(* AcquirePixelCache: nothing is open, storage_class is UndefinedClass.    *)
FreshCache == [type |-> "undefined", length |-> 0, open |-> FALSE, name |-> "none",
               mode |-> "io", known |-> FALSE]
NoMatrix   == [type |-> "undefined", length |-> 0, elements |-> FALSE, open |-> FALSE]

PC == {"idle", "memory", "disk", "create", "extend", "map", "copy", "relinquish",
       "finish", "persist_open", "persist_done",
       "m_memory", "m_disk", "m_map", "m_destroy"}

Init ==
    /\ used = [r \in Resource |-> 0]
    /\ cache = [t \in Threads |-> FreshCache]
    /\ source = [t \in Threads |-> FreshCache]
    /\ matrix = [t \in Threads |-> NoMatrix]
    /\ pc = [t \in Threads |-> "idle"]
    /\ copied = [t \in Threads |-> TRUE]
    /\ real = [t \in Threads |-> [r \in Resource |-> 0]]
    /\ failed = {} /\ calls = 0

-----------------------------------------------------------------------------
(* resource.c                                                              *)

(* Mutant: the limit itself is granted.                                    *)
GrantedAtLimit(r, n) == IF limit[r] = Infinity THEN TRUE ELSE used[r] + n <= limit[r]

(* AcquireMagickResource grants n if the total stays strictly below the    *)
(* limit.  Granted is its answer; the counter of files, whose answer the   *)
(* caller ignores, is not rolled back when it is exceeded.                 *)
Granted(r, n) == IF limit[r] = Infinity THEN TRUE ELSE used[r] + n < limit[r]

(* The thread allocates (n > 0) or gives back (n < 0) an amount that the   *)
(* system really holds for it; the counter follows by m.                   *)
Account(t, r, m, n) ==
    /\ used' = [used EXCEPT ![r] = @ + m]
    /\ real' = [real EXCEPT ![t][r] = @ + n]

Note(event) == failed' = failed \union {event}

Fails(kind) == /\ kind \in FailureKinds
               /\ kind \in failed \/ Cardinality(failed \ Refusals) < MaxFailures
               /\ Note(kind)

Goto(t, where) == pc' = [pc EXCEPT ![t] = where]

Call == calls < MaxCalls /\ calls' = calls + 1

(* RelinquishPixelCachePixels: what the cache's type says it holds.  The   *)
(* counters go down one after the other; nobody adds to them on behalf of  *)
(* this cache meanwhile, so they go down together here.                    *)
Holds(c) ==
    [memory |-> IF c.type = "memory" THEN c.length ELSE 0,
     map    |-> IF c.type = "map" THEN c.length ELSE 0,
     disk   |-> IF c.type \in {"disk", "map"} THEN c.length ELSE 0,
     file   |-> IF c.type \in {"disk", "map"} /\ c.open THEN 1 ELSE 0]

(* Files with a name the user gave stay on the disk.                       *)
Frees(c) == [Holds(c) EXCEPT !.disk = IF c.name = "temp" THEN @ ELSE 0]

RelinquishPixelCachePixels(t, c) ==
    /\ used' = [r \in Resource |-> used[r] - Holds(c)[r]]
    /\ real' = [real EXCEPT ![t] = [r \in Resource |-> @[r] - Frees(c)[r]]]

(* ClosePixelCacheOnDisk                                                   *)
CloseIfOpen(t, c) == LET n == IF c.open THEN -1 ELSE 0 IN Account(t, "file", n, n)

-----------------------------------------------------------------------------
(* OpenPixelCache                                                          *)

(* The common beginning: source_info is a copy of the cache, the cache     *)
(* takes over the image's attributes, and memory is tried unless the area  *)
(* is too large or the cache is on disk.                                   *)
Begin(t, c, n, mode) ==
    /\ source' = [source EXCEPT ![t] = [c EXCEPT !.open = FALSE]]
    /\ cache' = [cache EXCEPT ![t] =
                    [c EXCEPT !.length = n, !.mode = mode, !.known = TRUE]]
    /\ Goto(t, IF n < AreaLimit /\ c.type \in {"undefined", "memory"}
               THEN "memory" ELSE "disk")

(* GetImagePixelCache opens a new cache or reopens one in place; a cache   *)
(* that is mapped read-only is never reopened.                             *)
OpenPixelCache(t, n) ==
    /\ "cache" \in Kinds /\ pc[t] = "idle" /\ cache[t].mode = "io"
    /\ Call
    /\ Begin(t, cache[t], n, "io")
    /\ UNCHANGED <<used, matrix, copied, real, failed>>

(* PersistPixelCache with attach: a new cache is opened on a given file.   *)
AttachPixelCache(t, n) ==
    /\ "cache" \in Kinds /\ pc[t] = "idle" /\ ~cache[t].known
    /\ Call
    /\ Begin(t, [FreshCache EXCEPT !.type = "map", !.name = "given"], n, "read")
    /\ UNCHANGED <<used, matrix, copied, real, failed>>

(* Where a successful attempt goes on: to the old pixels, if there are any *)
(* to be copied.                                                           *)
AfterOpen(t) == IF source[t].known /\ cache[t].mode # "read" THEN "copy" ELSE "finish"

Become(t, type) == cache' = [cache EXCEPT ![t].type = type]

(* OpenPixelCache gives up: the cache is of UndefinedCache type now.       *)
GiveUp(t) == Become(t, "undefined") /\ Goto(t, "finish")

TryMemory(t) ==
    LET n == cache[t].length IN
    /\ pc[t] = "memory"
    /\ \/ /\ Granted("memory", n)
          /\ Account(t, "memory", n, n)
          /\ Become(t, "memory")
          /\ Goto(t, AfterOpen(t))
          /\ UNCHANGED failed
       \/ /\ Granted("memory", n) /\ Fails("alloc")
          /\ Account(t, "memory", n, 0)
          /\ Goto(t, "disk")
          /\ UNCHANGED cache
       \/ /\ ~Granted("memory", n)
          /\ Goto(t, "disk")
          /\ UNCHANGED <<used, real, cache, failed>>
    /\ UNCHANGED <<source, matrix, copied, calls>>

(* The disk is full: a server is asked if one is configured.               *)
TryDisk(t) ==
    LET n == cache[t].length IN
    /\ pc[t] = "disk"
    /\ \/ /\ Granted("disk", n)
          /\ Account(t, "disk", n, 0)
          /\ Goto(t, "create")
          /\ UNCHANGED <<cache, failed>>
       \/ /\ ~Granted("disk", n) /\ HasHosts
          /\ Become(t, "distributed")
          /\ Goto(t, AfterOpen(t))
          /\ UNCHANGED <<used, real, failed>>
       \/ /\ ~Granted("disk", n)
          /\ GiveUp(t)
          /\ IF source[t].known THEN Note("reopen") ELSE UNCHANGED failed
          /\ UNCHANGED <<used, real>>
    /\ UNCHANGED <<source, matrix, copied, calls>>

(* A cache that is reopened leaves its file; OpenPixelCacheOnDisk counts   *)
(* the new descriptor whatever AcquireMagickResource says.                 *)
CreateFile(t) ==
    LET c == cache[t]
        leave == source[t].known /\ c.mode = "io"
        closed == IF leave /\ c.open THEN 1 ELSE 0
        name == IF leave THEN "none" ELSE c.name IN
    /\ pc[t] = "create"
    /\ \/ /\ Account(t, "file", 1 - closed, 1 - closed)
          /\ cache' = [cache EXCEPT ![t].open = TRUE,
                                    ![t].name = IF name = "none" THEN "temp" ELSE name]
          /\ Goto(t, "extend")
          /\ UNCHANGED failed
       \/ /\ Fails("open")
          /\ Account(t, "file", -closed, -closed)
          /\ cache' = [cache EXCEPT ![t].type = "undefined", ![t].name = name,
                                    ![t].open = @ /\ ~leave]
          /\ Goto(t, "finish")
    /\ UNCHANGED <<source, matrix, copied, calls>>

SetPixelCacheExtent(t) ==
    /\ pc[t] = "extend"
    /\ \/ /\ Become(t, "disk")
          /\ Account(t, "disk", 0, IF cache[t].name = "temp" THEN cache[t].length ELSE 0)
          /\ Goto(t, "map")
          /\ UNCHANGED failed
       \/ /\ Fails("extend")
          /\ GiveUp(t)
          /\ UNCHANGED <<used, real>>
    /\ UNCHANGED <<source, matrix, copied, calls>>

(* Mutant: a map that was refused is given back as well.                   *)
TryMapReturnsRefused(t) ==
    LET n == cache[t].length IN
    /\ pc[t] = "map"
    /\ \/ /\ Granted("map", n)
          /\ used' = [used EXCEPT !["map"] = @ + n, !["file"] = @ - 1]
          /\ real' = [real EXCEPT ![t]["map"] = @ + n, ![t]["file"] = @ - 1]
          /\ cache' = [cache EXCEPT ![t].type = "map", ![t].open = FALSE]
          /\ UNCHANGED failed
       \/ /\ ~Granted("map", n)
          /\ Account(t, "map", -n, 0)
          /\ UNCHANGED <<cache, failed>>
       \/ /\ Granted("map", n) /\ Fails("map")
          /\ UNCHANGED <<used, real, cache>>
    /\ Goto(t, AfterOpen(t))
    /\ UNCHANGED <<source, matrix, copied, calls>>

(* A map that is granted but fails is given back, and the cache stays on   *)
(* disk; with the map in place the descriptor is closed.                   *)
TryMap(t) ==
    LET n == cache[t].length IN
    /\ pc[t] = "map"
    /\ \/ /\ Granted("map", n)
          /\ used' = [used EXCEPT !["map"] = @ + n, !["file"] = @ - 1]
          /\ real' = [real EXCEPT ![t]["map"] = @ + n, ![t]["file"] = @ - 1]
          /\ cache' = [cache EXCEPT ![t].type = "map", ![t].open = FALSE]
          /\ UNCHANGED failed
       \/ /\ ~Granted("map", n)
          /\ UNCHANGED <<used, real, cache, failed>>
       \/ /\ Granted("map", n) /\ Fails("map")
          /\ UNCHANGED <<used, real, cache>>
    /\ Goto(t, AfterOpen(t))
    /\ UNCHANGED <<source, matrix, copied, calls>>

(* ClonePixelCacheRepository opens the file of a source that is on disk.   *)
CopyOldPixels(t) ==
    LET opens == source[t].type = "disk" IN
    /\ pc[t] = "copy"
    /\ IF opens THEN Account(t, "file", 1, 1) ELSE UNCHANGED <<used, real>>
    /\ source' = [source EXCEPT ![t].open = opens]
    /\ \/ copied' = [copied EXCEPT ![t] = TRUE] /\ UNCHANGED failed
       \/ Fails("copy") /\ copied' = [copied EXCEPT ![t] = FALSE]
    /\ Goto(t, "relinquish")
    /\ UNCHANGED <<cache, matrix, calls>>

RelinquishOldPixels(t) ==
    /\ pc[t] = "relinquish"
    /\ RelinquishPixelCachePixels(t, source[t])
    /\ IF copied[t] THEN UNCHANGED cache ELSE Become(t, "undefined")
    /\ Goto(t, "finish")
    /\ UNCHANGED <<source, matrix, copied, calls, failed>>

(* Back in GetImagePixelCache.  A new cache that failed is destroyed; one  *)
(* that was opened in place has its file closed.                           *)
FinishOpen(t) ==
    LET fails == cache[t].type = "undefined" IN
    /\ pc[t] = "finish"
    /\ \/ /\ ~source[t].known /\ fails
          /\ cache' = [cache EXCEPT ![t] = FreshCache]
          /\ UNCHANGED <<used, real>>
       \/ /\ ~source[t].known /\ ~fails
          /\ UNCHANGED <<used, real, cache>>
       \/ /\ cache[t].mode = "io"
          /\ CloseIfOpen(t, cache[t])
          /\ cache' = [cache EXCEPT ![t].open = FALSE]
    /\ source' = [source EXCEPT ![t] = FreshCache]
    /\ Goto(t, "idle")
    /\ UNCHANGED <<matrix, copied, calls, failed>>

-----------------------------------------------------------------------------
(* Other uses of an open cache                                             *)

(* ReadPixelCachePixels and the like reopen the file of a cache on disk.   *)
OpenPixelCacheOnDisk(t) ==
    /\ pc[t] = "idle" /\ cache[t].type = "disk" /\ ~cache[t].open
    /\ Account(t, "file", 1, 1)
    /\ cache' = [cache EXCEPT ![t].open = TRUE]
    /\ UNCHANGED <<source, matrix, pc, copied, calls, failed>>

(* DestroyPixelCache of the last reference.                                *)
DestroyPixelCache(t) ==
    /\ pc[t] = "idle" /\ cache[t].known
    /\ RelinquishPixelCachePixels(t, cache[t])
    /\ cache' = [cache EXCEPT ![t] = FreshCache]
    /\ UNCHANGED <<source, matrix, pc, copied, calls, failed>>

(* PersistPixelCache without attach: a copy on a file the user named, made *)
(* through a cache that exists only for the call.                          *)
PersistPixelCache(t) ==
    LET n == cache[t].length IN
    /\ pc[t] = "idle" /\ cache[t].type # "undefined"
    /\ Call
    /\ Granted("disk", n)
    /\ Account(t, "disk", n, 0)
    /\ source' = [source EXCEPT ![t] = [type |-> "disk", length |-> n, open |-> FALSE,
                      name |-> "given", mode |-> "persist", known |-> TRUE]]
    /\ Goto(t, "persist_open")
    /\ UNCHANGED <<cache, matrix, copied, failed>>

PersistOpen(t) ==
    /\ pc[t] = "persist_open"
    /\ \/ /\ Account(t, "file", 1, 1)
          /\ source' = [source EXCEPT ![t].open = TRUE]
          /\ UNCHANGED failed
       \/ /\ Fails("open")
          /\ UNCHANGED <<used, real, source>>
    /\ Goto(t, "persist_done")
    /\ UNCHANGED <<cache, matrix, copied, calls>>

PersistDone(t) ==
    /\ pc[t] = "persist_done"
    /\ RelinquishPixelCachePixels(t, source[t])
    /\ source' = [source EXCEPT ![t] = FreshCache]
    /\ Goto(t, "idle")
    /\ UNCHANGED <<cache, matrix, copied, calls, failed>>

-----------------------------------------------------------------------------
(* matrix.c: AcquireMatrixInfo and DestroyMatrixInfo                       *)

(* The type is MemoryCache before anything is granted.                     *)
AcquireMatrixInfo(t, n) ==
    /\ "matrix" \in Kinds /\ pc[t] = "idle" /\ matrix[t] = NoMatrix
    /\ Call
    /\ matrix' = [matrix EXCEPT ![t] = [type |-> "memory", length |-> n,
                                        elements |-> FALSE, open |-> FALSE]]
    /\ Goto(t, IF n < AreaLimit THEN "m_memory" ELSE "m_disk")
    /\ UNCHANGED <<used, cache, source, copied, real, failed>>

(* Mutant: the memory that could not be allocated stays counted.           *)
MatrixMemoryKeeps(t) ==
    LET n == matrix[t].length IN
    /\ pc[t] = "m_memory"
    /\ \/ /\ Granted("memory", n)
          /\ Account(t, "memory", n, n)
          /\ matrix' = [matrix EXCEPT ![t].elements = TRUE]
          /\ Goto(t, "idle")
          /\ UNCHANGED failed
       \/ /\ Granted("memory", n) /\ Fails("m_alloc")
          /\ Account(t, "memory", n, 0)
          /\ Goto(t, "m_disk")
          /\ UNCHANGED matrix
       \/ /\ ~Granted("memory", n)
          /\ Goto(t, "m_disk")
          /\ UNCHANGED <<used, real, matrix, failed>>
    /\ UNCHANGED <<cache, source, copied, calls>>

MatrixMemory(t) ==
    LET n == matrix[t].length IN
    /\ pc[t] = "m_memory"
    /\ \/ /\ Granted("memory", n)
          /\ Account(t, "memory", n, n)
          /\ matrix' = [matrix EXCEPT ![t].elements = TRUE]
          /\ Goto(t, "idle")
          /\ UNCHANGED failed
       \/ /\ Granted("memory", n) /\ Fails("m_alloc")
          /\ Goto(t, "m_disk")
          /\ UNCHANGED <<used, real, matrix>>
       \/ /\ ~Granted("memory", n)
          /\ Goto(t, "m_disk")
          /\ UNCHANGED <<used, real, matrix, failed>>
    /\ UNCHANGED <<cache, source, copied, calls>>

MatrixDisk(t) ==
    LET n == matrix[t].length IN
    /\ pc[t] = "m_disk"
    /\ \/ /\ Granted("disk", n)
          /\ Account(t, "disk", n, n)
          /\ matrix' = [matrix EXCEPT ![t].type = "disk", ![t].open = TRUE]
          /\ Goto(t, "m_map")
          /\ UNCHANGED failed
       \/ /\ Granted("disk", n) /\ Fails("m_open")
          /\ Account(t, "disk", n, 0)
          /\ matrix' = [matrix EXCEPT ![t].type = "disk"]
          /\ Goto(t, "m_destroy")
       \/ /\ ~Granted("disk", n)
          /\ Note("m_disk")
          /\ Goto(t, "m_destroy")
          /\ UNCHANGED <<used, real, matrix>>
    /\ UNCHANGED <<cache, source, copied, calls>>

MatrixMap(t) ==
    LET n == matrix[t].length IN
    /\ pc[t] = "m_map"
    /\ \/ /\ Granted("map", n)
          /\ Account(t, "map", n, n)
          /\ matrix' = [matrix EXCEPT ![t].type = "map", ![t].elements = TRUE]
          /\ UNCHANGED failed
       \/ /\ Granted("map", n) /\ Fails("m_map")
          /\ UNCHANGED <<used, real, matrix>>
       \/ /\ ~Granted("map", n)
          /\ UNCHANGED <<used, real, matrix, failed>>
    /\ Goto(t, "idle")
    /\ UNCHANGED <<cache, source, copied, calls>>

(* What DestroyMatrixInfo gives back, by the matrix's type; descriptors of *)
(* matrices are not counted as a resource.                                 *)
MatrixHolds(m) ==
    [memory |-> IF m.type = "memory" THEN m.length ELSE 0,
     map    |-> IF m.type = "map" THEN m.length ELSE 0,
     disk   |-> IF m.type \in {"disk", "map"} THEN m.length ELSE 0,
     file   |-> 0]
MatrixFrees(m) ==
    [r \in Resource |-> IF (r = "memory" /\ ~m.elements) \/ (r = "disk" /\ ~m.open)
                        THEN 0 ELSE MatrixHolds(m)[r]]

DestroyMatrixInfo(t) ==
    /\ pc[t] = "m_destroy" \/ (pc[t] = "idle" /\ matrix[t] # NoMatrix)
    /\ used' = [r \in Resource |-> used[r] - MatrixHolds(matrix[t])[r]]
    /\ real' = [real EXCEPT ![t] = [r \in Resource |-> @[r] - MatrixFrees(matrix[t])[r]]]
    /\ matrix' = [matrix EXCEPT ![t] = NoMatrix]
    /\ Goto(t, "idle")
    /\ UNCHANGED <<cache, source, copied, calls, failed>>

-----------------------------------------------------------------------------
Step(t) ==
    \/ \E n \in Lengths : OpenPixelCache(t, n) \/ AttachPixelCache(t, n)
                          \/ AcquireMatrixInfo(t, n)
    \/ TryMemory(t) \/ TryDisk(t) \/ CreateFile(t) \/ SetPixelCacheExtent(t)
    \/ TryMap(t) \/ CopyOldPixels(t) \/ RelinquishOldPixels(t) \/ FinishOpen(t)
    \/ OpenPixelCacheOnDisk(t) \/ DestroyPixelCache(t)
    \/ PersistPixelCache(t) \/ PersistOpen(t) \/ PersistDone(t)
    \/ MatrixMemory(t) \/ MatrixDisk(t) \/ MatrixMap(t) \/ DestroyMatrixInfo(t)

(* The threads have made all their calls and destroyed what they made.     *)
Terminated == /\ calls = MaxCalls
              /\ \A t \in Threads : /\ pc[t] = "idle"
                                     /\ ~cache[t].known /\ matrix[t] = NoMatrix
              /\ UNCHANGED vars

Next == (\E t \in Threads : Step(t)) \/ Terminated

Spec == Init /\ [][Next]_vars

-----------------------------------------------------------------------------
(* Properties                                                              *)

(* Every variable has its type.                                            *)
TypeOK ==
    /\ used \in [Resource -> Int]
    /\ cache \in [Threads -> CacheInfo] /\ source \in [Threads -> CacheInfo]
    /\ matrix \in [Threads -> Matrix]
    /\ pc \in [Threads -> PC] /\ copied \in [Threads -> BOOLEAN]
    /\ real \in [Threads -> [Resource -> Nat]]
    /\ calls \in 0..MaxCalls /\ failed \subseteq AllFailures \union Refusals

(* The sum of the amounts of all threads, as the number of their units.    *)
Total(amount) == Cardinality(UNION {{t} \X (1..amount[t]) : t \in Threads})

RealTotal(r) == Total([t \in Threads |-> real[t][r]])

(* Whatever is refused and whatever fails, and on every interleaving, the  *)
(* counters never fall below what the process really holds: nothing is     *)
(* given back twice, so the limits cannot be outgrown unnoticed.  A matrix *)
(* that is refused disk space breaks it: as the README describes.             *)
UsageCounted ==
    /\ TypeOK
    /\ "m_disk" \notin failed => \A r \in Resource : used[r] >= RealTotal(r)

(* The memory, maps and disk space that all threads together really hold   *)
(* stay below their limits at every moment.                                *)
LimitsHold ==
    "m_disk" \notin failed =>
        \A r \in Resource \ {"file"} :
            \/ RealTotal(r) = 0
            \/ limit[r] = Infinity
            \/ RealTotal(r) < limit[r]

(* What a thread's open cache and matrix are entitled to.                  *)
Entitled(t, r) == Holds(cache[t])[r] + MatrixHolds(matrix[t])[r]

Exact ==
    /\ \A r \in Resource :
          used[r] = Total([t \in Threads |-> Entitled(t, r)])
    /\ \A t \in Threads :
          real[t] = [r \in Resource |->
                        Frees(cache[t])[r] + MatrixFrees(matrix[t])[r]]

(* Between calls the counters account for the caches and matrices that     *)
(* exist and for nothing else, and so does what is really allocated: a     *)
(* cache that is destroyed gives back all it took on its way through       *)
(* memory, disk and map, and so does a matrix.  Failures the code does not *)
(* clean up after void it: memory of a cache that cannot be allocated,     *)
(* a cache file that cannot be created or extended, old pixels that cannot *)
(* be copied, and a disk that is refused to a matrix or to a cache that is *)
(* reopened.                                                               *)
AccountExact ==
    /\ \A t \in Threads : pc[t] = "idle"
    /\ failed \subseteq {"map", "m_alloc", "m_open", "m_map"}
    => Exact

(* RelinquishMagickResource asserts that no counter becomes negative.      *)
(* Matrices break it, as the README says; no run checks it.                *)
CountersNotNegative == \A r \in Resource : used[r] >= 0

=============================================================================
