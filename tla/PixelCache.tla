----------------------------- MODULE PixelCache -----------------------------
(***************************************************************************)
(* Copy-on-write sharing of images and pixel caches in MagickCore          *)
(* (cache.c, image.c, cache-view.c).                                       *)
(*                                                                         *)
(* Two reference counts are stacked: several owners may hold one Image     *)
(* (ReferenceImage, a cache view), and several images may point at one     *)
(* CacheInfo (CloneImage).  GetImagePixelCache gives an image a cache of   *)
(* its own before anybody writes through it.                               *)
(*                                                                         *)
(* An owner is a thread of control of the application.  While it has a     *)
(* cache view open, the lanes of its OpenMP team work on the image at the  *)
(* same time; otherwise only its first lane runs.  Each critical section   *)
(* of one semaphore is a step; GetImagePixelCache holds image->semaphore   *)
(* over several steps and takes cache_info->semaphore inside it.           *)
(***************************************************************************)
EXTENDS Integers, FiniteSets

CONSTANTS
    Owners,        (* holders of image handles                              *)
    NumLanes,      (* threads of an owner's parallel region                 *)
    Images,        (* memory for Image structures                           *)
    Caches,        (* memory for CacheInfo structures                       *)
    Vals,          (* pixel contents that owners write                      *)
    NoImage, NoCache, NoLane,
    MaxCalls,      (* bound: API calls made by all owners together          *)
    MaxFailures    (* bound: failures to open or to copy a cache            *)

ASSUME LanesAssumption  == NumLanes \in Nat \ {0}
ASSUME NullAssumption   == NoImage \notin Images /\ NoCache \notin Caches
ASSUME FiniteAssumption == /\ IsFiniteSet(Owners)
                           /\ IsFiniteSet(Images)
                           /\ IsFiniteSet(Caches)
ASSUME LimitAssumption  == MaxCalls \in Nat /\ MaxFailures \in Nat

Lane == Owners \X (1..NumLanes)
ASSUME NoLaneAssumption == NoLane \notin Lane

(* Contents that nobody wrote: a cache that is open but not initialised,   *)
(* and one whose type is UndefinedCache, which has no pixels at all.       *)
Junk      == "junk"
NoPixels  == "no pixels"
Pixels    == Vals \union {Junk, NoPixels}
Absent    == "absent"   (* of an owner that has no image                   *)
ASSUME PixelsAssumption == {Junk, NoPixels, Absent} \intersect Vals = {}

VARIABLES
    (* struct _Image: allocated, reference_count, cache, semaphore, and     *)
    (* whether its columns, rows, channels... differ from the cache's       *)
    ilive, ref, icache, ilock, dirty,
    (* struct _CacheInfo: allocated, reference_count, mode, semaphore, and  *)
    (* its pixels                                                           *)
    clive, crc, cmode, clock, cval,
    (* per owner: its Image pointer, its cache view, the kind of the view,  *)
    (* and whether ModifyImage (or making the image) made it the only user  *)
    handle, view, vkind, excl,
    (* per lane: where its call stands, and the call's locals               *)
    pc, limg, lcache, larg, lnew,
    (* what each owner is entitled to see, and the bounded environment      *)
    content, calls, failures

imageVars == <<ilive, ref, icache, ilock, dirty>>
cacheVars == <<clive, crc, cmode, clock, cval>>
ownerVars == <<handle, view, vkind, excl>>
laneVars  == <<pc, limg, lcache, larg, lnew>>
vars == <<imageVars, cacheVars, ownerVars, laneVars, content, calls, failures>>

(* What a call of GetImagePixelCache is for: GetAuthenticPixels keeps the  *)
(* old pixels, QueueAuthenticPixels does not, SyncImagePixelCache writes   *)
(* nothing.                                                                *)
Writes == [kind : {"get", "queue"}, val : Vals]
Sync   == [kind |-> "sync"]
NoArg  == [kind |-> "none"]
CloneTo(p) == [kind |-> "clone", to |-> p]
Args   == Writes \union {Sync, NoArg} \union {CloneTo(p) : p \in Owners}

PC == {"idle", "await", "clone_ref", "mod_clone", "mod_dec",
       "kill", "kill_cache", "kill_image",
       "recheck", "copy", "drop", "drop_free", "validate", "return", "pixels",
       "reading"}

Init ==
    /\ ilive = {}
    /\ ref = [i \in Images |-> 0]
    /\ icache = [i \in Images |-> NoCache]
    /\ ilock = [i \in Images |-> NoLane]
    /\ dirty = [i \in Images |-> FALSE]
    /\ clive = {}
    /\ crc = [c \in Caches |-> 0]
    /\ cmode = [c \in Caches |-> "io"]
    /\ clock = [c \in Caches |-> NoLane]
    /\ cval = [c \in Caches |-> NoPixels]
    /\ handle = [o \in Owners |-> NoImage]
    /\ view = [o \in Owners |-> NoImage]
    /\ vkind = [o \in Owners |-> "none"]
    /\ excl = [o \in Owners |-> FALSE]
    /\ pc = [l \in Lane |-> "idle"]
    /\ limg = [l \in Lane |-> NoImage]
    /\ lcache = [l \in Lane |-> NoCache]
    /\ larg = [l \in Lane |-> NoArg]
    /\ lnew = [l \in Lane |-> NoImage]
    /\ content = [o \in Owners |-> NoPixels]
    /\ calls = 0
    /\ failures = 0

-----------------------------------------------------------------------------
Main(o)  == <<o, 1>>
Owner(l) == l[1]

(* No call of the owner is in progress and it has no parallel region.      *)
Quiet(o) == /\ view[o] = NoImage
            /\ \A l \in Lane : Owner(l) = o => pc[l] = "idle"

(* The lane may start a call on its owner's image.                         *)
MayCall(l) == /\ pc[l] = "idle"
              /\ handle[Owner(l)] # NoImage
              /\ IF view[Owner(l)] = NoImage THEN Quiet(Owner(l)) /\ l = Main(Owner(l))
                                             ELSE TRUE

FreshImage == CHOOSE i \in Images : i \notin ilive
FreshCache == CHOOSE c \in Caches : c \notin clive
RoomForImage == Images \ ilive # {}
RoomForCache == Caches \ clive # {}

Call == calls < MaxCalls /\ calls' = calls + 1

(* The call of lane l returns: its locals are gone.                        *)
Return(l) == /\ pc' = [pc EXCEPT ![l] = "idle"]
             /\ limg' = [limg EXCEPT ![l] = NoImage]
             /\ lcache' = [lcache EXCEPT ![l] = NoCache]
             /\ larg' = [larg EXCEPT ![l] = NoArg]
             /\ lnew' = [lnew EXCEPT ![l] = NoImage]

(* AcquireImage, CloneImage: image i with one reference, on cache c.       *)
NewImage(i, c, d) ==
    /\ ilive' = ilive \union {i}
    /\ ref' = [ref EXCEPT ![i] = 1]
    /\ icache' = [icache EXCEPT ![i] = c]
    /\ dirty' = [dirty EXCEPT ![i] = d]
    /\ UNCHANGED ilock

(* AcquirePixelCache: cache c with one reference.                          *)
NewCache(c, mode, v) ==
    /\ clive' = clive \union {c}
    /\ crc' = [crc EXCEPT ![c] = 1]
    /\ cmode' = [cmode EXCEPT ![c] = mode]
    /\ cval' = [cval EXCEPT ![c] = v]

Give(o, i, v) ==
    /\ handle' = [handle EXCEPT ![o] = i]
    /\ excl' = [excl EXCEPT ![o] = TRUE]
    /\ content' = [content EXCEPT ![o] = v]
    /\ UNCHANGED <<view, vkind>>

-----------------------------------------------------------------------------
(* Making, sharing and cloning images                                      *)

(* AcquireImage: a fresh image with a fresh, still undefined cache.        *)
AcquireImage(o) ==
    /\ Quiet(o) /\ handle[o] = NoImage /\ RoomForImage /\ RoomForCache
    /\ Call
    /\ NewImage(FreshImage, FreshCache, TRUE)
    /\ NewCache(FreshCache, "io", NoPixels)
    /\ Give(o, FreshImage, NoPixels)
    /\ UNCHANGED <<clock, laneVars, failures>>

(* PersistPixelCache with attach on a fresh image: the pixels are those of *)
(* a file that is mapped read-only.                                        *)
AttachPersistent(o) ==
    /\ Quiet(o) /\ handle[o] = NoImage /\ RoomForImage /\ RoomForCache
    /\ Call
    /\ NewImage(FreshImage, FreshCache, FALSE)
    /\ \E v \in Vals : /\ NewCache(FreshCache, "read", v)
                       /\ Give(o, FreshImage, v)
    /\ UNCHANGED <<clock, laneVars, failures>>

(* ReferenceImage: owner p gets a handle to o's image.                     *)
ReferenceImage(o, p) ==
    LET i == handle[o] IN
    /\ Quiet(o) /\ Quiet(p) /\ i # NoImage /\ handle[p] = NoImage
    /\ ilock[i] = NoLane
    /\ Call
    /\ ref' = [ref EXCEPT ![i] = @ + 1]
    /\ handle' = [handle EXCEPT ![p] = i]
    /\ excl' = [excl EXCEPT ![o] = FALSE, ![p] = FALSE]
    /\ content' = [content EXCEPT ![p] = content[o]]
    /\ UNCHANGED <<ilive, icache, ilock, dirty, cacheVars, view, vkind, laneVars,
                   failures>>

(* CloneImage(image,0,0) on behalf of p, up to the call of                 *)
(* ReferencePixelCache: image->cache is read without any lock.             *)
CloneImage(o, p) ==
    /\ Quiet(o) /\ Quiet(p) /\ o # p
    /\ handle[o] # NoImage /\ handle[p] = NoImage
    /\ Call
    /\ pc' = [pc EXCEPT ![Main(o)] = "clone_ref", ![Main(p)] = "await"]
    /\ limg' = [limg EXCEPT ![Main(o)] = handle[o]]
    /\ lcache' = [lcache EXCEPT ![Main(o)] = icache[handle[o]]]
    /\ larg' = [larg EXCEPT ![Main(o)] = CloneTo(p)]
    /\ UNCHANGED <<imageVars, cacheVars, ownerVars, lnew, content, failures>>

(* Mutant: the clone takes the cache without counting its reference.       *)
ReferenceUncounted(l) ==
    /\ RoomForImage
    /\ clock[lcache[l]] = NoLane
    /\ NewImage(FreshImage, lcache[l], dirty[limg[l]])
    /\ UNCHANGED cacheVars

(* ReferencePixelCache for the clone, a fresh image with one reference.    *)
ReferencePixelCache(l) ==
    /\ RoomForImage
    /\ clock[lcache[l]] = NoLane
    /\ crc' = [crc EXCEPT ![lcache[l]] = @ + 1]
    /\ NewImage(FreshImage, lcache[l], dirty[limg[l]])
    /\ UNCHANGED <<clive, cmode, clock, cval>>

CloneReference(l) ==
    /\ pc[l] = "clone_ref"
    /\ ReferencePixelCache(l)
    /\ Give(larg[l].to, FreshImage, content[Owner(l)])
    /\ pc' = [pc EXCEPT ![l] = "idle", ![Main(larg[l].to)] = "idle"]
    /\ limg' = [limg EXCEPT ![l] = NoImage]
    /\ lcache' = [lcache EXCEPT ![l] = NoCache]
    /\ larg' = [larg EXCEPT ![l] = NoArg]
    /\ UNCHANGED <<lnew, calls, failures>>

(* CloneImage with a size: the clone gets a cache of its own, opened by    *)
(* SetImageExtent; if that fails the clone is destroyed again.             *)
CloneSized(o, p) ==
    /\ Quiet(o) /\ Quiet(p) /\ o # p
    /\ handle[o] # NoImage /\ handle[p] = NoImage
    /\ Call
    /\ \/ /\ RoomForImage /\ RoomForCache
          /\ NewImage(FreshImage, FreshCache, FALSE)
          /\ NewCache(FreshCache, "io", Junk)
          /\ Give(p, FreshImage, Junk)
          /\ UNCHANGED <<clock, failures>>
       \/ /\ failures < MaxFailures /\ failures' = failures + 1
          /\ UNCHANGED <<imageVars, cacheVars, ownerVars, content>>
    /\ UNCHANGED laneVars

-----------------------------------------------------------------------------
(* ModifyImage: GetImageReferenceCount, CloneImage, then the reference to  *)
(* the old image is dropped.                                               *)
ModifyImage(o) ==
    LET i == handle[o] IN
    /\ Quiet(o) /\ i # NoImage
    /\ ilock[i] = NoLane
    /\ Call
    /\ IF ref[i] <= 1
       THEN /\ excl' = [excl EXCEPT ![o] = TRUE]
            /\ UNCHANGED laneVars
       ELSE /\ pc' = [pc EXCEPT ![Main(o)] = "mod_clone"]
            /\ limg' = [limg EXCEPT ![Main(o)] = i]
            /\ lcache' = [lcache EXCEPT ![Main(o)] = icache[i]]
            /\ UNCHANGED <<larg, lnew, excl>>
    /\ UNCHANGED <<imageVars, cacheVars, handle, view, vkind, content, failures>>

ModifyClone(l) ==
    /\ pc[l] = "mod_clone"
    /\ ReferencePixelCache(l)
    /\ pc' = [pc EXCEPT ![l] = "mod_dec"]
    /\ lnew' = [lnew EXCEPT ![l] = FreshImage]
    /\ UNCHANGED <<limg, lcache, larg, ownerVars, content, calls, failures>>

(* The count is decremented and nothing else happens, whatever it becomes. *)
ModifyDecrement(l) ==
    /\ pc[l] = "mod_dec"
    /\ ilock[limg[l]] = NoLane
    /\ ref' = [ref EXCEPT ![limg[l]] = @ - 1]
    /\ handle' = [handle EXCEPT ![Owner(l)] = lnew[l]]
    /\ excl' = [excl EXCEPT ![Owner(l)] = TRUE]
    /\ Return(l)
    /\ UNCHANGED <<ilive, icache, ilock, dirty, cacheVars, view, vkind, content,
                   calls, failures>>

-----------------------------------------------------------------------------
(* DestroyImage                                                            *)

(* The locked decrement of image i by lane l; the last reference goes on   *)
(* to destroy the pixels and then the image.                               *)
Dereference(l, i) ==
    /\ ilock[i] = NoLane
    /\ ref' = [ref EXCEPT ![i] = @ - 1]
    /\ IF ref[i] = 1
       THEN /\ pc' = [pc EXCEPT ![l] = "kill"]
            /\ limg' = [limg EXCEPT ![l] = i]
       ELSE UNCHANGED <<pc, limg>>
    /\ UNCHANGED <<ilive, icache, ilock, dirty, cacheVars, lcache, larg, lnew>>

DestroyImage(o) ==
    /\ Quiet(o) /\ handle[o] # NoImage
    /\ Call
    /\ Dereference(Main(o), handle[o])
    /\ handle' = [handle EXCEPT ![o] = NoImage]
    /\ excl' = [excl EXCEPT ![o] = FALSE]
    /\ content' = [content EXCEPT ![o] = NoPixels]
    /\ UNCHANGED <<view, vkind, failures>>

(* Mutant: the cache is freed when one other reference is left.            *)
DestroyTooSoon(l, c, last, more) ==
    /\ clock[c] = NoLane
    /\ crc' = [crc EXCEPT ![c] = @ - 1]
    /\ pc' = [pc EXCEPT ![l] = IF crc[c] <= 2 THEN last ELSE more]
    /\ UNCHANGED <<clive, cmode, clock, cval>>

(* Mutant: the last reference to a cache goes and the cache stays.         *)
DestroyNeverFrees(l, c, last, more) ==
    /\ clock[c] = NoLane
    /\ crc' = [crc EXCEPT ![c] = @ - 1]
    /\ pc' = [pc EXCEPT ![l] = more]
    /\ UNCHANGED <<clive, cmode, clock, cval>>

(* DestroyPixelCache of cache c: the locked decrement.  The caller that    *)
(* reaches zero frees the cache after the unlock.                          *)
DestroyPixelCache(l, c, last, more) ==
    /\ clock[c] = NoLane
    /\ crc' = [crc EXCEPT ![c] = @ - 1]
    /\ pc' = [pc EXCEPT ![l] = IF crc[c] = 1 THEN last ELSE more]
    /\ UNCHANGED <<clive, cmode, clock, cval>>

FreeCache(c) ==
    /\ clive' = clive \ {c}
    /\ cmode' = [cmode EXCEPT ![c] = "io"]
    /\ cval' = [cval EXCEPT ![c] = NoPixels]
    /\ UNCHANGED <<crc, clock>>

DestroyImagePixels(l) ==
    /\ pc[l] = "kill"
    /\ DestroyPixelCache(l, icache[limg[l]], "kill_cache", "kill_image")
    /\ lcache' = [lcache EXCEPT ![l] = icache[limg[l]]]
    /\ icache' = [icache EXCEPT ![limg[l]] = NoCache]
    /\ UNCHANGED <<ilive, ref, ilock, dirty, ownerVars, limg, larg, lnew, content,
                   calls, failures>>

KillCache(l) ==
    /\ pc[l] = "kill_cache"
    /\ FreeCache(lcache[l])
    /\ pc' = [pc EXCEPT ![l] = "kill_image"]
    /\ UNCHANGED <<imageVars, ownerVars, limg, lcache, larg, lnew, content, calls,
                   failures>>

KillImage(l) ==
    /\ pc[l] = "kill_image"
    /\ ilive' = ilive \ {limg[l]}
    /\ dirty' = [dirty EXCEPT ![limg[l]] = FALSE]
    /\ Return(l)
    /\ UNCHANGED <<ref, icache, ilock, cacheVars, ownerVars, content, calls, failures>>

-----------------------------------------------------------------------------
(* Cache views: the parallel regions                                       *)

(* AcquireVirtualCacheView and AcquireAuthenticCacheView; only the owner   *)
(* of an image nobody else uses writes through its view.                   *)
AcquireCacheView(o, kind) ==
    LET i == handle[o] IN
    /\ Quiet(o) /\ i # NoImage
    /\ kind = "authentic" => excl[o]
    /\ ilock[i] = NoLane
    /\ Call
    /\ ref' = [ref EXCEPT ![i] = @ + 1]
    /\ view' = [view EXCEPT ![o] = i]
    /\ vkind' = [vkind EXCEPT ![o] = kind]
    /\ UNCHANGED <<ilive, icache, ilock, dirty, cacheVars, handle, excl, laneVars,
                   content, failures>>

(* DestroyCacheView, after the team has joined.                            *)
DestroyCacheView(o) ==
    /\ view[o] # NoImage
    /\ \A l \in Lane : Owner(l) = o => pc[l] = "idle"
    /\ Dereference(Main(o), view[o])
    /\ view' = [view EXCEPT ![o] = NoImage]
    /\ vkind' = [vkind EXCEPT ![o] = "none"]
    /\ UNCHANGED <<handle, excl, content, calls, failures>>

(* A virtual-pixel read takes image->cache without a lock...               *)
GetVirtualPixels(l) ==
    LET i == handle[Owner(l)] IN
    /\ MayCall(l) /\ vkind[Owner(l)] # "authentic"
    /\ Call
    /\ pc' = [pc EXCEPT ![l] = "reading"]
    /\ limg' = [limg EXCEPT ![l] = i]
    /\ lcache' = [lcache EXCEPT ![l] = icache[i]]
    /\ UNCHANGED <<imageVars, cacheVars, ownerVars, larg, lnew, content, failures>>

(* ...and goes on using it until the pixels are copied or consumed.        *)
ReadPixels(l) ==
    /\ pc[l] = "reading"
    /\ Return(l)
    /\ UNCHANGED <<imageVars, cacheVars, ownerVars, content, calls, failures>>

-----------------------------------------------------------------------------
(* GetImagePixelCache                                                      *)

(* Mutant: the count is not looked at.                                     *)
ReadOnly(c) == cmode[c] = "read"

(* Mutant: the mode is not looked at.                                      *)
Counted(c) == crc[c] > 1

(* What makes a cache unfit to be written through one image.               *)
Shared(c) == crc[c] > 1 \/ cmode[c] = "read"

(* Lock image->semaphore and make the first, unlocked check of the count.  *)
(* SetImageExtent and the like change the image's attributes just before.  *)
GetImagePixelCache(l, arg, resize) ==
    LET i == handle[Owner(l)] IN
    /\ MayCall(l) /\ excl[Owner(l)] /\ vkind[Owner(l)] # "virtual"
    /\ arg = Sync => view[Owner(l)] = NoImage
    /\ resize => arg = Sync
    /\ ilock[i] = NoLane
    /\ Call
    /\ ilock' = [ilock EXCEPT ![i] = l]
    /\ dirty' = [dirty EXCEPT ![i] = @ \/ resize]
    /\ pc' = [pc EXCEPT ![l] = IF Shared(icache[i]) THEN "recheck" ELSE "validate"]
    /\ limg' = [limg EXCEPT ![l] = i]
    /\ lcache' = [lcache EXCEPT ![l] = icache[i]]
    /\ larg' = [larg EXCEPT ![l] = arg]
    /\ UNCHANGED <<ilive, ref, icache, cacheVars, ownerVars, lnew, content, failures>>

(* Mutant: the second check finds a shared cache fit to be written when    *)
(* the first reader of the count has left it with two references.          *)
RecheckOffByOne(l) ==
    LET c == lcache[l] IN
    /\ pc[l] = "recheck"
    /\ clock[c] = NoLane
    /\ IF crc[c] > 2 \/ cmode[c] = "read"
       THEN /\ clock' = [clock EXCEPT ![c] = l]
            /\ pc' = [pc EXCEPT ![l] = "copy"]
       ELSE /\ pc' = [pc EXCEPT ![l] = "validate"]
            /\ UNCHANGED clock
    /\ UNCHANGED <<imageVars, clive, crc, cmode, cval, ownerVars, limg, lcache, larg,
                   lnew, content, calls, failures>>

(* The second check, under the cache's semaphore, which is kept while the  *)
(* cache is copied.                                                        *)
Recheck(l) ==
    LET c == lcache[l] IN
    /\ pc[l] = "recheck"
    /\ clock[c] = NoLane
    /\ IF Shared(c)
       THEN /\ clock' = [clock EXCEPT ![c] = l]
            /\ pc' = [pc EXCEPT ![l] = "copy"]
       ELSE /\ pc' = [pc EXCEPT ![l] = "validate"]
            /\ UNCHANGED clock
    /\ UNCHANGED <<imageVars, clive, crc, cmode, cval, ownerVars, limg, lcache, larg,
                   lnew, content, calls, failures>>

(* ClonePixelCacheRepository: a cache without pixels copies as garbage.    *)
CopyOf(c) == IF cval[c] = NoPixels THEN Junk ELSE cval[c]

(* ClonePixelCache, OpenPixelCache with the image's present attributes,    *)
(* ClonePixelCacheRepository unless the old pixels are not wanted, and the *)
(* image moves to the new cache.                                           *)
CopyCache(l) ==
    LET c == lcache[l]
        v == IF larg[l].kind = "queue" THEN Junk ELSE CopyOf(c) IN
    /\ pc[l] = "copy" /\ RoomForCache
    /\ NewCache(FreshCache, "io", v)
    /\ icache' = [icache EXCEPT ![limg[l]] = FreshCache]
    /\ dirty' = [dirty EXCEPT ![limg[l]] = FALSE]
    /\ clock' = [clock EXCEPT ![c] = NoLane]
    /\ content' = [content EXCEPT ![Owner(l)] = v]
    /\ pc' = [pc EXCEPT ![l] = "drop"]
    /\ UNCHANGED <<ilive, ref, ilock, ownerVars, limg, lcache, larg, lnew, calls,
                   failures>>

(* Mutant: the failing call returns with image->semaphore locked.          *)
CopyFailsLocked(l) ==
    /\ pc[l] = "copy"
    /\ failures < MaxFailures /\ failures' = failures + 1
    /\ clock' = [clock EXCEPT ![lcache[l]] = NoLane]
    /\ Return(l)
    /\ UNCHANGED <<imageVars, clive, crc, cmode, cval, ownerVars, content, calls>>

(* Opening or copying failed: the new cache is destroyed again, the image  *)
(* keeps the old one and the caller gets NULL.                             *)
CopyFails(l) ==
    /\ pc[l] = "copy"
    /\ failures < MaxFailures /\ failures' = failures + 1
    /\ clock' = [clock EXCEPT ![lcache[l]] = NoLane]
    /\ ilock' = [ilock EXCEPT ![limg[l]] = NoLane]
    /\ Return(l)
    /\ UNCHANGED <<ilive, ref, icache, dirty, clive, crc, cmode, cval, ownerVars,
                   content, calls>>

(* DestroyPixelCache of the cache the image has left.                      *)
DropOld(l) ==
    /\ pc[l] = "drop"
    /\ DestroyPixelCache(l, lcache[l], "drop_free", "validate")
    /\ UNCHANGED <<imageVars, ownerVars, limg, lcache, larg, lnew, content, calls,
                   failures>>

DropFree(l) ==
    /\ pc[l] = "drop_free"
    /\ FreeCache(lcache[l])
    /\ pc' = [pc EXCEPT ![l] = "validate"]
    /\ UNCHANGED <<imageVars, ownerVars, limg, lcache, larg, lnew, content, calls,
                   failures>>

(* ValidatePixelCacheMorphology; a mismatch reopens the cache in place,    *)
(* copying what pixels it had.                                             *)
Validate(l) ==
    LET i == limg[l]
        c == icache[i]
        v == IF dirty[i] THEN CopyOf(c) ELSE cval[c] IN
    /\ pc[l] = "validate"
    /\ dirty' = [dirty EXCEPT ![i] = FALSE]
    /\ cval' = [cval EXCEPT ![c] = v]
    /\ content' = [content EXCEPT ![Owner(l)] = v]
    /\ ilock' = [ilock EXCEPT ![i] = NoLane]
    /\ pc' = [pc EXCEPT ![l] = "return"]
    /\ lcache' = [lcache EXCEPT ![l] = NoCache]
    /\ UNCHANGED <<ilive, ref, icache, clive, crc, cmode, clock, ownerVars, limg, larg,
                   lnew, calls, failures>>

(* The reopening fails, either before OpenPixelCache has touched the cache *)
(* or after it has taken over the attributes and dropped the pixels.       *)
ValidateFails(l) ==
    LET i == limg[l] IN
    /\ pc[l] = "validate" /\ dirty[i]
    /\ failures < MaxFailures /\ failures' = failures + 1
    /\ \/ UNCHANGED <<dirty, cval, content>>
       \/ /\ dirty' = [dirty EXCEPT ![i] = FALSE]
          /\ cval' = [cval EXCEPT ![icache[i]] = NoPixels]
          /\ content' = [content EXCEPT ![Owner(l)] = NoPixels]
    /\ ilock' = [ilock EXCEPT ![i] = NoLane]
    /\ Return(l)
    /\ UNCHANGED <<ilive, ref, icache, clive, crc, cmode, clock, ownerVars, calls>>

(* image->cache is read once more, after image->semaphore is unlocked.     *)
ReturnCache(l) ==
    /\ pc[l] = "return"
    /\ lcache' = [lcache EXCEPT ![l] = icache[limg[l]]]
    /\ pc' = [pc EXCEPT ![l] = "pixels"]
    /\ UNCHANGED <<imageVars, cacheVars, ownerVars, limg, larg, lnew, content, calls,
                   failures>>

(* The caller writes through the cache it got, unless that has no pixels.  *)
WritePixels(l) ==
    LET c == lcache[l] IN
    /\ pc[l] = "pixels"
    /\ IF larg[l].kind = "sync" \/ cval[c] = NoPixels
       THEN UNCHANGED <<cval, content>>
       ELSE /\ cval' = [cval EXCEPT ![c] = larg[l].val]
            /\ content' = [content EXCEPT ![Owner(l)] = larg[l].val]
    /\ Return(l)
    /\ UNCHANGED <<imageVars, clive, crc, cmode, clock, ownerVars, calls, failures>>

-----------------------------------------------------------------------------
(* Nothing is left to do once the owners have made all their calls.        *)
Terminated == /\ calls = MaxCalls
              /\ \A l \in Lane : pc[l] = "idle"
              /\ \A o \in Owners : view[o] = NoImage
              /\ UNCHANGED vars

LaneStep(l) ==
    \/ CloneReference(l) \/ ModifyClone(l) \/ ModifyDecrement(l)
    \/ DestroyImagePixels(l) \/ KillCache(l) \/ KillImage(l)
    \/ ReadPixels(l)
    \/ Recheck(l) \/ CopyCache(l) \/ CopyFails(l) \/ DropOld(l) \/ DropFree(l)
    \/ Validate(l) \/ ValidateFails(l) \/ ReturnCache(l) \/ WritePixels(l)

OwnerStep(o) ==
    \/ AcquireImage(o)
    \/ AttachPersistent(o)
    \/ \E p \in Owners : ReferenceImage(o, p) \/ CloneImage(o, p) \/ CloneSized(o, p)
    \/ ModifyImage(o)
    \/ DestroyImage(o)
    \/ \E kind \in {"virtual", "authentic"} : AcquireCacheView(o, kind)
    \/ DestroyCacheView(o)

StartCall(l) ==
    \/ GetVirtualPixels(l)
    \/ \E arg \in Writes \union {Sync}, resize \in BOOLEAN :
            GetImagePixelCache(l, arg, resize)

Next == \/ \E l \in Lane : LaneStep(l) \/ StartCall(l)
        \/ \E o \in Owners : OwnerStep(o)
        \/ Terminated

Spec == Init /\ [][Next]_vars

(* The operating system runs every thread that can run: each call that was *)
(* begun goes on, and a parallel region that has finished is joined.       *)
FairSpec == /\ Spec
            /\ \A l \in Lane : WF_vars(LaneStep(l))
            /\ \A o \in Owners : WF_vars(DestroyCacheView(o))

-----------------------------------------------------------------------------
(* Properties                                                              *)

(* Every variable has its type; no count is negative.                      *)
ImagesTypeOK ==
    /\ ilive \subseteq Images
    /\ ref \in [Images -> Nat]
    /\ icache \in [Images -> Caches \union {NoCache}]
    /\ ilock \in [Images -> Lane \union {NoLane}]
    /\ dirty \in [Images -> BOOLEAN]
CachesTypeOK ==
    /\ clive \subseteq Caches
    /\ crc \in [Caches -> Nat]
    /\ cmode \in [Caches -> {"io", "read"}]
    /\ clock \in [Caches -> Lane \union {NoLane}]
    /\ cval \in [Caches -> Pixels]
OwnersTypeOK ==
    /\ handle \in [Owners -> Images \union {NoImage}]
    /\ view \in [Owners -> Images \union {NoImage}]
    /\ vkind \in [Owners -> {"none", "virtual", "authentic"}]
    /\ excl \in [Owners -> BOOLEAN]
    /\ content \in [Owners -> Pixels]
LanesTypeOK ==
    /\ pc \in [Lane -> PC]
    /\ limg \in [Lane -> Images \union {NoImage}]
    /\ lcache \in [Lane -> Caches \union {NoCache}]
    /\ larg \in [Lane -> Args]
    /\ lnew \in [Lane -> Images \union {NoImage}]
BoundsTypeOK == calls \in 0..MaxCalls /\ failures \in 0..MaxFailures
TypeOK == ImagesTypeOK /\ CachesTypeOK /\ OwnersTypeOK /\ LanesTypeOK /\ BoundsTypeOK

(* The reference_count of an image is the number of handles and cache      *)
(* views that point at it, at every moment (ReferenceImage, DestroyImage,  *)
(* ModifyImage, cache views).                                              *)
Holders(i) == {o \in Owners : handle[o] = i}
Viewers(i) == {o \in Owners : view[o] = i}
Modifiers(i) == {l \in Lane : pc[l] = "mod_dec" /\ lnew[l] = i}
ImageCountExact ==
    \A i \in Images :
        ref[i] = Cardinality(Holders(i)) + Cardinality(Viewers(i))
                     + Cardinality(Modifiers(i))

(* The reference_count of a cache is the number of images that point at it *)
(* plus the threads that have moved their image to a copy and are about to *)
(* drop it: GetImagePixelCache, CloneImage and DestroyImage together never *)
(* lose or invent a reference.                                             *)
Users(c) == {i \in ilive : icache[i] = c}
Droppers(c) == {l \in Lane : pc[l] = "drop" /\ lcache[l] = c}
CacheCountExact ==
    \A c \in Caches : crc[c] = Cardinality(Users(c)) + Cardinality(Droppers(c))

(* Both counts are exact, in every interleaving and after every failure.   *)
CountsExact == TypeOK /\ ImageCountExact /\ CacheCountExact

(* A cache with no reference left is being freed by exactly one thread,    *)
(* the one whose DestroyPixelCache reached zero.                           *)
Freeing(c) == {l \in Lane : pc[l] \in {"kill_cache", "drop_free"} /\ lcache[l] = c}
CacheReclaimed == \A c \in clive : crc[c] = 0 => Cardinality(Freeing(c)) = 1

(* Nobody holds a pointer to freed memory: no handle, view or local of a   *)
(* call in progress, and no image that is still in use.                    *)
NoDanglingPointer ==
    /\ \A o \in Owners : {handle[o], view[o]} \subseteq ilive \union {NoImage}
    /\ \A o \in Owners : handle[o] # NoImage => icache[handle[o]] \in clive
    /\ \A l \in Lane : /\ {limg[l], lnew[l]} \subseteq ilive \union {NoImage}
                       /\ pc[l] \notin {"kill_image", "validate"} =>
                              lcache[l] \in clive \union {NoCache}

(* A thread that reads virtual pixels keeps seeing its owner's image until *)
(* it is done, whatever other owners of the image or the cache write,      *)
(* detach or destroy meanwhile: the pointer it took without a lock stays   *)
(* good.                                                                   *)
ReadersUndisturbed ==
    \A l \in Lane : pc[l] = "reading" =>
        lcache[l] \in clive /\ cval[lcache[l]] = content[Owner(l)]

(* When GetImagePixelCache has returned a cache for writing, that cache is *)
(* the image's, nobody else's and not mapped read-only, and it stays so    *)
(* until the pixels are written, also if other threads of the team enter   *)
(* GetImagePixelCache on the same image.                                   *)
WriterOwnsCache ==
    \A l \in Lane : pc[l] = "pixels" =>
        LET c == lcache[l] IN
        /\ icache[limg[l]] = c /\ crc[c] = 1 /\ cmode[c] = "io"
        /\ limg[l] = handle[Owner(l)]
        /\ \A o \in Owners : handle[o] = limg[l] => o = Owner(l)

(* No step changes the pixels of a cache that several images share or that *)
(* is mapped read-only from a persistent file.                             *)
SharedCacheFrozen ==
    [][\A c \in clive \intersect clive' :
            (crc[c] > 1 \/ cmode[c] = "read") => cval'[c] = cval[c]]_vars

(* The stack of reference counts implements value semantics: what one      *)
(* owner does never shows in another owner's image (ImageValues).          *)
Value(o) == IF handle[o] = NoImage THEN Absent ELSE cval[icache[handle[o]]]
Promise == INSTANCE ImageValues WITH Values <- Pixels, Absent <- Absent,
                                     value <- [o \in Owners |-> Value(o)]
ImplementsImageValues == Promise!Spec

(* Every call returns, and returns its semaphores: image->semaphore and    *)
(* cache_info->semaphore are taken in one order and released on every      *)
(* path.                                                                   *)
InCall(l) == l # NoLane => pc[l] # "idle"
CallsReturn ==
    /\ \A l \in Lane : pc[l] # "idle" ~> pc[l] = "idle"
    /\ []((\A i \in Images : InCall(ilock[i])) /\ (\A c \in Caches : InCall(clock[c])))

(* An image whose reference_count has become zero is being destroyed.      *)
(* No run checks it: the code breaks it (README, observations).            *)
UnusedImageDestroyed ==
    \A i \in ilive : ref[i] = 0 =>
        \E l \in Lane : pc[l] \in {"kill", "kill_cache", "kill_image"} /\ limg[l] = i

=============================================================================
