-------------------------- MODULE PixelCacheProofs --------------------------
(***************************************************************************)
(* Theorems about PixelCache, for any number of owners, threads in a team, *)
(* images, caches, calls and failures.                                     *)
(***************************************************************************)
EXTENDS PixelCache, FiniteSetTheorems, TLAPS

-----------------------------------------------------------------------------
(* The inductive invariant                                                 *)

(* Calls that only the owner's first lane makes, with no view open.        *)
OwnCalls == {"await", "clone_ref", "mod_clone", "mod_dec",
             "kill", "kill_cache", "kill_image"}
(* The stages of GetImagePixelCache with image->semaphore held, and all.   *)
Locked  == {"recheck", "copy", "drop", "drop_free", "validate"}
Writing == Locked \union {"return", "pixels"}

(* What is not allocated has no references; an image in use has a cache.   *)
DeadInv ==
    /\ \A i \in Images : i \notin ilive => ref[i] = 0
    /\ \A c \in Caches : c \notin clive => crc[c] = 0
    /\ \A i \in Images : ref[i] > 0 => icache[i] \in Caches

(* A semaphore is held by the lane whose call is in its section.           *)
LocksInv ==
    /\ \A i \in Images : ilock[i] # NoLane => pc[ilock[i]] \in Locked /\ limg[ilock[i]] = i
    /\ \A c \in Caches : clock[c] # NoLane => pc[clock[c]] = "copy" /\ lcache[clock[c]] = c

(* An owner's view is of its image; an owner that may write its image is   *)
(* the only one that has it.                                               *)
ViewsInv ==
    \A o \in Owners : /\ view[o] \in {NoImage, handle[o]}
                      /\ view[o] = NoImage <=> vkind[o] = "none"
                      /\ vkind[o] = "authentic" => excl[o]
ExclInv ==
    \A o, p \in Owners : excl[o] => /\ handle[o] # NoImage
                                    /\ handle[p] = handle[o] => p = o

(* Every owner with an image sees what it is entitled to.                  *)
ContentInv ==
    \A o \in Owners : handle[o] # NoImage => content[o] = cval[icache[handle[o]]]

(* Which lanes of an owner may be in a call.                               *)
TeamInv ==
    \A l \in Lane :
        /\ pc[l] \in OwnCalls => l = Main(Owner(l)) /\ view[Owner(l)] = NoImage
        /\ pc[l] # "idle" => l = Main(Owner(l)) \/ view[Owner(l)] # NoImage
        /\ pc[l] \in Writing => excl[Owner(l)] /\ vkind[Owner(l)] # "virtual"
        /\ pc[l] = "reading" => vkind[Owner(l)] # "authentic"

(* The locals of a call.                                                   *)
LocalsInv ==
    \A l \in Lane :
        /\ pc[l] \in {"idle", "await"} => limg[l] = NoImage
        /\ pc[l] \in {"idle", "await", "kill", "return"} => lcache[l] = NoCache
        /\ lnew[l] # NoImage => pc[l] = "mod_dec"
        /\ pc[l] = "await" => handle[Owner(l)] = NoImage
        /\ pc[l] \in Writing => larg[l] \in Writes \union {Sync}
        /\ pc[l] = "pixels" \/ pc[l] \in {"clone_ref", "mod_clone", "mod_dec", "recheck", "copy", "reading"} =>
              lcache[l] = icache[limg[l]]
        /\ pc[l] \in Writing \union {"clone_ref", "mod_clone", "mod_dec", "reading"} =>
              limg[l] = handle[Owner(l)] /\ handle[Owner(l)] # NoImage

(* A clone goes to an owner that waits for it and for no other.            *)
CloneInv ==
    \A l \in Lane : pc[l] = "clone_ref" =>
        /\ larg[l] \in {CloneTo(p) : p \in Owners}
        /\ pc[Main(larg[l].to)] = "await"
        /\ \A m \in Lane : pc[m] = "clone_ref" /\ larg[m].to = larg[l].to => m = l

(* The clone that ModifyImage made is its own.                             *)
ModifyInv ==
    \A l \in Lane : pc[l] = "mod_dec" =>
        /\ lnew[l] \in ilive /\ ref[lnew[l]] = 1 /\ icache[lnew[l]] = lcache[l]
        /\ \A o \in Owners : handle[o] # lnew[l]
        /\ \A m \in Lane : pc[m] = "mod_dec" /\ lnew[m] = lnew[l] => m = l

(* What is being freed, image or cache, is freed by one lane.              *)
KillInv ==
    \A l \in Lane : pc[l] \in {"kill", "kill_cache", "kill_image"} =>
        /\ limg[l] \in ilive /\ ref[limg[l]] = 0
        /\ IF pc[l] = "kill" THEN icache[limg[l]] \in Caches ELSE icache[limg[l]] = NoCache
        /\ \A m \in Lane : pc[m] \in {"kill", "kill_cache", "kill_image"} /\ limg[m] = limg[l] => m = l
FreeInv ==
    /\ \A l \in Lane : pc[l] \in {"kill_cache", "drop_free"} =>
        /\ lcache[l] \in clive /\ crc[lcache[l]] = 0
        /\ \A m \in Lane : pc[m] \in {"kill_cache", "drop_free"} /\ lcache[m] = lcache[l] => m = l
    /\ \A c \in clive : crc[c] = 0 =>
        \E l \in Lane : pc[l] \in {"kill_cache", "drop_free"} /\ lcache[l] = c

(* GetImagePixelCache: who holds which semaphore, and what the checks and  *)
(* the copy have achieved.                                                 *)
HoldInv ==
    \A l \in Lane :
        /\ pc[l] \in Locked => ilock[limg[l]] = l
        /\ pc[l] = "copy" => clock[lcache[l]] = l /\ Shared(lcache[l])
        /\ pc[l] = "drop" => lcache[l] \in Caches
OwnedInv ==
    \A l \in Lane : pc[l] \in {"drop", "drop_free", "validate", "return", "pixels"} =>
        crc[icache[limg[l]]] = 1 /\ cmode[icache[limg[l]]] = "io"

IInv ==
    /\ TypeOK /\ ImageCountExact /\ CacheCountExact
    /\ DeadInv /\ LocksInv /\ ViewsInv /\ ExclInv /\ ContentInv
    /\ TeamInv /\ LocalsInv /\ CloneInv /\ ModifyInv
    /\ KillInv /\ FreeInv /\ HoldInv /\ OwnedInv

-----------------------------------------------------------------------------
(* Lanes, fresh memory, and counting                                       *)

LEMMA LaneFacts ==
    /\ \A l \in Lane : Owner(l) \in Owners
    /\ \A o \in Owners : Main(o) \in Lane /\ Owner(Main(o)) = o
    /\ \A o, p \in Owners : Main(o) = Main(p) => o = p
    /\ NoLane \notin Lane /\ NoImage \notin Images /\ NoCache \notin Caches
<1>1. 1 \in 1..NumLanes
    BY LanesAssumption
<1> QED
    BY <1>1, NoLaneAssumption, NullAssumption DEF Lane, Owner, Main

LEMMA FreshFacts ==
    /\ RoomForImage => FreshImage \in Images /\ FreshImage \notin ilive
    /\ RoomForCache => FreshCache \in Caches /\ FreshCache \notin clive
<1>1. ASSUME RoomForImage PROVE FreshImage \in Images /\ FreshImage \notin ilive
    BY <1>1 DEF RoomForImage, FreshImage
<1>2. ASSUME RoomForCache PROVE FreshCache \in Caches /\ FreshCache \notin clive
    BY <1>2 DEF RoomForCache, FreshCache
<1> QED
    BY <1>1, <1>2

LEMMA LaneFinite == IsFiniteSet(Lane)
<1>1. IsFiniteSet(1..NumLanes)
    BY FS_Interval, LanesAssumption
<1> QED
    BY <1>1, FS_Product, FiniteAssumption DEF Lane

LEMMA AddOne ==
    ASSUME NEW S, IsFiniteSet(S), NEW x, x \notin S
    PROVE  Cardinality(S \union {x}) = Cardinality(S) + 1
BY FS_AddElement

LEMMA RemoveOne ==
    ASSUME NEW S, IsFiniteSet(S), NEW x \in S
    PROVE  Cardinality(S \ {x}) = Cardinality(S) - 1 /\ Cardinality(S) > 0
<1>1. Cardinality(S \ {x}) = Cardinality(S) - 1
    BY FS_RemoveElement
<1>2. Cardinality(S) # 0 /\ Cardinality(S) \in Nat
    BY FS_CardinalityType, FS_EmptySet
<1> QED
    BY <1>1, <1>2

LEMMA OneElement ==
    ASSUME NEW S, IsFiniteSet(S), Cardinality(S) = 1, NEW x \in S, NEW y \in S
    PROVE  x = y
<1>1. PICK z : S = {z}
    BY FS_Singleton
<1> QED
    BY <1>1

LEMMA FiniteSets ==
    ASSUME ilive \subseteq Images
    PROVE  /\ \A i : IsFiniteSet(Holders(i)) /\ IsFiniteSet(Viewers(i)) /\ IsFiniteSet(Modifiers(i))
           /\ \A c : IsFiniteSet(Users(c)) /\ IsFiniteSet(Droppers(c))
           /\ \A i : /\ Cardinality(Holders(i)) \in Nat /\ Cardinality(Viewers(i)) \in Nat
                     /\ Cardinality(Modifiers(i)) \in Nat
           /\ \A c : Cardinality(Users(c)) \in Nat /\ Cardinality(Droppers(c)) \in Nat
<1>1. \A i : Holders(i) \subseteq Owners /\ Viewers(i) \subseteq Owners /\ Modifiers(i) \subseteq Lane
    BY DEF Holders, Viewers, Modifiers
<1>2. \A c : Users(c) \subseteq Images /\ Droppers(c) \subseteq Lane
    BY DEF Users, Droppers
<1>3. \A i : IsFiniteSet(Holders(i)) /\ IsFiniteSet(Viewers(i)) /\ IsFiniteSet(Modifiers(i))
    BY <1>1, FS_Subset, FiniteAssumption, LaneFinite
<1>4. \A c : IsFiniteSet(Users(c)) /\ IsFiniteSet(Droppers(c))
    BY <1>2, FS_Subset, FiniteAssumption, LaneFinite
<1> QED
    BY <1>3, <1>4, FS_CardinalityType

(* What is held has references; what has none is held by nobody.           *)
LEMMA HeldImage ==
    ASSUME ImagesTypeOK, OwnersTypeOK, ImageCountExact
    PROVE  /\ \A o \in Owners : handle[o] # NoImage => ref[handle[o]] > 0
           /\ \A o \in Owners : view[o] # NoImage => ref[view[o]] > 0
           /\ \A i \in Images : ref[i] = 0 =>
                Holders(i) = {} /\ Viewers(i) = {} /\ Modifiers(i) = {}
<1>1. ASSUME NEW i \in Images, NEW S, S \in {Holders(i), Viewers(i), Modifiers(i)}, S # {}
      PROVE  ref[i] > 0
  <2>1. IsFiniteSet(S) /\ Cardinality(S) \in Nat /\ Cardinality(S) # 0
      BY <1>1, FiniteSets, FS_EmptySet, FS_CardinalityType DEF ImagesTypeOK
  <2>2. ref[i] = Cardinality(Holders(i)) + Cardinality(Viewers(i)) + Cardinality(Modifiers(i))
      BY DEF ImageCountExact
  <2>3. /\ Cardinality(Holders(i)) \in Nat /\ Cardinality(Viewers(i)) \in Nat
        /\ Cardinality(Modifiers(i)) \in Nat
      BY FiniteSets DEF ImagesTypeOK
  <2>4. CASE S = Holders(i)
      BY <2>1, <2>2, <2>3, <2>4
  <2>5. CASE S = Viewers(i)
      BY <2>1, <2>2, <2>3, <2>5
  <2>6. CASE S = Modifiers(i)
      BY <2>1, <2>2, <2>3, <2>6
  <2> QED
      BY <1>1, <2>4, <2>5, <2>6
<1>2. \A o \in Owners : /\ handle[o] # NoImage => handle[o] \in Images /\ o \in Holders(handle[o])
                        /\ view[o] # NoImage => view[o] \in Images /\ o \in Viewers(view[o])
    BY DEF OwnersTypeOK, Holders, Viewers
<1>3. \A i \in Images : ref[i] = 0 => Holders(i) = {} /\ Viewers(i) = {} /\ Modifiers(i) = {}
    BY <1>1
<1> QED
    BY <1>1, <1>2, <1>3

LEMMA HeldCache ==
    ASSUME ImagesTypeOK, CachesTypeOK, CacheCountExact
    PROVE  /\ \A c \in Caches : crc[c] = 0 => Users(c) = {} /\ Droppers(c) = {}
           /\ \A i \in ilive : icache[i] \in Caches => crc[icache[i]] > 0
           /\ \A l \in Lane : pc[l] = "drop" /\ lcache[l] \in Caches => crc[lcache[l]] > 0
<1>1. ASSUME NEW c \in Caches, NEW S, S \in {Users(c), Droppers(c)}, S # {}
      PROVE  crc[c] > 0
  <2>1. IsFiniteSet(S) /\ Cardinality(S) \in Nat /\ Cardinality(S) # 0
      BY <1>1, FiniteSets, FS_EmptySet, FS_CardinalityType DEF ImagesTypeOK
  <2> QED
      BY <1>1, <2>1, FiniteSets DEF CacheCountExact, ImagesTypeOK
<1>2. \A c \in Caches : crc[c] = 0 => Users(c) = {} /\ Droppers(c) = {}
    BY <1>1
<1>3. \A i \in ilive : i \in Users(icache[i])
    BY DEF Users
<1>4. \A l \in Lane : pc[l] = "drop" => l \in Droppers(lcache[l])
    BY DEF Droppers
<1> QED
    BY <1>1, <1>2, <1>3, <1>4

(* A cache with one reference, which is an image's, is nobody else's.      *)
LEMMA SoleUser ==
    ASSUME ImagesTypeOK, CachesTypeOK, CacheCountExact, NEW c \in Caches, crc[c] = 1,
           NEW i \in ilive, icache[i] = c
    PROVE  /\ \A j \in ilive : icache[j] = c => j = i
           /\ \A l \in Lane : pc[l] = "drop" => lcache[l] # c
<1>1. i \in Users(c) /\ IsFiniteSet(Users(c)) /\ IsFiniteSet(Droppers(c))
    BY FiniteSets DEF Users, ImagesTypeOK
<1>2. Cardinality(Users(c)) \in Nat /\ Cardinality(Users(c)) > 0 /\ Cardinality(Droppers(c)) \in Nat
    BY <1>1, FiniteSets, RemoveOne DEF ImagesTypeOK
<1>3. crc[c] = Cardinality(Users(c)) + Cardinality(Droppers(c))
    BY DEF CacheCountExact
<1>4. Cardinality(Users(c)) = 1 /\ Cardinality(Droppers(c)) = 0
    BY <1>2, <1>3
<1>5. \A j \in Users(c) : j = i
    BY <1>1, <1>4, OneElement
<1>6. Droppers(c) = {}
    BY <1>1, <1>4, FS_EmptySet
<1> QED
    BY <1>5, <1>6 DEF Users, Droppers

(* What an image in use and the calls on it can rely on.                   *)
LEMMA InUse ==
    ASSUME IInv
    PROVE  /\ \A i \in Images : ref[i] > 0 =>
                 /\ i \in ilive /\ icache[i] \in Caches
                 /\ icache[i] \in clive /\ crc[icache[i]] > 0
           /\ \A o \in Owners : handle[o] # NoImage => handle[o] \in Images /\ ref[handle[o]] > 0
           /\ \A o \in Owners : view[o] # NoImage => view[o] \in Images /\ ref[view[o]] > 0
<1>0. /\ ImagesTypeOK /\ CachesTypeOK /\ OwnersTypeOK
      /\ ImageCountExact /\ CacheCountExact /\ DeadInv
    BY DEF IInv, TypeOK
<1>1. ASSUME NEW i \in Images, ref[i] > 0
      PROVE  /\ i \in ilive /\ icache[i] \in Caches
             /\ icache[i] \in clive /\ crc[icache[i]] > 0
  <2>1. i \in ilive /\ icache[i] \in Caches
      BY <1>0, <1>1 DEF DeadInv
  <2>2. crc[icache[i]] > 0
      BY <1>0, <2>1, HeldCache
  <2> QED
      BY <1>0, <2>1, <2>2 DEF DeadInv
<1>2. /\ \A o \in Owners : handle[o] # NoImage => handle[o] \in Images /\ ref[handle[o]] > 0
      /\ \A o \in Owners : view[o] # NoImage => view[o] \in Images /\ ref[view[o]] > 0
    BY <1>0, HeldImage DEF OwnersTypeOK
<1> QED
    BY <1>1, <1>2

LEMMA CallFacts ==
    ASSUME IInv, NEW l \in Lane
    PROVE  /\ pc[l] \in Writing \union {"clone_ref", "mod_clone", "mod_dec", "reading"} =>
                 /\ limg[l] \in Images /\ ref[limg[l]] > 0 /\ limg[l] \in ilive
                 /\ icache[limg[l]] \in clive /\ icache[limg[l]] \in Caches
                 /\ crc[icache[limg[l]]] > 0 /\ limg[l] = handle[Owner(l)]
                 /\ handle[Owner(l)] # NoImage
           /\ pc[l] \in {"pixels", "clone_ref", "mod_clone", "mod_dec", "recheck", "copy", "reading"} =>
                 lcache[l] = icache[limg[l]]
           /\ pc[l] \in {"kill", "kill_cache", "kill_image"} => limg[l] \in Images /\ limg[l] \in ilive
           /\ pc[l] = "kill" => icache[limg[l]] \in clive /\ crc[icache[limg[l]]] > 0
           /\ pc[l] \in {"kill_cache", "drop_free"} => lcache[l] \in Caches /\ lcache[l] \in clive
           /\ pc[l] = "drop" => lcache[l] \in Caches /\ lcache[l] \in clive /\ crc[lcache[l]] > 0
           /\ pc[l] = "mod_dec" => lnew[l] \in Images /\ lnew[l] # limg[l]
           /\ pc[l] = "clone_ref" => larg[l].to \in Owners /\ Main(larg[l].to) # l
<1>0. /\ ImagesTypeOK /\ CachesTypeOK /\ OwnersTypeOK /\ LanesTypeOK /\ LocalsInv /\ KillInv
      /\ FreeInv /\ HoldInv /\ ModifyInv /\ CloneInv /\ DeadInv /\ CacheCountExact
    BY DEF IInv, TypeOK
<1>1. Owner(l) \in Owners
    BY LaneFacts
<1>2. pc[l] \in Writing \union {"clone_ref", "mod_clone", "mod_dec", "reading"} =>
          limg[l] = handle[Owner(l)] /\ handle[Owner(l)] # NoImage
    BY <1>0 DEF LocalsInv
<1>3. pc[l] \in Writing \union {"clone_ref", "mod_clone", "mod_dec", "reading"} =>
          /\ limg[l] \in Images /\ ref[limg[l]] > 0 /\ limg[l] \in ilive
          /\ icache[limg[l]] \in clive /\ icache[limg[l]] \in Caches
          /\ crc[icache[limg[l]]] > 0
    BY <1>1, <1>2, InUse
<1>4. pc[l] \in {"pixels", "clone_ref", "mod_clone", "mod_dec", "recheck", "copy", "reading"} =>
          lcache[l] = icache[limg[l]]
    BY <1>0 DEF LocalsInv
<1>5. pc[l] \in {"kill", "kill_cache", "kill_image"} => limg[l] \in Images /\ limg[l] \in ilive
    BY <1>0 DEF KillInv, ImagesTypeOK
<1>6. pc[l] = "kill" => icache[limg[l]] \in clive /\ crc[icache[limg[l]]] > 0
  <2>1. pc[l] = "kill" => limg[l] \in ilive /\ icache[limg[l]] \in Caches
      BY <1>0 DEF KillInv
  <2>2. pc[l] = "kill" => crc[icache[limg[l]]] > 0
      BY <1>0, <2>1, HeldCache
  <2> QED
      BY <1>0, <2>1, <2>2 DEF DeadInv
<1>7. pc[l] \in {"kill_cache", "drop_free"} => lcache[l] \in Caches /\ lcache[l] \in clive
    BY <1>0 DEF FreeInv, CachesTypeOK
<1>8. pc[l] = "drop" => lcache[l] \in Caches /\ lcache[l] \in clive /\ crc[lcache[l]] > 0
  <2>1. pc[l] = "drop" => lcache[l] \in Caches
      BY <1>0 DEF HoldInv
  <2>2. pc[l] = "drop" => crc[lcache[l]] > 0
      BY <1>0, <2>1, HeldCache
  <2> QED
      BY <1>0, <2>1, <2>2 DEF DeadInv
<1>9. pc[l] = "mod_dec" => lnew[l] \in Images /\ lnew[l] # limg[l]
    BY <1>0, <1>1, <1>2 DEF ModifyInv, ImagesTypeOK
<1>10. pc[l] = "clone_ref" => larg[l].to \in Owners /\ Main(larg[l].to) # l
    BY <1>0 DEF CloneInv, CloneTo
<1> QED
    BY <1>2, <1>3, <1>4, <1>5, <1>6, <1>7, <1>8, <1>9, <1>10

(* Who may write through an image's cache has that cache to itself.        *)
LEMMA Alone ==
    ASSUME IInv, NEW l \in Lane,
           pc[l] \in {"drop", "drop_free", "validate", "return", "pixels"}
    PROVE  /\ \A j \in ilive : icache[j] = icache[limg[l]] => j = limg[l]
           /\ \A m \in Lane : pc[m] = "drop" => lcache[m] # icache[limg[l]]
           /\ \A o \in Owners : handle[o] = limg[l] => o = Owner(l)
<1>0. ImagesTypeOK /\ CachesTypeOK /\ CacheCountExact /\ OwnedInv /\ TeamInv /\ ExclInv
    BY DEF IInv, TypeOK
<1>1. /\ limg[l] \in ilive /\ icache[limg[l]] \in Caches /\ limg[l] = handle[Owner(l)]
      /\ crc[icache[limg[l]]] = 1 /\ excl[Owner(l)]
    BY <1>0, CallFacts DEF Writing, Locked, OwnedInv, TeamInv
<1>2. /\ \A j \in ilive : icache[j] = icache[limg[l]] => j = limg[l]
      /\ \A m \in Lane : pc[m] = "drop" => lcache[m] # icache[limg[l]]
    BY <1>0, <1>1, SoleUser
<1>3. \A o \in Owners : handle[o] = limg[l] => o = Owner(l)
    BY <1>0, <1>1, LaneFacts DEF ExclInv
<1> QED
    BY <1>2, <1>3

(* The images and caches that calls name are memory.                       *)
LEMMA Named ==
    ASSUME IInv
    PROVE  \A m \in Lane :
             /\ pc[m] \in Writing \union {"clone_ref", "mod_clone", "mod_dec", "reading"} =>
                  limg[m] \in Images /\ limg[m] \in ilive /\ icache[limg[m]] \in Caches
             /\ pc[m] \in {"kill", "kill_cache", "kill_image"} => limg[m] \in Images
             /\ pc[m] \in {"kill_cache", "drop_free", "drop", "pixels", "clone_ref", "mod_clone",
                           "mod_dec", "recheck", "copy", "reading"} => lcache[m] \in Caches
             /\ pc[m] = "mod_dec" => lnew[m] \in Images
             /\ pc[m] = "clone_ref" => larg[m].to \in Owners
BY CallFacts DEF Writing, Locked

(* Memory that is not allocated is named by nobody.                        *)
LEMMA FreshImageFacts ==
    ASSUME IInv, RoomForImage
    PROVE  /\ FreshImage \in Images /\ FreshImage \notin ilive /\ ref[FreshImage] = 0
           /\ \A o \in Owners : handle[o] # FreshImage /\ view[o] # FreshImage
           /\ \A m \in Lane :
                /\ pc[m] \in Writing \union {"clone_ref", "mod_clone", "mod_dec", "reading",
                              "kill", "kill_cache", "kill_image"} => limg[m] # FreshImage
                /\ pc[m] = "mod_dec" => lnew[m] # FreshImage
           /\ ilock[FreshImage] = NoLane /\ FreshImage # NoImage
<1>0. ImagesTypeOK /\ DeadInv /\ LocksInv /\ ModifyInv /\ KillInv
    BY DEF IInv, TypeOK
<1>1. FreshImage \in Images /\ FreshImage \notin ilive /\ ref[FreshImage] = 0
    BY <1>0, FreshFacts DEF DeadInv
<1>2. \A o \in Owners : handle[o] # FreshImage /\ view[o] # FreshImage
    BY <1>1, InUse, NullAssumption
<1>3. \A m \in Lane :
        /\ pc[m] \in Writing \union {"clone_ref", "mod_clone", "mod_dec", "reading",
                      "kill", "kill_cache", "kill_image"} => limg[m] # FreshImage
        /\ pc[m] = "mod_dec" => lnew[m] # FreshImage
  <2>1. \A m \in Lane :
          pc[m] \in Writing \union {"clone_ref", "mod_clone", "mod_dec", "reading",
                      "kill", "kill_cache", "kill_image"} => limg[m] \in ilive
      BY CallFacts
  <2> QED
      BY <1>0, <1>1, <2>1 DEF ModifyInv
<1>4. ilock[FreshImage] = NoLane
  <2>1. ilock[FreshImage] # NoLane =>
          pc[ilock[FreshImage]] \in Locked /\ limg[ilock[FreshImage]] = FreshImage
      BY <1>0, <1>1 DEF LocksInv
  <2>2. ilock[FreshImage] # NoLane => ilock[FreshImage] \in Lane
      BY <1>0, <1>1 DEF ImagesTypeOK
  <2> QED
      BY <1>3, <2>1, <2>2 DEF Writing
<1> QED
    BY <1>1, <1>2, <1>3, <1>4, NullAssumption

LEMMA FreshCacheFacts ==
    ASSUME IInv, RoomForCache
    PROVE  /\ FreshCache \in Caches /\ FreshCache \notin clive /\ crc[FreshCache] = 0
           /\ \A i \in ilive : icache[i] # FreshCache
           /\ \A m \in Lane :
                pc[m] \in {"kill_cache", "drop_free", "drop", "pixels", "clone_ref", "mod_clone",
                           "mod_dec", "recheck", "copy", "reading"} => lcache[m] # FreshCache
           /\ clock[FreshCache] = NoLane /\ FreshCache # NoCache
<1>0. ImagesTypeOK /\ CachesTypeOK /\ DeadInv /\ LocksInv /\ CacheCountExact
    BY DEF IInv, TypeOK
<1>1. FreshCache \in Caches /\ FreshCache \notin clive /\ crc[FreshCache] = 0
    BY <1>0, FreshFacts DEF DeadInv
<1>2. \A i \in ilive : icache[i] # FreshCache
    BY <1>0, <1>1, HeldCache
<1>3. \A m \in Lane :
        pc[m] \in {"kill_cache", "drop_free", "drop", "pixels", "clone_ref", "mod_clone",
                   "mod_dec", "recheck", "copy", "reading"} => lcache[m] # FreshCache
    BY <1>1, CallFacts DEF Writing, Locked
<1>4. clock[FreshCache] = NoLane
  <2>1. clock[FreshCache] # NoLane =>
          pc[clock[FreshCache]] = "copy" /\ lcache[clock[FreshCache]] = FreshCache
      BY <1>0, <1>1 DEF LocksInv
  <2>2. clock[FreshCache] # NoLane => clock[FreshCache] \in Lane
      BY <1>0, <1>1 DEF CachesTypeOK
  <2> QED
      BY <1>3, <2>1, <2>2
<1> QED
    BY <1>1, <1>2, <1>3, <1>4, NullAssumption

(* The only reference to an image that an owner has is that owner's.       *)
LEMMA SoleHolder ==
    ASSUME IInv, NEW o \in Owners, handle[o] # NoImage, ref[handle[o]] <= 1
    PROVE  \A p \in Owners : handle[p] = handle[o] => p = o
<1>0. ImagesTypeOK /\ OwnersTypeOK /\ ImageCountExact
    BY DEF IInv, TypeOK
<1> DEFINE H == Holders(handle[o])
<1>1. handle[o] \in Images /\ o \in H
    BY <1>0 DEF OwnersTypeOK, Holders
<1>2. /\ IsFiniteSet(H) /\ Cardinality(H) \in Nat
      /\ Cardinality(Viewers(handle[o])) \in Nat /\ Cardinality(Modifiers(handle[o])) \in Nat
    BY <1>0, FiniteSets DEF ImagesTypeOK
<1>3. ref[handle[o]] = Cardinality(H) + Cardinality(Viewers(handle[o]))
                         + Cardinality(Modifiers(handle[o]))
    BY <1>0, <1>1 DEF ImageCountExact
<1>4. Cardinality(H) > 0
    BY <1>1, <1>2, RemoveOne
<1>5. Cardinality(H) = 1
    BY <1>0, <1>1, <1>2, <1>3, <1>4 DEF ImagesTypeOK
<1>6. \A x \in H : x = o
    BY <1>1, <1>2, <1>5, OneElement
<1> QED
    BY <1>6 DEF Holders

(* What is cloned is not an image that is being given a cache of its own.  *)
LEMMA Apart ==
    ASSUME IInv, NEW l \in Lane, pc[l] \in {"clone_ref", "mod_clone"}
    PROVE  \A m \in Lane : pc[m] \in {"drop", "drop_free", "validate", "return", "pixels"} =>
               icache[limg[m]] # icache[limg[l]]
<1> SUFFICES ASSUME NEW m \in Lane,
                    pc[m] \in {"drop", "drop_free", "validate", "return", "pixels"},
                    icache[limg[m]] = icache[limg[l]]
             PROVE  FALSE
    OBVIOUS
<1>1. limg[l] \in ilive /\ limg[l] = handle[Owner(l)]
    BY CallFacts
<1>2. limg[l] = limg[m]
    BY <1>1, Alone
<1>3. Owner(l) = Owner(m)
    BY <1>1, <1>2, Alone, LaneFacts
<1>4. l = Main(Owner(l)) /\ m = Main(Owner(m))
    BY <1>3 DEF IInv, TeamInv, OwnCalls
<1> QED
    BY <1>3, <1>4

-----------------------------------------------------------------------------
(* Every action preserves the invariant                                    *)

LEMMA ReadPixelsInv ==
    ASSUME IInv, NEW l \in Lane, ReadPixels(l)
    PROVE  IInv'
<1>0. /\ ImagesTypeOK /\ CachesTypeOK /\ OwnersTypeOK /\ LanesTypeOK /\ BoundsTypeOK
      /\ ImageCountExact /\ CacheCountExact /\ DeadInv /\ LocksInv /\ ViewsInv
      /\ ExclInv /\ ContentInv /\ TeamInv /\ LocalsInv /\ CloneInv
      /\ ModifyInv /\ KillInv /\ FreeInv /\ HoldInv /\ OwnedInv
    BY DEF IInv, TypeOK
<1>1. ImagesTypeOK'
    BY <1>0, LaneFacts
       DEF ReadPixels, Return, imageVars, cacheVars, ownerVars, ImagesTypeOK,
           OwnersTypeOK, LanesTypeOK, CachesTypeOK
<1>2. CachesTypeOK'
    BY <1>0, LaneFacts
       DEF ReadPixels, Return, imageVars, cacheVars, ownerVars, CachesTypeOK,
           OwnersTypeOK, LanesTypeOK, ImagesTypeOK
<1>3. OwnersTypeOK'
    BY <1>0, LaneFacts
       DEF ReadPixels, Return, imageVars, cacheVars, ownerVars, OwnersTypeOK,
           LanesTypeOK, CachesTypeOK
<1>4. LanesTypeOK'
    BY <1>0, LaneFacts
       DEF ReadPixels, Return, imageVars, cacheVars, ownerVars, LanesTypeOK,
           OwnersTypeOK, ImagesTypeOK, PC, Args
<1>5. BoundsTypeOK'
    BY <1>0, LaneFacts, LimitAssumption
       DEF ReadPixels, Return, imageVars, cacheVars, ownerVars, BoundsTypeOK
<1>6. ImageCountExact'
    BY <1>0, LaneFacts
       DEF ReadPixels, Return, imageVars, cacheVars, ownerVars, ImageCountExact,
           Holders, Viewers, Modifiers, LanesTypeOK
<1>7. CacheCountExact'
    BY <1>0, LaneFacts
       DEF ReadPixels, Return, imageVars, cacheVars, ownerVars, CacheCountExact,
           Users, Droppers, LanesTypeOK
<1>8. DeadInv'
    BY <1>0, LaneFacts
       DEF ReadPixels, Return, imageVars, cacheVars, ownerVars, DeadInv,
           ImagesTypeOK, CachesTypeOK, OwnersTypeOK, LanesTypeOK
<1>9. LocksInv'
    BY <1>0, LaneFacts
       DEF ReadPixels, Return, imageVars, cacheVars, ownerVars, LocksInv,
           LanesTypeOK, ImagesTypeOK, CachesTypeOK, Locked
<1>10. ViewsInv'
    BY <1>0, LaneFacts
       DEF ReadPixels, Return, imageVars, cacheVars, ownerVars, ViewsInv,
           OwnersTypeOK
<1>11. ExclInv'
    BY <1>0, LaneFacts
       DEF ReadPixels, Return, imageVars, cacheVars, ownerVars, ExclInv,
           OwnersTypeOK
<1>12. ContentInv'
    BY <1>0, LaneFacts
       DEF ReadPixels, Return, imageVars, cacheVars, ownerVars, ContentInv,
           OwnersTypeOK, ImagesTypeOK, CachesTypeOK, DeadInv
<1>13. TeamInv'
    BY <1>0, LaneFacts
       DEF ReadPixels, Return, imageVars, cacheVars, ownerVars, TeamInv,
           LanesTypeOK, OwnersTypeOK, Writing, Locked, OwnCalls
<1>14. LocalsInv'
    BY <1>0, LaneFacts
       DEF ReadPixels, Return, imageVars, cacheVars, ownerVars, LocalsInv,
           LanesTypeOK, OwnersTypeOK, ImagesTypeOK, Writing, Locked, TeamInv,
           OwnCalls
<1>15. CloneInv'
    BY <1>0, LaneFacts
       DEF ReadPixels, Return, imageVars, cacheVars, ownerVars, CloneInv,
           LanesTypeOK, CloneTo
<1>16. ModifyInv'
    BY <1>0, LaneFacts
       DEF ReadPixels, Return, imageVars, cacheVars, ownerVars, ModifyInv,
           LanesTypeOK, ImagesTypeOK, OwnersTypeOK
<1>17. KillInv'
    BY <1>0, LaneFacts
       DEF ReadPixels, Return, imageVars, cacheVars, ownerVars, KillInv,
           LanesTypeOK, ImagesTypeOK
<1>18. FreeInv'
    BY <1>0, LaneFacts
       DEF ReadPixels, Return, imageVars, cacheVars, ownerVars, FreeInv,
           LanesTypeOK, CachesTypeOK
<1>19. HoldInv'
    BY <1>0, LaneFacts
       DEF ReadPixels, Return, imageVars, cacheVars, ownerVars, HoldInv,
           LanesTypeOK, ImagesTypeOK, CachesTypeOK, Locked, Shared
<1>20. OwnedInv'
    BY <1>0, LaneFacts
       DEF ReadPixels, Return, imageVars, cacheVars, ownerVars, OwnedInv,
           LanesTypeOK, ImagesTypeOK, CachesTypeOK
<1> QED
    BY <1>1, <1>2, <1>3, <1>4, <1>5, <1>6, <1>7, <1>8, <1>9, <1>10, <1>11, <1>12,
       <1>13, <1>14, <1>15, <1>16, <1>17, <1>18, <1>19, <1>20
       DEF IInv, TypeOK

LEMMA GetVirtualPixelsInv ==
    ASSUME IInv, NEW l \in Lane, GetVirtualPixels(l)
    PROVE  IInv'
<1>0. /\ ImagesTypeOK /\ CachesTypeOK /\ OwnersTypeOK /\ LanesTypeOK /\ BoundsTypeOK
      /\ ImageCountExact /\ CacheCountExact /\ DeadInv /\ LocksInv /\ ViewsInv
      /\ ExclInv /\ ContentInv /\ TeamInv /\ LocalsInv /\ CloneInv
      /\ ModifyInv /\ KillInv /\ FreeInv /\ HoldInv /\ OwnedInv
    BY DEF IInv, TypeOK
<1>1. ImagesTypeOK'
    BY <1>0, LaneFacts
       DEF GetVirtualPixels, MayCall, Quiet, Call, imageVars, cacheVars,
           ownerVars, ImagesTypeOK, OwnersTypeOK, LanesTypeOK, CachesTypeOK
<1>2. CachesTypeOK'
    BY <1>0, LaneFacts
       DEF GetVirtualPixels, MayCall, Quiet, Call, imageVars, cacheVars,
           ownerVars, CachesTypeOK, OwnersTypeOK, LanesTypeOK, ImagesTypeOK
<1>3. OwnersTypeOK'
    BY <1>0, LaneFacts
       DEF GetVirtualPixels, MayCall, Quiet, Call, imageVars, cacheVars,
           ownerVars, OwnersTypeOK, LanesTypeOK, CachesTypeOK
<1>4. LanesTypeOK'
    BY <1>0, LaneFacts
       DEF GetVirtualPixels, MayCall, Quiet, Call, imageVars, cacheVars,
           ownerVars, LanesTypeOK, OwnersTypeOK, ImagesTypeOK, PC, Args
<1>5. BoundsTypeOK'
    BY <1>0, LaneFacts, LimitAssumption
       DEF GetVirtualPixels, MayCall, Quiet, Call, imageVars, cacheVars,
           ownerVars, BoundsTypeOK
<1>6. ImageCountExact'
    BY <1>0, LaneFacts
       DEF GetVirtualPixels, MayCall, Quiet, Call, imageVars, cacheVars,
           ownerVars, ImageCountExact, Holders, Viewers, Modifiers, LanesTypeOK
<1>7. CacheCountExact'
    BY <1>0, LaneFacts
       DEF GetVirtualPixels, MayCall, Quiet, Call, imageVars, cacheVars,
           ownerVars, CacheCountExact, Users, Droppers, LanesTypeOK
<1>8. DeadInv'
    BY <1>0, LaneFacts
       DEF GetVirtualPixels, MayCall, Quiet, Call, imageVars, cacheVars,
           ownerVars, DeadInv, ImagesTypeOK, CachesTypeOK, OwnersTypeOK,
           LanesTypeOK
<1>9. LocksInv'
    BY <1>0, LaneFacts
       DEF GetVirtualPixels, MayCall, Quiet, Call, imageVars, cacheVars,
           ownerVars, LocksInv, LanesTypeOK, ImagesTypeOK, CachesTypeOK, Locked
<1>10. ViewsInv'
    BY <1>0, LaneFacts
       DEF GetVirtualPixels, MayCall, Quiet, Call, imageVars, cacheVars,
           ownerVars, ViewsInv, OwnersTypeOK
<1>11. ExclInv'
    BY <1>0, LaneFacts
       DEF GetVirtualPixels, MayCall, Quiet, Call, imageVars, cacheVars,
           ownerVars, ExclInv, OwnersTypeOK
<1>12. ContentInv'
    BY <1>0, LaneFacts
       DEF GetVirtualPixels, MayCall, Quiet, Call, imageVars, cacheVars,
           ownerVars, ContentInv, OwnersTypeOK, ImagesTypeOK, CachesTypeOK,
           DeadInv
<1>13. TeamInv'
    BY <1>0, LaneFacts
       DEF GetVirtualPixels, MayCall, Quiet, Call, imageVars, cacheVars,
           ownerVars, TeamInv, LanesTypeOK, OwnersTypeOK, Writing, Locked,
           OwnCalls
<1>14. LocalsInv'
    BY <1>0, LaneFacts
       DEF GetVirtualPixels, MayCall, Quiet, Call, imageVars, cacheVars,
           ownerVars, LocalsInv, LanesTypeOK, OwnersTypeOK, ImagesTypeOK, Writing,
           Locked, TeamInv, OwnCalls
<1>15. CloneInv'
    BY <1>0, LaneFacts
       DEF GetVirtualPixels, MayCall, Quiet, Call, imageVars, cacheVars,
           ownerVars, CloneInv, LanesTypeOK, CloneTo
<1>16. ModifyInv'
    BY <1>0, LaneFacts
       DEF GetVirtualPixels, MayCall, Quiet, Call, imageVars, cacheVars,
           ownerVars, ModifyInv, LanesTypeOK, ImagesTypeOK, OwnersTypeOK
<1>17. KillInv'
    BY <1>0, LaneFacts
       DEF GetVirtualPixels, MayCall, Quiet, Call, imageVars, cacheVars,
           ownerVars, KillInv, LanesTypeOK, ImagesTypeOK
<1>18. FreeInv'
    BY <1>0, LaneFacts
       DEF GetVirtualPixels, MayCall, Quiet, Call, imageVars, cacheVars,
           ownerVars, FreeInv, LanesTypeOK, CachesTypeOK
<1>19. HoldInv'
    BY <1>0, LaneFacts
       DEF GetVirtualPixels, MayCall, Quiet, Call, imageVars, cacheVars,
           ownerVars, HoldInv, LanesTypeOK, ImagesTypeOK, CachesTypeOK, Locked,
           Shared
<1>20. OwnedInv'
    BY <1>0, LaneFacts
       DEF GetVirtualPixels, MayCall, Quiet, Call, imageVars, cacheVars,
           ownerVars, OwnedInv, LanesTypeOK, ImagesTypeOK, CachesTypeOK
<1> QED
    BY <1>1, <1>2, <1>3, <1>4, <1>5, <1>6, <1>7, <1>8, <1>9, <1>10, <1>11, <1>12,
       <1>13, <1>14, <1>15, <1>16, <1>17, <1>18, <1>19, <1>20
       DEF IInv, TypeOK

LEMMA ReturnCacheInv ==
    ASSUME IInv, NEW l \in Lane, ReturnCache(l)
    PROVE  IInv'
<1>0. /\ ImagesTypeOK /\ CachesTypeOK /\ OwnersTypeOK /\ LanesTypeOK /\ BoundsTypeOK
      /\ ImageCountExact /\ CacheCountExact /\ DeadInv /\ LocksInv /\ ViewsInv
      /\ ExclInv /\ ContentInv /\ TeamInv /\ LocalsInv /\ CloneInv
      /\ ModifyInv /\ KillInv /\ FreeInv /\ HoldInv /\ OwnedInv
    BY DEF IInv, TypeOK
<1>A. pc[l] = "return"
    BY DEF ReturnCache
<1>a. /\ limg[l] \in Images /\ ref[limg[l]] > 0 /\ limg[l] \in ilive
      /\ icache[limg[l]] \in clive /\ icache[limg[l]] \in Caches
      /\ crc[icache[limg[l]]] > 0 /\ limg[l] = handle[Owner(l)]
      /\ handle[Owner(l)] # NoImage
    BY <1>A, CallFacts DEF Writing, Locked
<1>1. ImagesTypeOK'
    BY <1>0, <1>a, LaneFacts
       DEF ReturnCache, imageVars, cacheVars, ownerVars, ImagesTypeOK,
           OwnersTypeOK, LanesTypeOK, CachesTypeOK
<1>2. CachesTypeOK'
    BY <1>0, <1>a, LaneFacts
       DEF ReturnCache, imageVars, cacheVars, ownerVars, CachesTypeOK,
           OwnersTypeOK, LanesTypeOK, ImagesTypeOK
<1>3. OwnersTypeOK'
    BY <1>0, <1>a, LaneFacts
       DEF ReturnCache, imageVars, cacheVars, ownerVars, OwnersTypeOK,
           LanesTypeOK, CachesTypeOK
<1>4. LanesTypeOK'
    BY <1>0, <1>a, LaneFacts
       DEF ReturnCache, imageVars, cacheVars, ownerVars, LanesTypeOK,
           OwnersTypeOK, ImagesTypeOK, PC, Args
<1>5. BoundsTypeOK'
    BY <1>0, <1>a, LaneFacts, LimitAssumption
       DEF ReturnCache, imageVars, cacheVars, ownerVars, BoundsTypeOK
<1>6. ImageCountExact'
    BY <1>0, <1>a, LaneFacts
       DEF ReturnCache, imageVars, cacheVars, ownerVars, ImageCountExact, Holders,
           Viewers, Modifiers, LanesTypeOK
<1>7. CacheCountExact'
    BY <1>0, <1>a, LaneFacts
       DEF ReturnCache, imageVars, cacheVars, ownerVars, CacheCountExact, Users,
           Droppers, LanesTypeOK
<1>8. DeadInv'
    BY <1>0, <1>a, LaneFacts
       DEF ReturnCache, imageVars, cacheVars, ownerVars, DeadInv, ImagesTypeOK,
           CachesTypeOK, OwnersTypeOK, LanesTypeOK
<1>9. LocksInv'
    BY <1>0, <1>a, LaneFacts
       DEF ReturnCache, imageVars, cacheVars, ownerVars, LocksInv, LanesTypeOK,
           ImagesTypeOK, CachesTypeOK, Locked
<1>10. ViewsInv'
    BY <1>0, <1>a, LaneFacts
       DEF ReturnCache, imageVars, cacheVars, ownerVars, ViewsInv, OwnersTypeOK
<1>11. ExclInv'
    BY <1>0, <1>a, LaneFacts
       DEF ReturnCache, imageVars, cacheVars, ownerVars, ExclInv, OwnersTypeOK
<1>12. ContentInv'
    BY <1>0, <1>a, LaneFacts
       DEF ReturnCache, imageVars, cacheVars, ownerVars, ContentInv, OwnersTypeOK,
           ImagesTypeOK, CachesTypeOK, DeadInv
<1>13. TeamInv'
    BY <1>0, <1>a, LaneFacts
       DEF ReturnCache, imageVars, cacheVars, ownerVars, TeamInv, LanesTypeOK,
           OwnersTypeOK, Writing, Locked, OwnCalls
<1>14. LocalsInv'
    BY <1>0, <1>a, LaneFacts
       DEF ReturnCache, imageVars, cacheVars, ownerVars, LocalsInv, LanesTypeOK,
           OwnersTypeOK, ImagesTypeOK, Writing, Locked, TeamInv, OwnCalls
<1>15. CloneInv'
    BY <1>0, <1>a, LaneFacts
       DEF ReturnCache, imageVars, cacheVars, ownerVars, CloneInv, LanesTypeOK,
           CloneTo
<1>16. ModifyInv'
    BY <1>0, <1>a, LaneFacts
       DEF ReturnCache, imageVars, cacheVars, ownerVars, ModifyInv, LanesTypeOK,
           ImagesTypeOK, OwnersTypeOK
<1>17. KillInv'
    BY <1>0, <1>a, LaneFacts
       DEF ReturnCache, imageVars, cacheVars, ownerVars, KillInv, LanesTypeOK,
           ImagesTypeOK
<1>18. FreeInv'
    BY <1>0, <1>a, LaneFacts
       DEF ReturnCache, imageVars, cacheVars, ownerVars, FreeInv, LanesTypeOK,
           CachesTypeOK
<1>19. HoldInv'
    BY <1>0, <1>a, LaneFacts
       DEF ReturnCache, imageVars, cacheVars, ownerVars, HoldInv, LanesTypeOK,
           ImagesTypeOK, CachesTypeOK, Locked, Shared
<1>20. OwnedInv'
    BY <1>0, <1>a, LaneFacts
       DEF ReturnCache, imageVars, cacheVars, ownerVars, OwnedInv, LanesTypeOK,
           ImagesTypeOK, CachesTypeOK
<1> QED
    BY <1>1, <1>2, <1>3, <1>4, <1>5, <1>6, <1>7, <1>8, <1>9, <1>10, <1>11, <1>12,
       <1>13, <1>14, <1>15, <1>16, <1>17, <1>18, <1>19, <1>20
       DEF IInv, TypeOK

LEMMA WritePixelsInv ==
    ASSUME IInv, NEW l \in Lane, WritePixels(l)
    PROVE  IInv'
<1>0. /\ ImagesTypeOK /\ CachesTypeOK /\ OwnersTypeOK /\ LanesTypeOK /\ BoundsTypeOK
      /\ ImageCountExact /\ CacheCountExact /\ DeadInv /\ LocksInv /\ ViewsInv
      /\ ExclInv /\ ContentInv /\ TeamInv /\ LocalsInv /\ CloneInv
      /\ ModifyInv /\ KillInv /\ FreeInv /\ HoldInv /\ OwnedInv
    BY DEF IInv, TypeOK
<1>A. pc[l] = "pixels"
    BY DEF WritePixels
<1>a. /\ limg[l] \in Images /\ ref[limg[l]] > 0 /\ limg[l] \in ilive
      /\ icache[limg[l]] \in clive /\ icache[limg[l]] \in Caches
      /\ crc[icache[limg[l]]] > 0 /\ limg[l] = handle[Owner(l)]
      /\ handle[Owner(l)] # NoImage
      /\ lcache[l] = icache[limg[l]]
    BY <1>A, CallFacts DEF Writing, Locked
<1>b. /\ \A j \in ilive : icache[j] = icache[limg[l]] => j = limg[l]
      /\ \A o \in Owners : handle[o] = limg[l] => o = Owner(l)
    BY <1>A, Alone
<1>c. larg[l].kind # "sync" => larg[l].val \in Pixels
    BY <1>A, <1>0 DEF LocalsInv, Writing, Locked, Writes, Sync, Pixels
<1>1. ImagesTypeOK'
    BY <1>0, <1>a, <1>b, <1>c, LaneFacts
       DEF WritePixels, Return, imageVars, ownerVars, ImagesTypeOK, OwnersTypeOK,
           LanesTypeOK, CachesTypeOK
<1>2. CachesTypeOK'
    BY <1>0, <1>a, <1>b, <1>c, LaneFacts
       DEF WritePixels, Return, imageVars, ownerVars, CachesTypeOK, OwnersTypeOK,
           LanesTypeOK, ImagesTypeOK
<1>3. OwnersTypeOK'
    BY <1>0, <1>a, <1>b, <1>c, LaneFacts
       DEF WritePixels, Return, imageVars, ownerVars, OwnersTypeOK, LanesTypeOK,
           CachesTypeOK
<1>4. LanesTypeOK'
    BY <1>0, <1>a, <1>b, <1>c, LaneFacts
       DEF WritePixels, Return, imageVars, ownerVars, LanesTypeOK, OwnersTypeOK,
           ImagesTypeOK, PC, Args
<1>5. BoundsTypeOK'
    BY <1>0, <1>a, <1>b, <1>c, LaneFacts, LimitAssumption
       DEF WritePixels, Return, imageVars, ownerVars, BoundsTypeOK
<1>6. ImageCountExact'
    BY <1>0, <1>a, <1>b, <1>c, LaneFacts
       DEF WritePixels, Return, imageVars, ownerVars, ImageCountExact, Holders,
           Viewers, Modifiers, LanesTypeOK
<1>7. CacheCountExact'
    BY <1>0, <1>a, <1>b, <1>c, LaneFacts
       DEF WritePixels, Return, imageVars, ownerVars, CacheCountExact, Users,
           Droppers, LanesTypeOK
<1>8. DeadInv'
    BY <1>0, <1>a, <1>b, <1>c, LaneFacts
       DEF WritePixels, Return, imageVars, ownerVars, DeadInv, ImagesTypeOK,
           CachesTypeOK, OwnersTypeOK, LanesTypeOK
<1>9. LocksInv'
    BY <1>0, <1>a, <1>b, <1>c, LaneFacts
       DEF WritePixels, Return, imageVars, ownerVars, LocksInv, LanesTypeOK,
           ImagesTypeOK, CachesTypeOK, Locked
<1>10. ViewsInv'
    BY <1>0, <1>a, <1>b, <1>c, LaneFacts
       DEF WritePixels, Return, imageVars, ownerVars, ViewsInv, OwnersTypeOK
<1>11. ExclInv'
    BY <1>0, <1>a, <1>b, <1>c, LaneFacts
       DEF WritePixels, Return, imageVars, ownerVars, ExclInv, OwnersTypeOK
<1>12. ContentInv'
  <2> SUFFICES ASSUME NEW o \in Owners, handle'[o] # NoImage
               PROVE  content'[o] = cval'[icache'[handle'[o]]]
      BY DEF ContentInv
  <2>1. /\ handle[o] # NoImage /\ handle[o] \in Images /\ content[o] = cval[icache[handle[o]]]
        /\ handle[o] \in ilive /\ icache[handle[o]] \in Caches
      BY <1>0, InUse DEF WritePixels, ownerVars, ContentInv
  <2>2. icache' = icache /\ handle' = handle
      BY DEF WritePixels, imageVars, ownerVars
  <2>3. CASE o = Owner(l)
      BY <1>0, <1>a, <1>c, <2>1, <2>2, <2>3, LaneFacts DEF WritePixels, CachesTypeOK, OwnersTypeOK
  <2>4. CASE o # Owner(l)
    <3>1. icache[handle[o]] # icache[limg[l]]
        BY <1>b, <2>1, <2>4
    <3> QED
        BY <1>0, <1>a, <2>1, <2>2, <2>4, <3>1, LaneFacts DEF WritePixels, CachesTypeOK, OwnersTypeOK
  <2> QED
      BY <2>3, <2>4
<1>13. TeamInv'
    BY <1>0, <1>a, <1>b, <1>c, LaneFacts
       DEF WritePixels, Return, imageVars, ownerVars, TeamInv, LanesTypeOK,
           OwnersTypeOK, Writing, Locked, OwnCalls
<1>14. LocalsInv'
    BY <1>0, <1>a, <1>b, <1>c, LaneFacts
       DEF WritePixels, Return, imageVars, ownerVars, LocalsInv, LanesTypeOK,
           OwnersTypeOK, ImagesTypeOK, Writing, Locked, TeamInv, OwnCalls
<1>15. CloneInv'
    BY <1>0, <1>a, <1>b, <1>c, LaneFacts
       DEF WritePixels, Return, imageVars, ownerVars, CloneInv, LanesTypeOK,
           CloneTo
<1>16. ModifyInv'
    BY <1>0, <1>a, <1>b, <1>c, LaneFacts
       DEF WritePixels, Return, imageVars, ownerVars, ModifyInv, LanesTypeOK,
           ImagesTypeOK, OwnersTypeOK
<1>17. KillInv'
    BY <1>0, <1>a, <1>b, <1>c, LaneFacts
       DEF WritePixels, Return, imageVars, ownerVars, KillInv, LanesTypeOK,
           ImagesTypeOK
<1>18. FreeInv'
    BY <1>0, <1>a, <1>b, <1>c, LaneFacts
       DEF WritePixels, Return, imageVars, ownerVars, FreeInv, LanesTypeOK,
           CachesTypeOK
<1>19. HoldInv'
    BY <1>0, <1>a, <1>b, <1>c, LaneFacts
       DEF WritePixels, Return, imageVars, ownerVars, HoldInv, LanesTypeOK,
           ImagesTypeOK, CachesTypeOK, Locked, Shared
<1>20. OwnedInv'
    BY <1>0, <1>a, <1>b, <1>c, LaneFacts
       DEF WritePixels, Return, imageVars, ownerVars, OwnedInv, LanesTypeOK,
           ImagesTypeOK, CachesTypeOK
<1> QED
    BY <1>1, <1>2, <1>3, <1>4, <1>5, <1>6, <1>7, <1>8, <1>9, <1>10, <1>11, <1>12,
       <1>13, <1>14, <1>15, <1>16, <1>17, <1>18, <1>19, <1>20
       DEF IInv, TypeOK

LEMMA RecheckInv ==
    ASSUME IInv, NEW l \in Lane, Recheck(l)
    PROVE  IInv'
<1>0. /\ ImagesTypeOK /\ CachesTypeOK /\ OwnersTypeOK /\ LanesTypeOK /\ BoundsTypeOK
      /\ ImageCountExact /\ CacheCountExact /\ DeadInv /\ LocksInv /\ ViewsInv
      /\ ExclInv /\ ContentInv /\ TeamInv /\ LocalsInv /\ CloneInv
      /\ ModifyInv /\ KillInv /\ FreeInv /\ HoldInv /\ OwnedInv
    BY DEF IInv, TypeOK
<1>A. pc[l] = "recheck"
    BY DEF Recheck
<1>a. /\ limg[l] \in Images /\ ref[limg[l]] > 0 /\ limg[l] \in ilive
      /\ icache[limg[l]] \in clive /\ icache[limg[l]] \in Caches
      /\ crc[icache[limg[l]]] > 0 /\ limg[l] = handle[Owner(l)]
      /\ handle[Owner(l)] # NoImage
      /\ lcache[l] = icache[limg[l]]
    BY <1>A, CallFacts DEF Writing, Locked
<1>1. ImagesTypeOK'
    BY <1>0, <1>a, LaneFacts
       DEF Recheck, imageVars, ownerVars, ImagesTypeOK, OwnersTypeOK, LanesTypeOK,
           CachesTypeOK
<1>2. CachesTypeOK'
    BY <1>0, <1>a, LaneFacts
       DEF Recheck, imageVars, ownerVars, CachesTypeOK, OwnersTypeOK, LanesTypeOK,
           ImagesTypeOK
<1>3. OwnersTypeOK'
    BY <1>0, <1>a, LaneFacts
       DEF Recheck, imageVars, ownerVars, OwnersTypeOK, LanesTypeOK, CachesTypeOK
<1>4. LanesTypeOK'
    BY <1>0, <1>a, LaneFacts
       DEF Recheck, imageVars, ownerVars, LanesTypeOK, OwnersTypeOK, ImagesTypeOK,
           PC, Args
<1>5. BoundsTypeOK'
    BY <1>0, <1>a, LaneFacts, LimitAssumption
       DEF Recheck, imageVars, ownerVars, BoundsTypeOK
<1>6. ImageCountExact'
    BY <1>0, <1>a, LaneFacts
       DEF Recheck, imageVars, ownerVars, ImageCountExact, Holders, Viewers,
           Modifiers, LanesTypeOK
<1>7. CacheCountExact'
    BY <1>0, <1>a, LaneFacts
       DEF Recheck, imageVars, ownerVars, CacheCountExact, Users, Droppers,
           LanesTypeOK
<1>8. DeadInv'
    BY <1>0, <1>a, LaneFacts
       DEF Recheck, imageVars, ownerVars, DeadInv, ImagesTypeOK, CachesTypeOK,
           OwnersTypeOK, LanesTypeOK
<1>9. LocksInv'
    BY <1>0, <1>a, LaneFacts
       DEF Recheck, imageVars, ownerVars, LocksInv, LanesTypeOK, ImagesTypeOK,
           CachesTypeOK, Locked
<1>10. ViewsInv'
    BY <1>0, <1>a, LaneFacts
       DEF Recheck, imageVars, ownerVars, ViewsInv, OwnersTypeOK
<1>11. ExclInv'
    BY <1>0, <1>a, LaneFacts
       DEF Recheck, imageVars, ownerVars, ExclInv, OwnersTypeOK
<1>12. ContentInv'
    BY <1>0, <1>a, LaneFacts
       DEF Recheck, imageVars, ownerVars, ContentInv, OwnersTypeOK, ImagesTypeOK,
           CachesTypeOK, DeadInv
<1>13. TeamInv'
    BY <1>0, <1>a, LaneFacts
       DEF Recheck, imageVars, ownerVars, TeamInv, LanesTypeOK, OwnersTypeOK,
           Writing, Locked, OwnCalls
<1>14. LocalsInv'
    BY <1>0, <1>a, LaneFacts
       DEF Recheck, imageVars, ownerVars, LocalsInv, LanesTypeOK, OwnersTypeOK,
           ImagesTypeOK, Writing, Locked, TeamInv, OwnCalls
<1>15. CloneInv'
    BY <1>0, <1>a, LaneFacts
       DEF Recheck, imageVars, ownerVars, CloneInv, LanesTypeOK, CloneTo
<1>16. ModifyInv'
    BY <1>0, <1>a, LaneFacts
       DEF Recheck, imageVars, ownerVars, ModifyInv, LanesTypeOK, ImagesTypeOK,
           OwnersTypeOK
<1>17. KillInv'
    BY <1>0, <1>a, LaneFacts
       DEF Recheck, imageVars, ownerVars, KillInv, LanesTypeOK, ImagesTypeOK
<1>18. FreeInv'
    BY <1>0, <1>a, LaneFacts
       DEF Recheck, imageVars, ownerVars, FreeInv, LanesTypeOK, CachesTypeOK
<1>19. HoldInv'
    BY <1>0, <1>a, LaneFacts, Named
       DEF Recheck, imageVars, ownerVars, HoldInv, LanesTypeOK, ImagesTypeOK,
           CachesTypeOK, Locked, Shared, Writing
<1>20. OwnedInv'
    BY <1>0, <1>a, LaneFacts
       DEF Recheck, imageVars, ownerVars, OwnedInv, LanesTypeOK, ImagesTypeOK,
           CachesTypeOK, Shared
<1> QED
    BY <1>1, <1>2, <1>3, <1>4, <1>5, <1>6, <1>7, <1>8, <1>9, <1>10, <1>11, <1>12,
       <1>13, <1>14, <1>15, <1>16, <1>17, <1>18, <1>19, <1>20
       DEF IInv, TypeOK

LEMMA AcquireImageInv ==
    ASSUME IInv, NEW o \in Owners, AcquireImage(o)
    PROVE  IInv'
<1>0. /\ ImagesTypeOK /\ CachesTypeOK /\ OwnersTypeOK /\ LanesTypeOK /\ BoundsTypeOK
      /\ ImageCountExact /\ CacheCountExact /\ DeadInv /\ LocksInv /\ ViewsInv
      /\ ExclInv /\ ContentInv /\ TeamInv /\ LocalsInv /\ CloneInv
      /\ ModifyInv /\ KillInv /\ FreeInv /\ HoldInv /\ OwnedInv
    BY DEF IInv, TypeOK
<1>a. /\ FreshImage \in Images /\ FreshImage \notin ilive /\ ref[FreshImage] = 0
      /\ \A q \in Owners : handle[q] # FreshImage /\ view[q] # FreshImage
      /\ \A m \in Lane :
           /\ pc[m] \in Writing \union {"clone_ref", "mod_clone", "mod_dec", "reading",
                         "kill", "kill_cache", "kill_image"} => limg[m] # FreshImage
           /\ pc[m] = "mod_dec" => lnew[m] # FreshImage
      /\ ilock[FreshImage] = NoLane /\ FreshImage # NoImage
    BY FreshImageFacts DEF AcquireImage
<1>b. /\ FreshCache \in Caches /\ FreshCache \notin clive /\ crc[FreshCache] = 0
      /\ \A i \in ilive : icache[i] # FreshCache
      /\ \A m \in Lane :
           pc[m] \in {"kill_cache", "drop_free", "drop", "pixels", "clone_ref", "mod_clone",
                      "mod_dec", "recheck", "copy", "reading"} => lcache[m] # FreshCache
      /\ clock[FreshCache] = NoLane /\ FreshCache # NoCache
    BY FreshCacheFacts DEF AcquireImage
<1>1. ImagesTypeOK'
    BY <1>0, <1>a, <1>b, LaneFacts
       DEF AcquireImage, NewImage, NewCache, Give, Call, Quiet, laneVars,
           ImagesTypeOK, OwnersTypeOK, LanesTypeOK, CachesTypeOK
<1>2. CachesTypeOK'
    BY <1>0, <1>a, <1>b, LaneFacts
       DEF AcquireImage, NewImage, NewCache, Give, Call, Quiet, laneVars,
           CachesTypeOK, OwnersTypeOK, LanesTypeOK, ImagesTypeOK, Pixels
<1>3. OwnersTypeOK'
    BY <1>0, <1>a, <1>b, LaneFacts
       DEF AcquireImage, NewImage, NewCache, Give, Call, Quiet, laneVars,
           OwnersTypeOK, LanesTypeOK, CachesTypeOK, Pixels
<1>4. LanesTypeOK'
    BY <1>0, <1>a, <1>b, LaneFacts
       DEF AcquireImage, NewImage, NewCache, Give, Call, Quiet, laneVars,
           LanesTypeOK, OwnersTypeOK, ImagesTypeOK, PC, Args
<1>5. BoundsTypeOK'
    BY <1>0, <1>a, <1>b, LaneFacts, LimitAssumption
       DEF AcquireImage, NewImage, NewCache, Give, Call, Quiet, laneVars,
           BoundsTypeOK
<1>6. ImageCountExact'
  <2> SUFFICES ASSUME NEW i \in Images
               PROVE  ref'[i] = Cardinality(Holders(i)') + Cardinality(Viewers(i)') + Cardinality(Modifiers(i)')
      BY DEF ImageCountExact
  <2>0. /\ ref[i] = Cardinality(Holders(i)) + Cardinality(Viewers(i)) + Cardinality(Modifiers(i))
        /\ Cardinality(Holders(i)) \in Nat /\ IsFiniteSet(Holders(i))
        /\ Cardinality(Viewers(i)) \in Nat /\ IsFiniteSet(Viewers(i))
        /\ Cardinality(Modifiers(i)) \in Nat /\ IsFiniteSet(Modifiers(i))
      BY <1>0, FiniteSets DEF ImageCountExact, ImagesTypeOK
  <2>1. CASE i = FreshImage
    <3>1. Holders(i)' = Holders(i) \union {o} /\ o \notin Holders(i)
        BY <1>0, <1>a, <2>1, LaneFacts
           DEF AcquireImage, NewImage, NewCache, Give, Call, Quiet, laneVars, Holders, ImagesTypeOK, CachesTypeOK, LanesTypeOK, OwnersTypeOK
    <3>2. Viewers(i)' = Viewers(i)
        BY <1>0, <1>a, <2>1, LaneFacts
           DEF AcquireImage, NewImage, NewCache, Give, Call, Quiet, laneVars, Viewers, ImagesTypeOK, CachesTypeOK, LanesTypeOK, OwnersTypeOK
    <3>3. Modifiers(i)' = Modifiers(i)
        BY <1>0, <1>a, <2>1, LaneFacts
           DEF AcquireImage, NewImage, NewCache, Give, Call, Quiet, laneVars, Modifiers, ImagesTypeOK, CachesTypeOK, LanesTypeOK, OwnersTypeOK
    <3>4. Cardinality(Holders(i)') = Cardinality(Holders(i)) + 1
        BY <2>0, <3>1, AddOne
    <3>5. ref'[i] = ref[i] + 1
        BY <1>0, <1>a, <2>1 DEF AcquireImage, NewImage, NewCache, Give, Call, Quiet, laneVars, ImagesTypeOK
    <3> QED
        BY <2>0, <3>1, <3>2, <3>3, <3>4, <3>5, <1>0 DEF ImagesTypeOK
  <2>2. CASE i # FreshImage
    <3>1. Holders(i)' = Holders(i)
        BY <1>0, <1>a, <2>2, LaneFacts
           DEF AcquireImage, NewImage, NewCache, Give, Call, Quiet, laneVars, Holders, ImagesTypeOK, CachesTypeOK, LanesTypeOK, OwnersTypeOK
    <3>2. Viewers(i)' = Viewers(i)
        BY <1>0, <1>a, <2>2, LaneFacts
           DEF AcquireImage, NewImage, NewCache, Give, Call, Quiet, laneVars, Viewers, ImagesTypeOK, CachesTypeOK, LanesTypeOK, OwnersTypeOK
    <3>3. Modifiers(i)' = Modifiers(i)
        BY <1>0, <1>a, <2>2, LaneFacts
           DEF AcquireImage, NewImage, NewCache, Give, Call, Quiet, laneVars, Modifiers, ImagesTypeOK, CachesTypeOK, LanesTypeOK, OwnersTypeOK
    <3>4. ref'[i] = ref[i]
        BY <1>0, <1>a, <2>2 DEF AcquireImage, NewImage, NewCache, Give, Call, Quiet, laneVars, ImagesTypeOK
    <3> QED
        BY <2>0, <3>1, <3>2, <3>3, <3>4, <1>0 DEF ImagesTypeOK
  <2> QED
      BY <2>1, <2>2
<1>7. CacheCountExact'
  <2> SUFFICES ASSUME NEW c \in Caches
               PROVE  crc'[c] = Cardinality(Users(c)') + Cardinality(Droppers(c)')
      BY DEF CacheCountExact
  <2>0. /\ crc[c] = Cardinality(Users(c)) + Cardinality(Droppers(c))
        /\ Cardinality(Users(c)) \in Nat /\ IsFiniteSet(Users(c))
        /\ Cardinality(Droppers(c)) \in Nat /\ IsFiniteSet(Droppers(c))
      BY <1>0, FiniteSets DEF CacheCountExact, ImagesTypeOK
  <2>1. CASE c = FreshCache
    <3>1. Users(c)' = Users(c) \union {FreshImage} /\ FreshImage \notin Users(c)
        BY <1>0, <1>a, <1>b, <2>1, LaneFacts
           DEF AcquireImage, NewImage, NewCache, Give, Call, Quiet, laneVars, Users, ImagesTypeOK, CachesTypeOK, LanesTypeOK, OwnersTypeOK
    <3>2. Droppers(c)' = Droppers(c)
        BY <1>0, <1>a, <1>b, <2>1, LaneFacts
           DEF AcquireImage, NewImage, NewCache, Give, Call, Quiet, laneVars, Droppers, ImagesTypeOK, CachesTypeOK, LanesTypeOK, OwnersTypeOK
    <3>3. Cardinality(Users(c)') = Cardinality(Users(c)) + 1
        BY <2>0, <3>1, AddOne
    <3>4. crc'[c] = crc[c] + 1
        BY <1>0, <1>a, <1>b, <2>1 DEF AcquireImage, NewImage, NewCache, Give, Call, Quiet, laneVars, CachesTypeOK
    <3> QED
        BY <2>0, <3>1, <3>2, <3>3, <3>4, <1>0 DEF CachesTypeOK
  <2>2. CASE c # FreshCache
    <3>1. Users(c)' = Users(c)
        BY <1>0, <1>a, <1>b, <2>2, LaneFacts
           DEF AcquireImage, NewImage, NewCache, Give, Call, Quiet, laneVars, Users, ImagesTypeOK, CachesTypeOK, LanesTypeOK, OwnersTypeOK
    <3>2. Droppers(c)' = Droppers(c)
        BY <1>0, <1>a, <1>b, <2>2, LaneFacts
           DEF AcquireImage, NewImage, NewCache, Give, Call, Quiet, laneVars, Droppers, ImagesTypeOK, CachesTypeOK, LanesTypeOK, OwnersTypeOK
    <3>3. crc'[c] = crc[c]
        BY <1>0, <1>a, <1>b, <2>2 DEF AcquireImage, NewImage, NewCache, Give, Call, Quiet, laneVars, CachesTypeOK
    <3> QED
        BY <2>0, <3>1, <3>2, <3>3, <1>0 DEF CachesTypeOK
  <2> QED
      BY <2>1, <2>2
<1>8. DeadInv'
    BY <1>0, <1>a, <1>b, LaneFacts
       DEF AcquireImage, NewImage, NewCache, Give, Call, Quiet, laneVars, DeadInv,
           ImagesTypeOK, CachesTypeOK, OwnersTypeOK, LanesTypeOK
<1>9. LocksInv'
    BY <1>0, <1>a, <1>b, LaneFacts
       DEF AcquireImage, NewImage, NewCache, Give, Call, Quiet, laneVars,
           LocksInv, LanesTypeOK, ImagesTypeOK, CachesTypeOK, Locked, Writing
<1>10. ViewsInv'
    BY <1>0, <1>a, <1>b, LaneFacts
       DEF AcquireImage, NewImage, NewCache, Give, Call, Quiet, laneVars,
           ViewsInv, OwnersTypeOK
<1>11. ExclInv'
    BY <1>0, <1>a, <1>b, LaneFacts
       DEF AcquireImage, NewImage, NewCache, Give, Call, Quiet, laneVars, ExclInv,
           OwnersTypeOK
<1>12. ContentInv'
  <2> SUFFICES ASSUME NEW q \in Owners, handle'[q] # NoImage
               PROVE  content'[q] = cval'[icache'[handle'[q]]]
      BY DEF ContentInv
  <2>1. CASE q = o
      BY <1>0, <1>a, <1>b, <2>1, LaneFacts
         DEF AcquireImage, NewImage, NewCache, Give, Call, Quiet, laneVars, ContentInv, ImagesTypeOK, CachesTypeOK, OwnersTypeOK, Pixels
  <2>2. CASE q # o
    <3>1. handle'[q] = handle[q] /\ content'[q] = content[q]
        BY <1>0, <1>a, <1>b, <2>2, LaneFacts DEF AcquireImage, NewImage, NewCache, Give, Call, Quiet, laneVars, OwnersTypeOK
    <3>2. /\ handle[q] \in Images /\ handle[q] \in ilive
          /\ icache[handle[q]] \in Caches /\ icache[handle[q]] \in clive
          /\ content[q] = cval[icache[handle[q]]]
        BY <1>0, <3>1, InUse DEF ContentInv
    <3>3. icache'[handle[q]] = icache[handle[q]]
        BY <1>0, <1>a, <1>b, <2>2, <3>2, LaneFacts DEF AcquireImage, NewImage, NewCache, Give, Call, Quiet, laneVars, ImagesTypeOK
    <3>4. cval'[icache[handle[q]]] = cval[icache[handle[q]]]
        BY <1>0, <1>a, <1>b, <2>2, <3>2, LaneFacts DEF AcquireImage, NewImage, NewCache, Give, Call, Quiet, laneVars, CachesTypeOK
    <3> QED
        BY <3>1, <3>2, <3>3, <3>4
  <2> QED
      BY <2>1, <2>2
<1>13. TeamInv'
    BY <1>0, <1>a, <1>b, LaneFacts
       DEF AcquireImage, NewImage, NewCache, Give, Call, Quiet, laneVars, TeamInv,
           LanesTypeOK, OwnersTypeOK, Writing, Locked, OwnCalls
<1>14. LocalsInv'
    BY <1>0, <1>a, <1>b, LaneFacts
       DEF AcquireImage, NewImage, NewCache, Give, Call, Quiet, laneVars,
           LocalsInv, LanesTypeOK, OwnersTypeOK, ImagesTypeOK, Writing, Locked,
           TeamInv, OwnCalls
<1>15. CloneInv'
    BY <1>0, <1>a, <1>b, LaneFacts
       DEF AcquireImage, NewImage, NewCache, Give, Call, Quiet, laneVars,
           CloneInv, LanesTypeOK, CloneTo
<1>16. ModifyInv'
    BY <1>0, <1>a, <1>b, LaneFacts
       DEF AcquireImage, NewImage, NewCache, Give, Call, Quiet, laneVars,
           ModifyInv, LanesTypeOK, ImagesTypeOK, OwnersTypeOK
<1>17. KillInv'
    BY <1>0, <1>a, <1>b, LaneFacts
       DEF AcquireImage, NewImage, NewCache, Give, Call, Quiet, laneVars, KillInv,
           LanesTypeOK, ImagesTypeOK, Writing
<1>18. FreeInv'
    BY <1>0, <1>a, <1>b, LaneFacts
       DEF AcquireImage, NewImage, NewCache, Give, Call, Quiet, laneVars, FreeInv,
           LanesTypeOK, CachesTypeOK
<1>19. HoldInv'
    BY <1>0, <1>a, <1>b, LaneFacts, Named
       DEF AcquireImage, NewImage, NewCache, Give, Call, Quiet, laneVars, HoldInv,
           LanesTypeOK, ImagesTypeOK, CachesTypeOK, Locked, Shared, Writing
<1>20. OwnedInv'
    BY <1>0, <1>a, <1>b, LaneFacts, Named
       DEF AcquireImage, NewImage, NewCache, Give, Call, Quiet, laneVars,
           OwnedInv, LanesTypeOK, ImagesTypeOK, CachesTypeOK, Writing, Locked
<1> QED
    BY <1>1, <1>2, <1>3, <1>4, <1>5, <1>6, <1>7, <1>8, <1>9, <1>10, <1>11, <1>12,
       <1>13, <1>14, <1>15, <1>16, <1>17, <1>18, <1>19, <1>20
       DEF IInv, TypeOK

LEMMA AttachPersistentInv ==
    ASSUME IInv, NEW o \in Owners, AttachPersistent(o)
    PROVE  IInv'
<1>0. /\ ImagesTypeOK /\ CachesTypeOK /\ OwnersTypeOK /\ LanesTypeOK /\ BoundsTypeOK
      /\ ImageCountExact /\ CacheCountExact /\ DeadInv /\ LocksInv /\ ViewsInv
      /\ ExclInv /\ ContentInv /\ TeamInv /\ LocalsInv /\ CloneInv
      /\ ModifyInv /\ KillInv /\ FreeInv /\ HoldInv /\ OwnedInv
    BY DEF IInv, TypeOK
<1>a. /\ FreshImage \in Images /\ FreshImage \notin ilive /\ ref[FreshImage] = 0
      /\ \A q \in Owners : handle[q] # FreshImage /\ view[q] # FreshImage
      /\ \A m \in Lane :
           /\ pc[m] \in Writing \union {"clone_ref", "mod_clone", "mod_dec", "reading",
                         "kill", "kill_cache", "kill_image"} => limg[m] # FreshImage
           /\ pc[m] = "mod_dec" => lnew[m] # FreshImage
      /\ ilock[FreshImage] = NoLane /\ FreshImage # NoImage
    BY FreshImageFacts DEF AttachPersistent
<1>b. /\ FreshCache \in Caches /\ FreshCache \notin clive /\ crc[FreshCache] = 0
      /\ \A i \in ilive : icache[i] # FreshCache
      /\ \A m \in Lane :
           pc[m] \in {"kill_cache", "drop_free", "drop", "pixels", "clone_ref", "mod_clone",
                      "mod_dec", "recheck", "copy", "reading"} => lcache[m] # FreshCache
      /\ clock[FreshCache] = NoLane /\ FreshCache # NoCache
    BY FreshCacheFacts DEF AttachPersistent
<1>1. ImagesTypeOK'
    BY <1>0, <1>a, <1>b, LaneFacts
       DEF AttachPersistent, NewImage, NewCache, Give, Call, Quiet, laneVars,
           ImagesTypeOK, OwnersTypeOK, LanesTypeOK, CachesTypeOK
<1>2. CachesTypeOK'
    BY <1>0, <1>a, <1>b, LaneFacts
       DEF AttachPersistent, NewImage, NewCache, Give, Call, Quiet, laneVars,
           CachesTypeOK, OwnersTypeOK, LanesTypeOK, ImagesTypeOK, Pixels
<1>3. OwnersTypeOK'
    BY <1>0, <1>a, <1>b, LaneFacts
       DEF AttachPersistent, NewImage, NewCache, Give, Call, Quiet, laneVars,
           OwnersTypeOK, LanesTypeOK, CachesTypeOK, Pixels
<1>4. LanesTypeOK'
    BY <1>0, <1>a, <1>b, LaneFacts
       DEF AttachPersistent, NewImage, NewCache, Give, Call, Quiet, laneVars,
           LanesTypeOK, OwnersTypeOK, ImagesTypeOK, PC, Args
<1>5. BoundsTypeOK'
    BY <1>0, <1>a, <1>b, LaneFacts, LimitAssumption
       DEF AttachPersistent, NewImage, NewCache, Give, Call, Quiet, laneVars,
           BoundsTypeOK
<1>6. ImageCountExact'
  <2> SUFFICES ASSUME NEW i \in Images
               PROVE  ref'[i] = Cardinality(Holders(i)') + Cardinality(Viewers(i)') + Cardinality(Modifiers(i)')
      BY DEF ImageCountExact
  <2>0. /\ ref[i] = Cardinality(Holders(i)) + Cardinality(Viewers(i)) + Cardinality(Modifiers(i))
        /\ Cardinality(Holders(i)) \in Nat /\ IsFiniteSet(Holders(i))
        /\ Cardinality(Viewers(i)) \in Nat /\ IsFiniteSet(Viewers(i))
        /\ Cardinality(Modifiers(i)) \in Nat /\ IsFiniteSet(Modifiers(i))
      BY <1>0, FiniteSets DEF ImageCountExact, ImagesTypeOK
  <2>1. CASE i = FreshImage
    <3>1. Holders(i)' = Holders(i) \union {o} /\ o \notin Holders(i)
        BY <1>0, <1>a, <2>1, LaneFacts
           DEF AttachPersistent, NewImage, NewCache, Give, Call, Quiet, laneVars, Holders, ImagesTypeOK, CachesTypeOK, LanesTypeOK, OwnersTypeOK
    <3>2. Viewers(i)' = Viewers(i)
        BY <1>0, <1>a, <2>1, LaneFacts
           DEF AttachPersistent, NewImage, NewCache, Give, Call, Quiet, laneVars, Viewers, ImagesTypeOK, CachesTypeOK, LanesTypeOK, OwnersTypeOK
    <3>3. Modifiers(i)' = Modifiers(i)
        BY <1>0, <1>a, <2>1, LaneFacts
           DEF AttachPersistent, NewImage, NewCache, Give, Call, Quiet, laneVars, Modifiers, ImagesTypeOK, CachesTypeOK, LanesTypeOK, OwnersTypeOK
    <3>4. Cardinality(Holders(i)') = Cardinality(Holders(i)) + 1
        BY <2>0, <3>1, AddOne
    <3>5. ref'[i] = ref[i] + 1
        BY <1>0, <1>a, <2>1 DEF AttachPersistent, NewImage, NewCache, Give, Call, Quiet, laneVars, ImagesTypeOK
    <3> QED
        BY <2>0, <3>1, <3>2, <3>3, <3>4, <3>5, <1>0 DEF ImagesTypeOK
  <2>2. CASE i # FreshImage
    <3>1. Holders(i)' = Holders(i)
        BY <1>0, <1>a, <2>2, LaneFacts
           DEF AttachPersistent, NewImage, NewCache, Give, Call, Quiet, laneVars, Holders, ImagesTypeOK, CachesTypeOK, LanesTypeOK, OwnersTypeOK
    <3>2. Viewers(i)' = Viewers(i)
        BY <1>0, <1>a, <2>2, LaneFacts
           DEF AttachPersistent, NewImage, NewCache, Give, Call, Quiet, laneVars, Viewers, ImagesTypeOK, CachesTypeOK, LanesTypeOK, OwnersTypeOK
    <3>3. Modifiers(i)' = Modifiers(i)
        BY <1>0, <1>a, <2>2, LaneFacts
           DEF AttachPersistent, NewImage, NewCache, Give, Call, Quiet, laneVars, Modifiers, ImagesTypeOK, CachesTypeOK, LanesTypeOK, OwnersTypeOK
    <3>4. ref'[i] = ref[i]
        BY <1>0, <1>a, <2>2 DEF AttachPersistent, NewImage, NewCache, Give, Call, Quiet, laneVars, ImagesTypeOK
    <3> QED
        BY <2>0, <3>1, <3>2, <3>3, <3>4, <1>0 DEF ImagesTypeOK
  <2> QED
      BY <2>1, <2>2
<1>7. CacheCountExact'
  <2> SUFFICES ASSUME NEW c \in Caches
               PROVE  crc'[c] = Cardinality(Users(c)') + Cardinality(Droppers(c)')
      BY DEF CacheCountExact
  <2>0. /\ crc[c] = Cardinality(Users(c)) + Cardinality(Droppers(c))
        /\ Cardinality(Users(c)) \in Nat /\ IsFiniteSet(Users(c))
        /\ Cardinality(Droppers(c)) \in Nat /\ IsFiniteSet(Droppers(c))
      BY <1>0, FiniteSets DEF CacheCountExact, ImagesTypeOK
  <2>1. CASE c = FreshCache
    <3>1. Users(c)' = Users(c) \union {FreshImage} /\ FreshImage \notin Users(c)
        BY <1>0, <1>a, <1>b, <2>1, LaneFacts
           DEF AttachPersistent, NewImage, NewCache, Give, Call, Quiet, laneVars, Users, ImagesTypeOK, CachesTypeOK, LanesTypeOK, OwnersTypeOK
    <3>2. Droppers(c)' = Droppers(c)
        BY <1>0, <1>a, <1>b, <2>1, LaneFacts
           DEF AttachPersistent, NewImage, NewCache, Give, Call, Quiet, laneVars, Droppers, ImagesTypeOK, CachesTypeOK, LanesTypeOK, OwnersTypeOK
    <3>3. Cardinality(Users(c)') = Cardinality(Users(c)) + 1
        BY <2>0, <3>1, AddOne
    <3>4. crc'[c] = crc[c] + 1
        BY <1>0, <1>a, <1>b, <2>1 DEF AttachPersistent, NewImage, NewCache, Give, Call, Quiet, laneVars, CachesTypeOK
    <3> QED
        BY <2>0, <3>1, <3>2, <3>3, <3>4, <1>0 DEF CachesTypeOK
  <2>2. CASE c # FreshCache
    <3>1. Users(c)' = Users(c)
        BY <1>0, <1>a, <1>b, <2>2, LaneFacts
           DEF AttachPersistent, NewImage, NewCache, Give, Call, Quiet, laneVars, Users, ImagesTypeOK, CachesTypeOK, LanesTypeOK, OwnersTypeOK
    <3>2. Droppers(c)' = Droppers(c)
        BY <1>0, <1>a, <1>b, <2>2, LaneFacts
           DEF AttachPersistent, NewImage, NewCache, Give, Call, Quiet, laneVars, Droppers, ImagesTypeOK, CachesTypeOK, LanesTypeOK, OwnersTypeOK
    <3>3. crc'[c] = crc[c]
        BY <1>0, <1>a, <1>b, <2>2 DEF AttachPersistent, NewImage, NewCache, Give, Call, Quiet, laneVars, CachesTypeOK
    <3> QED
        BY <2>0, <3>1, <3>2, <3>3, <1>0 DEF CachesTypeOK
  <2> QED
      BY <2>1, <2>2
<1>8. DeadInv'
    BY <1>0, <1>a, <1>b, LaneFacts
       DEF AttachPersistent, NewImage, NewCache, Give, Call, Quiet, laneVars,
           DeadInv, ImagesTypeOK, CachesTypeOK, OwnersTypeOK, LanesTypeOK
<1>9. LocksInv'
    BY <1>0, <1>a, <1>b, LaneFacts
       DEF AttachPersistent, NewImage, NewCache, Give, Call, Quiet, laneVars,
           LocksInv, LanesTypeOK, ImagesTypeOK, CachesTypeOK, Locked, Writing
<1>10. ViewsInv'
    BY <1>0, <1>a, <1>b, LaneFacts
       DEF AttachPersistent, NewImage, NewCache, Give, Call, Quiet, laneVars,
           ViewsInv, OwnersTypeOK
<1>11. ExclInv'
    BY <1>0, <1>a, <1>b, LaneFacts
       DEF AttachPersistent, NewImage, NewCache, Give, Call, Quiet, laneVars,
           ExclInv, OwnersTypeOK
<1>12. ContentInv'
  <2> SUFFICES ASSUME NEW q \in Owners, handle'[q] # NoImage
               PROVE  content'[q] = cval'[icache'[handle'[q]]]
      BY DEF ContentInv
  <2>1. CASE q = o
      BY <1>0, <1>a, <1>b, <2>1, LaneFacts
         DEF AttachPersistent, NewImage, NewCache, Give, Call, Quiet, laneVars, ContentInv, ImagesTypeOK, CachesTypeOK, OwnersTypeOK, Pixels
  <2>2. CASE q # o
    <3>1. handle'[q] = handle[q] /\ content'[q] = content[q]
        BY <1>0, <1>a, <1>b, <2>2, LaneFacts DEF AttachPersistent, NewImage, NewCache, Give, Call, Quiet, laneVars, OwnersTypeOK
    <3>2. /\ handle[q] \in Images /\ handle[q] \in ilive
          /\ icache[handle[q]] \in Caches /\ icache[handle[q]] \in clive
          /\ content[q] = cval[icache[handle[q]]]
        BY <1>0, <3>1, InUse DEF ContentInv
    <3>3. icache'[handle[q]] = icache[handle[q]]
        BY <1>0, <1>a, <1>b, <2>2, <3>2, LaneFacts DEF AttachPersistent, NewImage, NewCache, Give, Call, Quiet, laneVars, ImagesTypeOK
    <3>4. cval'[icache[handle[q]]] = cval[icache[handle[q]]]
        BY <1>0, <1>a, <1>b, <2>2, <3>2, LaneFacts DEF AttachPersistent, NewImage, NewCache, Give, Call, Quiet, laneVars, CachesTypeOK
    <3> QED
        BY <3>1, <3>2, <3>3, <3>4
  <2> QED
      BY <2>1, <2>2
<1>13. TeamInv'
    BY <1>0, <1>a, <1>b, LaneFacts
       DEF AttachPersistent, NewImage, NewCache, Give, Call, Quiet, laneVars,
           TeamInv, LanesTypeOK, OwnersTypeOK, Writing, Locked, OwnCalls
<1>14. LocalsInv'
    BY <1>0, <1>a, <1>b, LaneFacts
       DEF AttachPersistent, NewImage, NewCache, Give, Call, Quiet, laneVars,
           LocalsInv, LanesTypeOK, OwnersTypeOK, ImagesTypeOK, Writing, Locked,
           TeamInv, OwnCalls
<1>15. CloneInv'
    BY <1>0, <1>a, <1>b, LaneFacts
       DEF AttachPersistent, NewImage, NewCache, Give, Call, Quiet, laneVars,
           CloneInv, LanesTypeOK, CloneTo
<1>16. ModifyInv'
    BY <1>0, <1>a, <1>b, LaneFacts
       DEF AttachPersistent, NewImage, NewCache, Give, Call, Quiet, laneVars,
           ModifyInv, LanesTypeOK, ImagesTypeOK, OwnersTypeOK
<1>17. KillInv'
    BY <1>0, <1>a, <1>b, LaneFacts
       DEF AttachPersistent, NewImage, NewCache, Give, Call, Quiet, laneVars,
           KillInv, LanesTypeOK, ImagesTypeOK, Writing
<1>18. FreeInv'
    BY <1>0, <1>a, <1>b, LaneFacts
       DEF AttachPersistent, NewImage, NewCache, Give, Call, Quiet, laneVars,
           FreeInv, LanesTypeOK, CachesTypeOK
<1>19. HoldInv'
    BY <1>0, <1>a, <1>b, LaneFacts, Named
       DEF AttachPersistent, NewImage, NewCache, Give, Call, Quiet, laneVars,
           HoldInv, LanesTypeOK, ImagesTypeOK, CachesTypeOK, Locked, Shared,
           Writing
<1>20. OwnedInv'
    BY <1>0, <1>a, <1>b, LaneFacts, Named
       DEF AttachPersistent, NewImage, NewCache, Give, Call, Quiet, laneVars,
           OwnedInv, LanesTypeOK, ImagesTypeOK, CachesTypeOK, Writing, Locked
<1> QED
    BY <1>1, <1>2, <1>3, <1>4, <1>5, <1>6, <1>7, <1>8, <1>9, <1>10, <1>11, <1>12,
       <1>13, <1>14, <1>15, <1>16, <1>17, <1>18, <1>19, <1>20
       DEF IInv, TypeOK

LEMMA UnchangedInv ==
    ASSUME IInv, UNCHANGED <<imageVars, cacheVars, ownerVars, content, laneVars>>,
           calls' \in 0..MaxCalls, failures' \in 0..MaxFailures
    PROVE  IInv'
<1>0. /\ ImagesTypeOK /\ CachesTypeOK /\ OwnersTypeOK /\ LanesTypeOK /\ BoundsTypeOK
      /\ ImageCountExact /\ CacheCountExact /\ DeadInv /\ LocksInv /\ ViewsInv
      /\ ExclInv /\ ContentInv /\ TeamInv /\ LocalsInv /\ CloneInv
      /\ ModifyInv /\ KillInv /\ FreeInv /\ HoldInv /\ OwnedInv
    BY DEF IInv, TypeOK
<1>1. ImagesTypeOK'
    BY <1>0, LaneFacts
       DEF laneVars, imageVars, cacheVars, ownerVars, ImagesTypeOK, OwnersTypeOK,
           LanesTypeOK, CachesTypeOK
<1>2. CachesTypeOK'
    BY <1>0, LaneFacts
       DEF laneVars, imageVars, cacheVars, ownerVars, CachesTypeOK, OwnersTypeOK,
           LanesTypeOK, ImagesTypeOK
<1>3. OwnersTypeOK'
    BY <1>0, LaneFacts
       DEF laneVars, imageVars, cacheVars, ownerVars, OwnersTypeOK, LanesTypeOK,
           CachesTypeOK
<1>4. LanesTypeOK'
    BY <1>0, LaneFacts
       DEF laneVars, imageVars, cacheVars, ownerVars, LanesTypeOK, OwnersTypeOK,
           ImagesTypeOK, PC, Args
<1>5. BoundsTypeOK'
    BY <1>0, LaneFacts, LimitAssumption
       DEF laneVars, imageVars, cacheVars, ownerVars, BoundsTypeOK
<1>6. ImageCountExact'
    BY <1>0, LaneFacts
       DEF laneVars, imageVars, cacheVars, ownerVars, ImageCountExact, Holders,
           Viewers, Modifiers, LanesTypeOK
<1>7. CacheCountExact'
    BY <1>0, LaneFacts
       DEF laneVars, imageVars, cacheVars, ownerVars, CacheCountExact, Users,
           Droppers, LanesTypeOK
<1>8. DeadInv'
    BY <1>0, LaneFacts
       DEF laneVars, imageVars, cacheVars, ownerVars, DeadInv, ImagesTypeOK,
           CachesTypeOK, OwnersTypeOK, LanesTypeOK
<1>9. LocksInv'
    BY <1>0, LaneFacts
       DEF laneVars, imageVars, cacheVars, ownerVars, LocksInv, LanesTypeOK,
           ImagesTypeOK, CachesTypeOK, Locked
<1>10. ViewsInv'
    BY <1>0, LaneFacts
       DEF laneVars, imageVars, cacheVars, ownerVars, ViewsInv, OwnersTypeOK
<1>11. ExclInv'
    BY <1>0, LaneFacts
       DEF laneVars, imageVars, cacheVars, ownerVars, ExclInv, OwnersTypeOK
<1>12. ContentInv'
    BY <1>0, LaneFacts
       DEF laneVars, imageVars, cacheVars, ownerVars, ContentInv, OwnersTypeOK,
           ImagesTypeOK, CachesTypeOK, DeadInv
<1>13. TeamInv'
    BY <1>0, LaneFacts
       DEF laneVars, imageVars, cacheVars, ownerVars, TeamInv, LanesTypeOK,
           OwnersTypeOK, Writing, Locked, OwnCalls
<1>14. LocalsInv'
    BY <1>0, LaneFacts
       DEF laneVars, imageVars, cacheVars, ownerVars, LocalsInv, LanesTypeOK,
           OwnersTypeOK, ImagesTypeOK, Writing, Locked, TeamInv, OwnCalls
<1>15. CloneInv'
    BY <1>0, LaneFacts
       DEF laneVars, imageVars, cacheVars, ownerVars, CloneInv, LanesTypeOK,
           CloneTo
<1>16. ModifyInv'
    BY <1>0, LaneFacts
       DEF laneVars, imageVars, cacheVars, ownerVars, ModifyInv, LanesTypeOK,
           ImagesTypeOK, OwnersTypeOK
<1>17. KillInv'
    BY <1>0, LaneFacts
       DEF laneVars, imageVars, cacheVars, ownerVars, KillInv, LanesTypeOK,
           ImagesTypeOK
<1>18. FreeInv'
    BY <1>0, LaneFacts
       DEF laneVars, imageVars, cacheVars, ownerVars, FreeInv, LanesTypeOK,
           CachesTypeOK
<1>19. HoldInv'
    BY <1>0, LaneFacts
       DEF laneVars, imageVars, cacheVars, ownerVars, HoldInv, LanesTypeOK,
           ImagesTypeOK, CachesTypeOK, Locked, Shared
<1>20. OwnedInv'
    BY <1>0, LaneFacts
       DEF laneVars, imageVars, cacheVars, ownerVars, OwnedInv, LanesTypeOK,
           ImagesTypeOK, CachesTypeOK
<1> QED
    BY <1>1, <1>2, <1>3, <1>4, <1>5, <1>6, <1>7, <1>8, <1>9, <1>10, <1>11, <1>12,
       <1>13, <1>14, <1>15, <1>16, <1>17, <1>18, <1>19, <1>20
       DEF IInv, TypeOK

LEMMA CloneSizedDoneInv ==
    ASSUME IInv, NEW p \in Owners, RoomForImage, RoomForCache,
           NewImage(FreshImage, FreshCache, FALSE), NewCache(FreshCache, "io", Junk),
           Give(p, FreshImage, Junk), UNCHANGED <<clock, failures, laneVars>>,
           Quiet(p), handle[p] = NoImage, Call
    PROVE  IInv'
<1>0. /\ ImagesTypeOK /\ CachesTypeOK /\ OwnersTypeOK /\ LanesTypeOK /\ BoundsTypeOK
      /\ ImageCountExact /\ CacheCountExact /\ DeadInv /\ LocksInv /\ ViewsInv
      /\ ExclInv /\ ContentInv /\ TeamInv /\ LocalsInv /\ CloneInv
      /\ ModifyInv /\ KillInv /\ FreeInv /\ HoldInv /\ OwnedInv
    BY DEF IInv, TypeOK
<1>a. /\ FreshImage \in Images /\ FreshImage \notin ilive /\ ref[FreshImage] = 0
      /\ \A q \in Owners : handle[q] # FreshImage /\ view[q] # FreshImage
      /\ \A m \in Lane :
           /\ pc[m] \in Writing \union {"clone_ref", "mod_clone", "mod_dec", "reading",
                         "kill", "kill_cache", "kill_image"} => limg[m] # FreshImage
           /\ pc[m] = "mod_dec" => lnew[m] # FreshImage
      /\ ilock[FreshImage] = NoLane /\ FreshImage # NoImage
    BY FreshImageFacts
<1>b. /\ FreshCache \in Caches /\ FreshCache \notin clive /\ crc[FreshCache] = 0
      /\ \A i \in ilive : icache[i] # FreshCache
      /\ \A m \in Lane :
           pc[m] \in {"kill_cache", "drop_free", "drop", "pixels", "clone_ref", "mod_clone",
                      "mod_dec", "recheck", "copy", "reading"} => lcache[m] # FreshCache
      /\ clock[FreshCache] = NoLane /\ FreshCache # NoCache
    BY FreshCacheFacts
<1>1. ImagesTypeOK'
    BY <1>0, <1>a, <1>b, LaneFacts
       DEF NewImage, NewCache, Give, Call, Quiet, laneVars, ImagesTypeOK,
           OwnersTypeOK, LanesTypeOK, CachesTypeOK
<1>2. CachesTypeOK'
    BY <1>0, <1>a, <1>b, LaneFacts
       DEF NewImage, NewCache, Give, Call, Quiet, laneVars, CachesTypeOK,
           OwnersTypeOK, LanesTypeOK, ImagesTypeOK, Pixels
<1>3. OwnersTypeOK'
    BY <1>0, <1>a, <1>b, LaneFacts
       DEF NewImage, NewCache, Give, Call, Quiet, laneVars, OwnersTypeOK,
           LanesTypeOK, CachesTypeOK, Pixels
<1>4. LanesTypeOK'
    BY <1>0, <1>a, <1>b, LaneFacts
       DEF NewImage, NewCache, Give, Call, Quiet, laneVars, LanesTypeOK,
           OwnersTypeOK, ImagesTypeOK, PC, Args
<1>5. BoundsTypeOK'
    BY <1>0, <1>a, <1>b, LaneFacts, LimitAssumption
       DEF NewImage, NewCache, Give, Call, Quiet, laneVars, BoundsTypeOK
<1>6. ImageCountExact'
  <2> SUFFICES ASSUME NEW i \in Images
               PROVE  ref'[i] = Cardinality(Holders(i)') + Cardinality(Viewers(i)') + Cardinality(Modifiers(i)')
      BY DEF ImageCountExact
  <2>0. /\ ref[i] = Cardinality(Holders(i)) + Cardinality(Viewers(i)) + Cardinality(Modifiers(i))
        /\ Cardinality(Holders(i)) \in Nat /\ IsFiniteSet(Holders(i))
        /\ Cardinality(Viewers(i)) \in Nat /\ IsFiniteSet(Viewers(i))
        /\ Cardinality(Modifiers(i)) \in Nat /\ IsFiniteSet(Modifiers(i))
      BY <1>0, FiniteSets DEF ImageCountExact, ImagesTypeOK
  <2>1. CASE i = FreshImage
    <3>1. Holders(i)' = Holders(i) \union {p} /\ p \notin Holders(i)
        BY <1>0, <1>a, <2>1, LaneFacts
           DEF NewImage, NewCache, Give, Call, Quiet, laneVars, Holders, ImagesTypeOK, CachesTypeOK, LanesTypeOK, OwnersTypeOK
    <3>2. Viewers(i)' = Viewers(i)
        BY <1>0, <1>a, <2>1, LaneFacts
           DEF NewImage, NewCache, Give, Call, Quiet, laneVars, Viewers, ImagesTypeOK, CachesTypeOK, LanesTypeOK, OwnersTypeOK
    <3>3. Modifiers(i)' = Modifiers(i)
        BY <1>0, <1>a, <2>1, LaneFacts
           DEF NewImage, NewCache, Give, Call, Quiet, laneVars, Modifiers, ImagesTypeOK, CachesTypeOK, LanesTypeOK, OwnersTypeOK
    <3>4. Cardinality(Holders(i)') = Cardinality(Holders(i)) + 1
        BY <2>0, <3>1, AddOne
    <3>5. ref'[i] = ref[i] + 1
        BY <1>0, <1>a, <2>1 DEF NewImage, NewCache, Give, Call, Quiet, laneVars, ImagesTypeOK
    <3> QED
        BY <2>0, <3>1, <3>2, <3>3, <3>4, <3>5, <1>0 DEF ImagesTypeOK
  <2>2. CASE i # FreshImage
    <3>1. Holders(i)' = Holders(i)
        BY <1>0, <1>a, <2>2, LaneFacts
           DEF NewImage, NewCache, Give, Call, Quiet, laneVars, Holders, ImagesTypeOK, CachesTypeOK, LanesTypeOK, OwnersTypeOK
    <3>2. Viewers(i)' = Viewers(i)
        BY <1>0, <1>a, <2>2, LaneFacts
           DEF NewImage, NewCache, Give, Call, Quiet, laneVars, Viewers, ImagesTypeOK, CachesTypeOK, LanesTypeOK, OwnersTypeOK
    <3>3. Modifiers(i)' = Modifiers(i)
        BY <1>0, <1>a, <2>2, LaneFacts
           DEF NewImage, NewCache, Give, Call, Quiet, laneVars, Modifiers, ImagesTypeOK, CachesTypeOK, LanesTypeOK, OwnersTypeOK
    <3>4. ref'[i] = ref[i]
        BY <1>0, <1>a, <2>2 DEF NewImage, NewCache, Give, Call, Quiet, laneVars, ImagesTypeOK
    <3> QED
        BY <2>0, <3>1, <3>2, <3>3, <3>4, <1>0 DEF ImagesTypeOK
  <2> QED
      BY <2>1, <2>2
<1>7. CacheCountExact'
  <2> SUFFICES ASSUME NEW c \in Caches
               PROVE  crc'[c] = Cardinality(Users(c)') + Cardinality(Droppers(c)')
      BY DEF CacheCountExact
  <2>0. /\ crc[c] = Cardinality(Users(c)) + Cardinality(Droppers(c))
        /\ Cardinality(Users(c)) \in Nat /\ IsFiniteSet(Users(c))
        /\ Cardinality(Droppers(c)) \in Nat /\ IsFiniteSet(Droppers(c))
      BY <1>0, FiniteSets DEF CacheCountExact, ImagesTypeOK
  <2>1. CASE c = FreshCache
    <3>1. Users(c)' = Users(c) \union {FreshImage} /\ FreshImage \notin Users(c)
        BY <1>0, <1>a, <1>b, <2>1, LaneFacts
           DEF NewImage, NewCache, Give, Call, Quiet, laneVars, Users, ImagesTypeOK, CachesTypeOK, LanesTypeOK, OwnersTypeOK
    <3>2. Droppers(c)' = Droppers(c)
        BY <1>0, <1>a, <1>b, <2>1, LaneFacts
           DEF NewImage, NewCache, Give, Call, Quiet, laneVars, Droppers, ImagesTypeOK, CachesTypeOK, LanesTypeOK, OwnersTypeOK
    <3>3. Cardinality(Users(c)') = Cardinality(Users(c)) + 1
        BY <2>0, <3>1, AddOne
    <3>4. crc'[c] = crc[c] + 1
        BY <1>0, <1>a, <1>b, <2>1 DEF NewImage, NewCache, Give, Call, Quiet, laneVars, CachesTypeOK
    <3> QED
        BY <2>0, <3>1, <3>2, <3>3, <3>4, <1>0 DEF CachesTypeOK
  <2>2. CASE c # FreshCache
    <3>1. Users(c)' = Users(c)
        BY <1>0, <1>a, <1>b, <2>2, LaneFacts
           DEF NewImage, NewCache, Give, Call, Quiet, laneVars, Users, ImagesTypeOK, CachesTypeOK, LanesTypeOK, OwnersTypeOK
    <3>2. Droppers(c)' = Droppers(c)
        BY <1>0, <1>a, <1>b, <2>2, LaneFacts
           DEF NewImage, NewCache, Give, Call, Quiet, laneVars, Droppers, ImagesTypeOK, CachesTypeOK, LanesTypeOK, OwnersTypeOK
    <3>3. crc'[c] = crc[c]
        BY <1>0, <1>a, <1>b, <2>2 DEF NewImage, NewCache, Give, Call, Quiet, laneVars, CachesTypeOK
    <3> QED
        BY <2>0, <3>1, <3>2, <3>3, <1>0 DEF CachesTypeOK
  <2> QED
      BY <2>1, <2>2
<1>8. DeadInv'
    BY <1>0, <1>a, <1>b, LaneFacts
       DEF NewImage, NewCache, Give, Call, Quiet, laneVars, DeadInv, ImagesTypeOK,
           CachesTypeOK, OwnersTypeOK, LanesTypeOK
<1>9. LocksInv'
    BY <1>0, <1>a, <1>b, LaneFacts
       DEF NewImage, NewCache, Give, Call, Quiet, laneVars, LocksInv, LanesTypeOK,
           ImagesTypeOK, CachesTypeOK, Locked, Writing
<1>10. ViewsInv'
    BY <1>0, <1>a, <1>b, LaneFacts
       DEF NewImage, NewCache, Give, Call, Quiet, laneVars, ViewsInv, OwnersTypeOK
<1>11. ExclInv'
    BY <1>0, <1>a, <1>b, LaneFacts
       DEF NewImage, NewCache, Give, Call, Quiet, laneVars, ExclInv, OwnersTypeOK
<1>12. ContentInv'
  <2> SUFFICES ASSUME NEW q \in Owners, handle'[q] # NoImage
               PROVE  content'[q] = cval'[icache'[handle'[q]]]
      BY DEF ContentInv
  <2>1. CASE q = p
      BY <1>0, <1>a, <1>b, <2>1, LaneFacts
         DEF NewImage, NewCache, Give, Call, Quiet, laneVars, ContentInv, ImagesTypeOK, CachesTypeOK, OwnersTypeOK, Pixels
  <2>2. CASE q # p
    <3>1. handle'[q] = handle[q] /\ content'[q] = content[q]
        BY <1>0, <1>a, <1>b, <2>2, LaneFacts DEF NewImage, NewCache, Give, Call, Quiet, laneVars, OwnersTypeOK
    <3>2. /\ handle[q] \in Images /\ handle[q] \in ilive
          /\ icache[handle[q]] \in Caches /\ icache[handle[q]] \in clive
          /\ content[q] = cval[icache[handle[q]]]
        BY <1>0, <3>1, InUse DEF ContentInv
    <3>3. icache'[handle[q]] = icache[handle[q]]
        BY <1>0, <1>a, <1>b, <2>2, <3>2, LaneFacts DEF NewImage, NewCache, Give, Call, Quiet, laneVars, ImagesTypeOK
    <3>4. cval'[icache[handle[q]]] = cval[icache[handle[q]]]
        BY <1>0, <1>a, <1>b, <2>2, <3>2, LaneFacts DEF NewImage, NewCache, Give, Call, Quiet, laneVars, CachesTypeOK
    <3> QED
        BY <3>1, <3>2, <3>3, <3>4
  <2> QED
      BY <2>1, <2>2
<1>13. TeamInv'
    BY <1>0, <1>a, <1>b, LaneFacts
       DEF NewImage, NewCache, Give, Call, Quiet, laneVars, TeamInv, LanesTypeOK,
           OwnersTypeOK, Writing, Locked, OwnCalls
<1>14. LocalsInv'
    BY <1>0, <1>a, <1>b, LaneFacts
       DEF NewImage, NewCache, Give, Call, Quiet, laneVars, LocalsInv,
           LanesTypeOK, OwnersTypeOK, ImagesTypeOK, Writing, Locked, TeamInv,
           OwnCalls
<1>15. CloneInv'
    BY <1>0, <1>a, <1>b, LaneFacts
       DEF NewImage, NewCache, Give, Call, Quiet, laneVars, CloneInv, LanesTypeOK,
           CloneTo
<1>16. ModifyInv'
    BY <1>0, <1>a, <1>b, LaneFacts
       DEF NewImage, NewCache, Give, Call, Quiet, laneVars, ModifyInv,
           LanesTypeOK, ImagesTypeOK, OwnersTypeOK
<1>17. KillInv'
    BY <1>0, <1>a, <1>b, LaneFacts
       DEF NewImage, NewCache, Give, Call, Quiet, laneVars, KillInv, LanesTypeOK,
           ImagesTypeOK, Writing
<1>18. FreeInv'
    BY <1>0, <1>a, <1>b, LaneFacts
       DEF NewImage, NewCache, Give, Call, Quiet, laneVars, FreeInv, LanesTypeOK,
           CachesTypeOK
<1>19. HoldInv'
    BY <1>0, <1>a, <1>b, LaneFacts, Named
       DEF NewImage, NewCache, Give, Call, Quiet, laneVars, HoldInv, LanesTypeOK,
           ImagesTypeOK, CachesTypeOK, Locked, Shared, Writing
<1>20. OwnedInv'
    BY <1>0, <1>a, <1>b, LaneFacts, Named
       DEF NewImage, NewCache, Give, Call, Quiet, laneVars, OwnedInv, LanesTypeOK,
           ImagesTypeOK, CachesTypeOK, Writing, Locked
<1> QED
    BY <1>1, <1>2, <1>3, <1>4, <1>5, <1>6, <1>7, <1>8, <1>9, <1>10, <1>11, <1>12,
       <1>13, <1>14, <1>15, <1>16, <1>17, <1>18, <1>19, <1>20
       DEF IInv, TypeOK

LEMMA CloneImageInv ==
    ASSUME IInv, NEW o \in Owners, NEW p \in Owners, CloneImage(o, p)
    PROVE  IInv'
<1>0. /\ ImagesTypeOK /\ CachesTypeOK /\ OwnersTypeOK /\ LanesTypeOK /\ BoundsTypeOK
      /\ ImageCountExact /\ CacheCountExact /\ DeadInv /\ LocksInv /\ ViewsInv
      /\ ExclInv /\ ContentInv /\ TeamInv /\ LocalsInv /\ CloneInv
      /\ ModifyInv /\ KillInv /\ FreeInv /\ HoldInv /\ OwnedInv
    BY DEF IInv, TypeOK
<1>1. ImagesTypeOK'
    BY <1>0, LaneFacts
       DEF CloneImage, Quiet, Call, imageVars, cacheVars, ownerVars, ImagesTypeOK,
           OwnersTypeOK, LanesTypeOK, CachesTypeOK
<1>2. CachesTypeOK'
    BY <1>0, LaneFacts
       DEF CloneImage, Quiet, Call, imageVars, cacheVars, ownerVars, CachesTypeOK,
           OwnersTypeOK, LanesTypeOK, ImagesTypeOK
<1>3. OwnersTypeOK'
    BY <1>0, LaneFacts
       DEF CloneImage, Quiet, Call, imageVars, cacheVars, ownerVars, OwnersTypeOK,
           LanesTypeOK, CachesTypeOK
<1>4. LanesTypeOK'
    BY <1>0, LaneFacts
       DEF CloneImage, Quiet, Call, imageVars, cacheVars, ownerVars, LanesTypeOK,
           OwnersTypeOK, ImagesTypeOK, PC, Args, CloneTo
<1>5. BoundsTypeOK'
    BY <1>0, LaneFacts, LimitAssumption
       DEF CloneImage, Quiet, Call, imageVars, cacheVars, ownerVars, BoundsTypeOK
<1>6. ImageCountExact'
    BY <1>0, LaneFacts
       DEF CloneImage, Quiet, Call, imageVars, cacheVars, ownerVars,
           ImageCountExact, Holders, Viewers, Modifiers, LanesTypeOK
<1>7. CacheCountExact'
    BY <1>0, LaneFacts
       DEF CloneImage, Quiet, Call, imageVars, cacheVars, ownerVars,
           CacheCountExact, Users, Droppers, LanesTypeOK
<1>8. DeadInv'
    BY <1>0, LaneFacts
       DEF CloneImage, Quiet, Call, imageVars, cacheVars, ownerVars, DeadInv,
           ImagesTypeOK, CachesTypeOK, OwnersTypeOK, LanesTypeOK
<1>9. LocksInv'
    BY <1>0, LaneFacts
       DEF CloneImage, Quiet, Call, imageVars, cacheVars, ownerVars, LocksInv,
           LanesTypeOK, ImagesTypeOK, CachesTypeOK, Locked, Writing
<1>10. ViewsInv'
    BY <1>0, LaneFacts
       DEF CloneImage, Quiet, Call, imageVars, cacheVars, ownerVars, ViewsInv,
           OwnersTypeOK
<1>11. ExclInv'
    BY <1>0, LaneFacts
       DEF CloneImage, Quiet, Call, imageVars, cacheVars, ownerVars, ExclInv,
           OwnersTypeOK
<1>12. ContentInv'
    BY <1>0, LaneFacts
       DEF CloneImage, Quiet, Call, imageVars, cacheVars, ownerVars, ContentInv,
           OwnersTypeOK, ImagesTypeOK, CachesTypeOK, DeadInv
<1>13. TeamInv'
    BY <1>0, LaneFacts
       DEF CloneImage, Quiet, Call, imageVars, cacheVars, ownerVars, TeamInv,
           LanesTypeOK, OwnersTypeOK, Writing, Locked, OwnCalls
<1>14. LocalsInv'
    BY <1>0, LaneFacts
       DEF CloneImage, Quiet, Call, imageVars, cacheVars, ownerVars, LocalsInv,
           LanesTypeOK, OwnersTypeOK, ImagesTypeOK, Writing, Locked, TeamInv,
           OwnCalls, CloneTo
<1>15. CloneInv'
    BY <1>0, LaneFacts
       DEF CloneImage, Quiet, Call, imageVars, cacheVars, ownerVars, CloneInv,
           LanesTypeOK, CloneTo
<1>16. ModifyInv'
    BY <1>0, LaneFacts
       DEF CloneImage, Quiet, Call, imageVars, cacheVars, ownerVars, ModifyInv,
           LanesTypeOK, ImagesTypeOK, OwnersTypeOK
<1>17. KillInv'
    BY <1>0, LaneFacts
       DEF CloneImage, Quiet, Call, imageVars, cacheVars, ownerVars, KillInv,
           LanesTypeOK, ImagesTypeOK, Writing
<1>18. FreeInv'
    BY <1>0, LaneFacts
       DEF CloneImage, Quiet, Call, imageVars, cacheVars, ownerVars, FreeInv,
           LanesTypeOK, CachesTypeOK
<1>19. HoldInv'
    BY <1>0, LaneFacts
       DEF CloneImage, Quiet, Call, imageVars, cacheVars, ownerVars, HoldInv,
           LanesTypeOK, ImagesTypeOK, CachesTypeOK, Locked, Shared, Writing
<1>20. OwnedInv'
    BY <1>0, LaneFacts
       DEF CloneImage, Quiet, Call, imageVars, cacheVars, ownerVars, OwnedInv,
           LanesTypeOK, ImagesTypeOK, CachesTypeOK, Writing, Locked
<1> QED
    BY <1>1, <1>2, <1>3, <1>4, <1>5, <1>6, <1>7, <1>8, <1>9, <1>10, <1>11, <1>12,
       <1>13, <1>14, <1>15, <1>16, <1>17, <1>18, <1>19, <1>20
       DEF IInv, TypeOK

LEMMA CloneReferenceInv ==
    ASSUME IInv, NEW l \in Lane, CloneReference(l)
    PROVE  IInv'
<1>0. /\ ImagesTypeOK /\ CachesTypeOK /\ OwnersTypeOK /\ LanesTypeOK /\ BoundsTypeOK
      /\ ImageCountExact /\ CacheCountExact /\ DeadInv /\ LocksInv /\ ViewsInv
      /\ ExclInv /\ ContentInv /\ TeamInv /\ LocalsInv /\ CloneInv
      /\ ModifyInv /\ KillInv /\ FreeInv /\ HoldInv /\ OwnedInv
    BY DEF IInv, TypeOK
<1>A. pc[l] = "clone_ref"
    BY DEF CloneReference
<1>a. /\ limg[l] \in Images /\ ref[limg[l]] > 0 /\ limg[l] \in ilive
      /\ icache[limg[l]] \in clive /\ icache[limg[l]] \in Caches
      /\ crc[icache[limg[l]]] > 0 /\ limg[l] = handle[Owner(l)]
      /\ handle[Owner(l)] # NoImage
      /\ lcache[l] = icache[limg[l]]
      /\ larg[l].to \in Owners /\ Main(larg[l].to) # l
    BY <1>A, CallFacts DEF Writing, Locked
<1>b. RoomForImage
    BY DEF CloneReference, ReferencePixelCache
<1>c. /\ FreshImage \in Images /\ FreshImage \notin ilive /\ ref[FreshImage] = 0
      /\ \A q \in Owners : handle[q] # FreshImage /\ view[q] # FreshImage
      /\ \A m \in Lane :
           /\ pc[m] \in Writing \union {"clone_ref", "mod_clone", "mod_dec", "reading",
                         "kill", "kill_cache", "kill_image"} => limg[m] # FreshImage
           /\ pc[m] = "mod_dec" => lnew[m] # FreshImage
      /\ ilock[FreshImage] = NoLane /\ FreshImage # NoImage
    BY <1>b, FreshImageFacts
<1>d. /\ pc[Main(larg[l].to)] = "await" /\ handle[larg[l].to] = NoImage
      /\ \A m \in Lane : pc[m] = "clone_ref" /\ larg[m].to = larg[l].to => m = l
      /\ Main(larg[l].to) \in Lane /\ Owner(Main(larg[l].to)) = larg[l].to
      /\ view[larg[l].to] = NoImage
    BY <1>A, <1>a, <1>0, LaneFacts DEF CloneInv, LocalsInv, TeamInv, OwnCalls
<1>1. ImagesTypeOK'
    BY <1>0, <1>a, <1>b, <1>c, <1>d, LaneFacts
       DEF CloneReference, ReferencePixelCache, NewImage, Give, ImagesTypeOK,
           OwnersTypeOK, LanesTypeOK, CachesTypeOK
<1>2. CachesTypeOK'
    BY <1>0, <1>a, <1>b, <1>c, <1>d, LaneFacts
       DEF CloneReference, ReferencePixelCache, NewImage, Give, CachesTypeOK,
           OwnersTypeOK, LanesTypeOK, ImagesTypeOK
<1>3. OwnersTypeOK'
    BY <1>0, <1>a, <1>b, <1>c, <1>d, LaneFacts
       DEF CloneReference, ReferencePixelCache, NewImage, Give, OwnersTypeOK,
           LanesTypeOK, CachesTypeOK
<1>4. LanesTypeOK'
    BY <1>0, <1>a, <1>b, <1>c, <1>d, LaneFacts
       DEF CloneReference, ReferencePixelCache, NewImage, Give, LanesTypeOK,
           OwnersTypeOK, ImagesTypeOK, PC, Args
<1>5. BoundsTypeOK'
    BY <1>0, <1>a, <1>b, <1>c, <1>d, LaneFacts, LimitAssumption
       DEF CloneReference, ReferencePixelCache, NewImage, Give, BoundsTypeOK
<1>6. ImageCountExact'
  <2> SUFFICES ASSUME NEW i \in Images
               PROVE  ref'[i] = Cardinality(Holders(i)') + Cardinality(Viewers(i)') + Cardinality(Modifiers(i)')
      BY DEF ImageCountExact
  <2>0. /\ ref[i] = Cardinality(Holders(i)) + Cardinality(Viewers(i)) + Cardinality(Modifiers(i))
        /\ Cardinality(Holders(i)) \in Nat /\ IsFiniteSet(Holders(i))
        /\ Cardinality(Viewers(i)) \in Nat /\ IsFiniteSet(Viewers(i))
        /\ Cardinality(Modifiers(i)) \in Nat /\ IsFiniteSet(Modifiers(i))
      BY <1>0, FiniteSets DEF ImageCountExact, ImagesTypeOK
  <2>1. CASE i = FreshImage
    <3>1. Holders(i)' = Holders(i) \union {larg[l].to} /\ larg[l].to \notin Holders(i)
        BY <1>0, <1>A, <1>a, <1>c, <1>d, <2>1, LaneFacts
           DEF CloneReference, ReferencePixelCache, NewImage, Give, Holders, ImagesTypeOK, CachesTypeOK, LanesTypeOK, OwnersTypeOK
    <3>2. Viewers(i)' = Viewers(i)
        BY <1>0, <1>A, <1>a, <1>c, <1>d, <2>1, LaneFacts
           DEF CloneReference, ReferencePixelCache, NewImage, Give, Viewers, ImagesTypeOK, CachesTypeOK, LanesTypeOK, OwnersTypeOK
    <3>3. Modifiers(i)' = Modifiers(i)
        BY <1>0, <1>A, <1>a, <1>c, <1>d, <2>1, LaneFacts
           DEF CloneReference, ReferencePixelCache, NewImage, Give, Modifiers, ImagesTypeOK, CachesTypeOK, LanesTypeOK, OwnersTypeOK
    <3>4. Cardinality(Holders(i)') = Cardinality(Holders(i)) + 1
        BY <2>0, <3>1, AddOne
    <3>5. ref'[i] = ref[i] + 1
        BY <1>0, <1>A, <1>a, <1>c, <1>d, <2>1 DEF CloneReference, ReferencePixelCache, NewImage, Give, ImagesTypeOK
    <3> QED
        BY <2>0, <3>1, <3>2, <3>3, <3>4, <3>5, <1>0 DEF ImagesTypeOK
  <2>2. CASE i # FreshImage
    <3>1. Holders(i)' = Holders(i)
        BY <1>0, <1>A, <1>a, <1>c, <1>d, <2>2, LaneFacts
           DEF CloneReference, ReferencePixelCache, NewImage, Give, Holders, ImagesTypeOK, CachesTypeOK, LanesTypeOK, OwnersTypeOK
    <3>2. Viewers(i)' = Viewers(i)
        BY <1>0, <1>A, <1>a, <1>c, <1>d, <2>2, LaneFacts
           DEF CloneReference, ReferencePixelCache, NewImage, Give, Viewers, ImagesTypeOK, CachesTypeOK, LanesTypeOK, OwnersTypeOK
    <3>3. Modifiers(i)' = Modifiers(i)
        BY <1>0, <1>A, <1>a, <1>c, <1>d, <2>2, LaneFacts
           DEF CloneReference, ReferencePixelCache, NewImage, Give, Modifiers, ImagesTypeOK, CachesTypeOK, LanesTypeOK, OwnersTypeOK
    <3>4. ref'[i] = ref[i]
        BY <1>0, <1>A, <1>a, <1>c, <1>d, <2>2 DEF CloneReference, ReferencePixelCache, NewImage, Give, ImagesTypeOK
    <3> QED
        BY <2>0, <3>1, <3>2, <3>3, <3>4, <1>0 DEF ImagesTypeOK
  <2> QED
      BY <2>1, <2>2
<1>7. CacheCountExact'
  <2> SUFFICES ASSUME NEW c \in Caches
               PROVE  crc'[c] = Cardinality(Users(c)') + Cardinality(Droppers(c)')
      BY DEF CacheCountExact
  <2>0. /\ crc[c] = Cardinality(Users(c)) + Cardinality(Droppers(c))
        /\ Cardinality(Users(c)) \in Nat /\ IsFiniteSet(Users(c))
        /\ Cardinality(Droppers(c)) \in Nat /\ IsFiniteSet(Droppers(c))
      BY <1>0, FiniteSets DEF CacheCountExact, ImagesTypeOK
  <2>1. CASE c = lcache[l]
    <3>1. Users(c)' = Users(c) \union {FreshImage} /\ FreshImage \notin Users(c)
        BY <1>0, <1>A, <1>a, <1>c, <1>d, <2>1, LaneFacts
           DEF CloneReference, ReferencePixelCache, NewImage, Give, Users, ImagesTypeOK, CachesTypeOK, LanesTypeOK, OwnersTypeOK
    <3>2. Droppers(c)' = Droppers(c)
        BY <1>0, <1>A, <1>a, <1>c, <1>d, <2>1, LaneFacts
           DEF CloneReference, ReferencePixelCache, NewImage, Give, Droppers, ImagesTypeOK, CachesTypeOK, LanesTypeOK, OwnersTypeOK
    <3>3. Cardinality(Users(c)') = Cardinality(Users(c)) + 1
        BY <2>0, <3>1, AddOne
    <3>4. crc'[c] = crc[c] + 1
        BY <1>0, <1>A, <1>a, <1>c, <1>d, <2>1 DEF CloneReference, ReferencePixelCache, NewImage, Give, CachesTypeOK
    <3> QED
        BY <2>0, <3>1, <3>2, <3>3, <3>4, <1>0 DEF CachesTypeOK
  <2>2. CASE c # lcache[l]
    <3>1. Users(c)' = Users(c)
        BY <1>0, <1>A, <1>a, <1>c, <1>d, <2>2, LaneFacts
           DEF CloneReference, ReferencePixelCache, NewImage, Give, Users, ImagesTypeOK, CachesTypeOK, LanesTypeOK, OwnersTypeOK
    <3>2. Droppers(c)' = Droppers(c)
        BY <1>0, <1>A, <1>a, <1>c, <1>d, <2>2, LaneFacts
           DEF CloneReference, ReferencePixelCache, NewImage, Give, Droppers, ImagesTypeOK, CachesTypeOK, LanesTypeOK, OwnersTypeOK
    <3>3. crc'[c] = crc[c]
        BY <1>0, <1>A, <1>a, <1>c, <1>d, <2>2 DEF CloneReference, ReferencePixelCache, NewImage, Give, CachesTypeOK
    <3> QED
        BY <2>0, <3>1, <3>2, <3>3, <1>0 DEF CachesTypeOK
  <2> QED
      BY <2>1, <2>2
<1>8. DeadInv'
    BY <1>0, <1>a, <1>b, <1>c, <1>d, LaneFacts
       DEF CloneReference, ReferencePixelCache, NewImage, Give, DeadInv,
           ImagesTypeOK, CachesTypeOK, OwnersTypeOK, LanesTypeOK
<1>9. LocksInv'
    BY <1>0, <1>a, <1>b, <1>c, <1>d, LaneFacts
      , SMTT(60) DEF CloneReference, ReferencePixelCache, NewImage, Give, LocksInv,
           LanesTypeOK, ImagesTypeOK, CachesTypeOK, Locked, Writing
<1>10. ViewsInv'
    BY <1>0, <1>a, <1>b, <1>c, <1>d, LaneFacts
       DEF CloneReference, ReferencePixelCache, NewImage, Give, ViewsInv,
           OwnersTypeOK
<1>11. ExclInv'
    BY <1>0, <1>a, <1>b, <1>c, <1>d, LaneFacts
       DEF CloneReference, ReferencePixelCache, NewImage, Give, ExclInv,
           OwnersTypeOK
<1>12. ContentInv'
  <2> SUFFICES ASSUME NEW q \in Owners, handle'[q] # NoImage
               PROVE  content'[q] = cval'[icache'[handle'[q]]]
      BY DEF ContentInv
  <2>1. CASE q = larg[l].to
      BY <1>0, <1>A, <1>a, <1>c, <1>d, <2>1, LaneFacts
         DEF CloneReference, ReferencePixelCache, NewImage, Give, ContentInv, ImagesTypeOK, CachesTypeOK, OwnersTypeOK, Pixels
  <2>2. CASE q # larg[l].to
    <3>1. handle'[q] = handle[q] /\ content'[q] = content[q]
        BY <1>0, <1>A, <1>a, <1>c, <1>d, <2>2, LaneFacts DEF CloneReference, ReferencePixelCache, NewImage, Give, OwnersTypeOK
    <3>2. /\ handle[q] \in Images /\ handle[q] \in ilive
          /\ icache[handle[q]] \in Caches /\ icache[handle[q]] \in clive
          /\ content[q] = cval[icache[handle[q]]]
        BY <1>0, <3>1, InUse DEF ContentInv
    <3>3. icache'[handle[q]] = icache[handle[q]]
        BY <1>0, <1>A, <1>a, <1>c, <1>d, <2>2, <3>2, LaneFacts DEF CloneReference, ReferencePixelCache, NewImage, Give, ImagesTypeOK
    <3>4. cval'[icache[handle[q]]] = cval[icache[handle[q]]]
        BY <1>0, <1>A, <1>a, <1>c, <1>d, <2>2, <3>2, LaneFacts DEF CloneReference, ReferencePixelCache, NewImage, Give, CachesTypeOK
    <3> QED
        BY <3>1, <3>2, <3>3, <3>4
  <2> QED
      BY <2>1, <2>2
<1>13. TeamInv'
    BY <1>0, <1>a, <1>b, <1>c, <1>d, LaneFacts
       DEF CloneReference, ReferencePixelCache, NewImage, Give, TeamInv,
           LanesTypeOK, OwnersTypeOK, Writing, Locked, OwnCalls
<1>14. LocalsInv'
    BY <1>0, <1>a, <1>b, <1>c, <1>d, LaneFacts
       DEF CloneReference, ReferencePixelCache, NewImage, Give, LocalsInv,
           LanesTypeOK, OwnersTypeOK, ImagesTypeOK, Writing, Locked, TeamInv,
           OwnCalls
<1>15. CloneInv'
    BY <1>0, <1>a, <1>b, <1>c, <1>d, LaneFacts
       DEF CloneReference, ReferencePixelCache, NewImage, Give, CloneInv,
           LanesTypeOK, CloneTo
<1>16. ModifyInv'
    BY <1>0, <1>a, <1>b, <1>c, <1>d, LaneFacts
       DEF CloneReference, ReferencePixelCache, NewImage, Give, ModifyInv,
           LanesTypeOK, ImagesTypeOK, OwnersTypeOK
<1>17. KillInv'
    BY <1>0, <1>a, <1>b, <1>c, <1>d, LaneFacts
       DEF CloneReference, ReferencePixelCache, NewImage, Give, KillInv,
           LanesTypeOK, ImagesTypeOK, Writing
<1>18. FreeInv'
    BY <1>0, <1>a, <1>b, <1>c, <1>d, LaneFacts
       DEF CloneReference, ReferencePixelCache, NewImage, Give, FreeInv,
           LanesTypeOK, CachesTypeOK
<1>19. HoldInv'
    BY <1>0, <1>a, <1>b, <1>c, <1>d, LaneFacts, Named
       DEF CloneReference, ReferencePixelCache, NewImage, Give, HoldInv,
           LanesTypeOK, ImagesTypeOK, CachesTypeOK, Locked, Shared, Writing
<1>20. OwnedInv'
  <2> SUFFICES ASSUME NEW m \in Lane,
                      pc'[m] \in {"drop", "drop_free", "validate", "return", "pixels"}
               PROVE  crc'[icache'[limg'[m]]] = 1 /\ cmode'[icache'[limg'[m]]] = "io"
      BY DEF OwnedInv
  <2>1. m # l /\ pc'[m] = pc[m] /\ limg'[m] = limg[m]
      BY <1>0, <1>A, <1>a, <1>c, <1>d, LaneFacts DEF CloneReference, ReferencePixelCache, NewImage, Give, LanesTypeOK
  <2>2. /\ limg[m] \in Images /\ limg[m] \in ilive /\ icache[limg[m]] \in Caches
        /\ crc[icache[limg[m]]] = 1 /\ cmode[icache[limg[m]]] = "io"
      BY <1>0, <2>1, CallFacts DEF Writing, Locked, OwnedInv
  <2>3. icache[limg[m]] # lcache[l]
      BY <1>A, <1>a, <2>1, Apart
  <2>4. icache'[limg[m]] = icache[limg[m]]
      BY <1>0, <1>A, <1>a, <1>c, <1>d, <2>2 DEF CloneReference, ReferencePixelCache, NewImage, Give, ImagesTypeOK
  <2> QED
      BY <1>0, <1>A, <1>a, <1>c, <1>d, <2>1, <2>2, <2>3, <2>4 DEF CloneReference, ReferencePixelCache, NewImage, Give, CachesTypeOK
<1> QED
    BY <1>1, <1>2, <1>3, <1>4, <1>5, <1>6, <1>7, <1>8, <1>9, <1>10, <1>11, <1>12,
       <1>13, <1>14, <1>15, <1>16, <1>17, <1>18, <1>19, <1>20
       DEF IInv, TypeOK

LEMMA ModifyImageInv ==
    ASSUME IInv, NEW o \in Owners, ModifyImage(o)
    PROVE  IInv'
<1>0. /\ ImagesTypeOK /\ CachesTypeOK /\ OwnersTypeOK /\ LanesTypeOK /\ BoundsTypeOK
      /\ ImageCountExact /\ CacheCountExact /\ DeadInv /\ LocksInv /\ ViewsInv
      /\ ExclInv /\ ContentInv /\ TeamInv /\ LocalsInv /\ CloneInv
      /\ ModifyInv /\ KillInv /\ FreeInv /\ HoldInv /\ OwnedInv
    BY DEF IInv, TypeOK
<1>a. ref[handle[o]] <= 1 => \A q \in Owners : handle[q] = handle[o] => q = o
    BY SoleHolder DEF ModifyImage
<1>b. handle[o] \in Images /\ icache[handle[o]] \in Caches
    BY InUse DEF ModifyImage
<1>1. ImagesTypeOK'
    BY <1>0, <1>a, <1>b, LaneFacts
       DEF ModifyImage, Quiet, Call, imageVars, cacheVars, laneVars, ImagesTypeOK,
           OwnersTypeOK, LanesTypeOK, CachesTypeOK
<1>2. CachesTypeOK'
    BY <1>0, <1>a, <1>b, LaneFacts
       DEF ModifyImage, Quiet, Call, imageVars, cacheVars, laneVars, CachesTypeOK,
           OwnersTypeOK, LanesTypeOK, ImagesTypeOK
<1>3. OwnersTypeOK'
    BY <1>0, <1>a, <1>b, LaneFacts
       DEF ModifyImage, Quiet, Call, imageVars, cacheVars, laneVars, OwnersTypeOK,
           LanesTypeOK, CachesTypeOK
<1>4. LanesTypeOK'
    BY <1>0, <1>a, <1>b, LaneFacts
      , SMTT(60) DEF ModifyImage, Quiet, Call, imageVars, cacheVars, laneVars, LanesTypeOK,
           OwnersTypeOK, ImagesTypeOK, PC, Args
<1>5. BoundsTypeOK'
    BY <1>0, <1>a, <1>b, LaneFacts, LimitAssumption
       DEF ModifyImage, Quiet, Call, imageVars, cacheVars, laneVars, BoundsTypeOK
<1>6. ImageCountExact'
    BY <1>0, <1>a, <1>b, LaneFacts
       DEF ModifyImage, Quiet, Call, imageVars, cacheVars, laneVars,
           ImageCountExact, Holders, Viewers, Modifiers, LanesTypeOK
<1>7. CacheCountExact'
    BY <1>0, <1>a, <1>b, LaneFacts
       DEF ModifyImage, Quiet, Call, imageVars, cacheVars, laneVars,
           CacheCountExact, Users, Droppers, LanesTypeOK
<1>8. DeadInv'
    BY <1>0, <1>a, <1>b, LaneFacts
       DEF ModifyImage, Quiet, Call, imageVars, cacheVars, laneVars, DeadInv,
           ImagesTypeOK, CachesTypeOK, OwnersTypeOK, LanesTypeOK
<1>9. LocksInv'
    BY <1>0, <1>a, <1>b, LaneFacts
       DEF ModifyImage, Quiet, Call, imageVars, cacheVars, laneVars, LocksInv,
           LanesTypeOK, ImagesTypeOK, CachesTypeOK, Locked, Writing
<1>10. ViewsInv'
    BY <1>0, <1>a, <1>b, LaneFacts
       DEF ModifyImage, Quiet, Call, imageVars, cacheVars, laneVars, ViewsInv,
           OwnersTypeOK
<1>11. ExclInv'
    BY <1>0, <1>a, <1>b, LaneFacts
       DEF ModifyImage, Quiet, Call, imageVars, cacheVars, laneVars, ExclInv,
           OwnersTypeOK
<1>12. ContentInv'
    BY <1>0, <1>a, <1>b, LaneFacts
       DEF ModifyImage, Quiet, Call, imageVars, cacheVars, laneVars, ContentInv,
           OwnersTypeOK, ImagesTypeOK, CachesTypeOK, DeadInv
<1>13. TeamInv'
    BY <1>0, <1>a, <1>b, LaneFacts
       DEF ModifyImage, Quiet, Call, imageVars, cacheVars, laneVars, TeamInv,
           LanesTypeOK, OwnersTypeOK, Writing, Locked, OwnCalls
<1>14. LocalsInv'
    BY <1>0, <1>a, <1>b, LaneFacts
       DEF ModifyImage, Quiet, Call, imageVars, cacheVars, laneVars, LocalsInv,
           LanesTypeOK, OwnersTypeOK, ImagesTypeOK, Writing, Locked, TeamInv,
           OwnCalls
<1>15. CloneInv'
    BY <1>0, <1>a, <1>b, LaneFacts
       DEF ModifyImage, Quiet, Call, imageVars, cacheVars, laneVars, CloneInv,
           LanesTypeOK, CloneTo
<1>16. ModifyInv'
    BY <1>0, <1>a, <1>b, LaneFacts
       DEF ModifyImage, Quiet, Call, imageVars, cacheVars, laneVars, ModifyInv,
           LanesTypeOK, ImagesTypeOK, OwnersTypeOK
<1>17. KillInv'
    BY <1>0, <1>a, <1>b, LaneFacts
       DEF ModifyImage, Quiet, Call, imageVars, cacheVars, laneVars, KillInv,
           LanesTypeOK, ImagesTypeOK, Writing
<1>18. FreeInv'
    BY <1>0, <1>a, <1>b, LaneFacts
       DEF ModifyImage, Quiet, Call, imageVars, cacheVars, laneVars, FreeInv,
           LanesTypeOK, CachesTypeOK
<1>19. HoldInv'
    BY <1>0, <1>a, <1>b, LaneFacts
       DEF ModifyImage, Quiet, Call, imageVars, cacheVars, laneVars, HoldInv,
           LanesTypeOK, ImagesTypeOK, CachesTypeOK, Locked, Shared, Writing
<1>20. OwnedInv'
    BY <1>0, <1>a, <1>b, LaneFacts
       DEF ModifyImage, Quiet, Call, imageVars, cacheVars, laneVars, OwnedInv,
           LanesTypeOK, ImagesTypeOK, CachesTypeOK, Writing, Locked
<1> QED
    BY <1>1, <1>2, <1>3, <1>4, <1>5, <1>6, <1>7, <1>8, <1>9, <1>10, <1>11, <1>12,
       <1>13, <1>14, <1>15, <1>16, <1>17, <1>18, <1>19, <1>20
       DEF IInv, TypeOK

LEMMA ModifyCloneInv ==
    ASSUME IInv, NEW l \in Lane, ModifyClone(l)
    PROVE  IInv'
<1>0. /\ ImagesTypeOK /\ CachesTypeOK /\ OwnersTypeOK /\ LanesTypeOK /\ BoundsTypeOK
      /\ ImageCountExact /\ CacheCountExact /\ DeadInv /\ LocksInv /\ ViewsInv
      /\ ExclInv /\ ContentInv /\ TeamInv /\ LocalsInv /\ CloneInv
      /\ ModifyInv /\ KillInv /\ FreeInv /\ HoldInv /\ OwnedInv
    BY DEF IInv, TypeOK
<1>A. pc[l] = "mod_clone"
    BY DEF ModifyClone
<1>a. /\ limg[l] \in Images /\ ref[limg[l]] > 0 /\ limg[l] \in ilive
      /\ icache[limg[l]] \in clive /\ icache[limg[l]] \in Caches
      /\ crc[icache[limg[l]]] > 0 /\ limg[l] = handle[Owner(l)]
      /\ handle[Owner(l)] # NoImage
      /\ lcache[l] = icache[limg[l]]
    BY <1>A, CallFacts DEF Writing, Locked
<1>b. RoomForImage
    BY DEF ModifyClone, ReferencePixelCache
<1>c. /\ FreshImage \in Images /\ FreshImage \notin ilive /\ ref[FreshImage] = 0
      /\ \A q \in Owners : handle[q] # FreshImage /\ view[q] # FreshImage
      /\ \A m \in Lane :
           /\ pc[m] \in Writing \union {"clone_ref", "mod_clone", "mod_dec", "reading",
                         "kill", "kill_cache", "kill_image"} => limg[m] # FreshImage
           /\ pc[m] = "mod_dec" => lnew[m] # FreshImage
      /\ ilock[FreshImage] = NoLane /\ FreshImage # NoImage
    BY <1>b, FreshImageFacts
<1>1. ImagesTypeOK'
    BY <1>0, <1>a, <1>b, <1>c, LaneFacts
       DEF ModifyClone, ReferencePixelCache, NewImage, ownerVars, ImagesTypeOK,
           OwnersTypeOK, LanesTypeOK, CachesTypeOK
<1>2. CachesTypeOK'
    BY <1>0, <1>a, <1>b, <1>c, LaneFacts
       DEF ModifyClone, ReferencePixelCache, NewImage, ownerVars, CachesTypeOK,
           OwnersTypeOK, LanesTypeOK, ImagesTypeOK
<1>3. OwnersTypeOK'
    BY <1>0, <1>a, <1>b, <1>c, LaneFacts
       DEF ModifyClone, ReferencePixelCache, NewImage, ownerVars, OwnersTypeOK,
           LanesTypeOK, CachesTypeOK
<1>4. LanesTypeOK'
    BY <1>0, <1>a, <1>b, <1>c, LaneFacts
       DEF ModifyClone, ReferencePixelCache, NewImage, ownerVars, LanesTypeOK,
           OwnersTypeOK, ImagesTypeOK, PC, Args
<1>5. BoundsTypeOK'
    BY <1>0, <1>a, <1>b, <1>c, LaneFacts, LimitAssumption
       DEF ModifyClone, ReferencePixelCache, NewImage, ownerVars, BoundsTypeOK
<1>6. ImageCountExact'
  <2> SUFFICES ASSUME NEW i \in Images
               PROVE  ref'[i] = Cardinality(Holders(i)') + Cardinality(Viewers(i)') + Cardinality(Modifiers(i)')
      BY DEF ImageCountExact
  <2>0. /\ ref[i] = Cardinality(Holders(i)) + Cardinality(Viewers(i)) + Cardinality(Modifiers(i))
        /\ Cardinality(Holders(i)) \in Nat /\ IsFiniteSet(Holders(i))
        /\ Cardinality(Viewers(i)) \in Nat /\ IsFiniteSet(Viewers(i))
        /\ Cardinality(Modifiers(i)) \in Nat /\ IsFiniteSet(Modifiers(i))
      BY <1>0, FiniteSets DEF ImageCountExact, ImagesTypeOK
  <2>1. CASE i = FreshImage
    <3>1. Holders(i)' = Holders(i)
        BY <1>0, <1>A, <1>a, <1>c, <2>1, LaneFacts
           DEF ModifyClone, ReferencePixelCache, NewImage, ownerVars, Holders, ImagesTypeOK, CachesTypeOK, LanesTypeOK, OwnersTypeOK
    <3>2. Viewers(i)' = Viewers(i)
        BY <1>0, <1>A, <1>a, <1>c, <2>1, LaneFacts
           DEF ModifyClone, ReferencePixelCache, NewImage, ownerVars, Viewers, ImagesTypeOK, CachesTypeOK, LanesTypeOK, OwnersTypeOK
    <3>3. Modifiers(i)' = Modifiers(i) \union {l} /\ l \notin Modifiers(i)
        BY <1>0, <1>A, <1>a, <1>c, <2>1, LaneFacts
           DEF ModifyClone, ReferencePixelCache, NewImage, ownerVars, Modifiers, ImagesTypeOK, CachesTypeOK, LanesTypeOK, OwnersTypeOK
    <3>4. Cardinality(Modifiers(i)') = Cardinality(Modifiers(i)) + 1
        BY <2>0, <3>3, AddOne
    <3>5. ref'[i] = ref[i] + 1
        BY <1>0, <1>A, <1>a, <1>c, <2>1 DEF ModifyClone, ReferencePixelCache, NewImage, ownerVars, ImagesTypeOK
    <3> QED
        BY <2>0, <3>1, <3>2, <3>3, <3>4, <3>5, <1>0 DEF ImagesTypeOK
  <2>2. CASE i # FreshImage
    <3>1. Holders(i)' = Holders(i)
        BY <1>0, <1>A, <1>a, <1>c, <2>2, LaneFacts
           DEF ModifyClone, ReferencePixelCache, NewImage, ownerVars, Holders, ImagesTypeOK, CachesTypeOK, LanesTypeOK, OwnersTypeOK
    <3>2. Viewers(i)' = Viewers(i)
        BY <1>0, <1>A, <1>a, <1>c, <2>2, LaneFacts
           DEF ModifyClone, ReferencePixelCache, NewImage, ownerVars, Viewers, ImagesTypeOK, CachesTypeOK, LanesTypeOK, OwnersTypeOK
    <3>3. Modifiers(i)' = Modifiers(i)
        BY <1>0, <1>A, <1>a, <1>c, <2>2, LaneFacts
           DEF ModifyClone, ReferencePixelCache, NewImage, ownerVars, Modifiers, ImagesTypeOK, CachesTypeOK, LanesTypeOK, OwnersTypeOK
    <3>4. ref'[i] = ref[i]
        BY <1>0, <1>A, <1>a, <1>c, <2>2 DEF ModifyClone, ReferencePixelCache, NewImage, ownerVars, ImagesTypeOK
    <3> QED
        BY <2>0, <3>1, <3>2, <3>3, <3>4, <1>0 DEF ImagesTypeOK
  <2> QED
      BY <2>1, <2>2
<1>7. CacheCountExact'
  <2> SUFFICES ASSUME NEW c \in Caches
               PROVE  crc'[c] = Cardinality(Users(c)') + Cardinality(Droppers(c)')
      BY DEF CacheCountExact
  <2>0. /\ crc[c] = Cardinality(Users(c)) + Cardinality(Droppers(c))
        /\ Cardinality(Users(c)) \in Nat /\ IsFiniteSet(Users(c))
        /\ Cardinality(Droppers(c)) \in Nat /\ IsFiniteSet(Droppers(c))
      BY <1>0, FiniteSets DEF CacheCountExact, ImagesTypeOK
  <2>1. CASE c = lcache[l]
    <3>1. Users(c)' = Users(c) \union {FreshImage} /\ FreshImage \notin Users(c)
        BY <1>0, <1>A, <1>a, <1>c, <2>1, LaneFacts
           DEF ModifyClone, ReferencePixelCache, NewImage, ownerVars, Users, ImagesTypeOK, CachesTypeOK, LanesTypeOK, OwnersTypeOK
    <3>2. Droppers(c)' = Droppers(c)
        BY <1>0, <1>A, <1>a, <1>c, <2>1, LaneFacts
           DEF ModifyClone, ReferencePixelCache, NewImage, ownerVars, Droppers, ImagesTypeOK, CachesTypeOK, LanesTypeOK, OwnersTypeOK
    <3>3. Cardinality(Users(c)') = Cardinality(Users(c)) + 1
        BY <2>0, <3>1, AddOne
    <3>4. crc'[c] = crc[c] + 1
        BY <1>0, <1>A, <1>a, <1>c, <2>1 DEF ModifyClone, ReferencePixelCache, NewImage, ownerVars, CachesTypeOK
    <3> QED
        BY <2>0, <3>1, <3>2, <3>3, <3>4, <1>0 DEF CachesTypeOK
  <2>2. CASE c # lcache[l]
    <3>1. Users(c)' = Users(c)
        BY <1>0, <1>A, <1>a, <1>c, <2>2, LaneFacts
           DEF ModifyClone, ReferencePixelCache, NewImage, ownerVars, Users, ImagesTypeOK, CachesTypeOK, LanesTypeOK, OwnersTypeOK
    <3>2. Droppers(c)' = Droppers(c)
        BY <1>0, <1>A, <1>a, <1>c, <2>2, LaneFacts
           DEF ModifyClone, ReferencePixelCache, NewImage, ownerVars, Droppers, ImagesTypeOK, CachesTypeOK, LanesTypeOK, OwnersTypeOK
    <3>3. crc'[c] = crc[c]
        BY <1>0, <1>A, <1>a, <1>c, <2>2 DEF ModifyClone, ReferencePixelCache, NewImage, ownerVars, CachesTypeOK
    <3> QED
        BY <2>0, <3>1, <3>2, <3>3, <1>0 DEF CachesTypeOK
  <2> QED
      BY <2>1, <2>2
<1>8. DeadInv'
    BY <1>0, <1>a, <1>b, <1>c, LaneFacts
       DEF ModifyClone, ReferencePixelCache, NewImage, ownerVars, DeadInv,
           ImagesTypeOK, CachesTypeOK, OwnersTypeOK, LanesTypeOK
<1>9. LocksInv'
    BY <1>0, <1>a, <1>b, <1>c, LaneFacts
       DEF ModifyClone, ReferencePixelCache, NewImage, ownerVars, LocksInv,
           LanesTypeOK, ImagesTypeOK, CachesTypeOK, Locked, Writing
<1>10. ViewsInv'
    BY <1>0, <1>a, <1>b, <1>c, LaneFacts
       DEF ModifyClone, ReferencePixelCache, NewImage, ownerVars, ViewsInv,
           OwnersTypeOK
<1>11. ExclInv'
    BY <1>0, <1>a, <1>b, <1>c, LaneFacts
       DEF ModifyClone, ReferencePixelCache, NewImage, ownerVars, ExclInv,
           OwnersTypeOK
<1>12. ContentInv'
    BY <1>0, <1>a, <1>b, <1>c, LaneFacts
       DEF ModifyClone, ReferencePixelCache, NewImage, ownerVars, ContentInv,
           OwnersTypeOK, ImagesTypeOK, CachesTypeOK, DeadInv
<1>13. TeamInv'
    BY <1>0, <1>a, <1>b, <1>c, LaneFacts
       DEF ModifyClone, ReferencePixelCache, NewImage, ownerVars, TeamInv,
           LanesTypeOK, OwnersTypeOK, Writing, Locked, OwnCalls
<1>14. LocalsInv'
    BY <1>0, <1>a, <1>b, <1>c, LaneFacts
       DEF ModifyClone, ReferencePixelCache, NewImage, ownerVars, LocalsInv,
           LanesTypeOK, OwnersTypeOK, ImagesTypeOK, Writing, Locked, TeamInv,
           OwnCalls
<1>15. CloneInv'
    BY <1>0, <1>a, <1>b, <1>c, LaneFacts
       DEF ModifyClone, ReferencePixelCache, NewImage, ownerVars, CloneInv,
           LanesTypeOK, CloneTo
<1>16. ModifyInv'
    BY <1>0, <1>a, <1>b, <1>c, LaneFacts
       DEF ModifyClone, ReferencePixelCache, NewImage, ownerVars, ModifyInv,
           LanesTypeOK, ImagesTypeOK, OwnersTypeOK
<1>17. KillInv'
    BY <1>0, <1>a, <1>b, <1>c, LaneFacts
       DEF ModifyClone, ReferencePixelCache, NewImage, ownerVars, KillInv,
           LanesTypeOK, ImagesTypeOK, Writing
<1>18. FreeInv'
    BY <1>0, <1>a, <1>b, <1>c, LaneFacts
       DEF ModifyClone, ReferencePixelCache, NewImage, ownerVars, FreeInv,
           LanesTypeOK, CachesTypeOK
<1>19. HoldInv'
    BY <1>0, <1>a, <1>b, <1>c, LaneFacts, Named
       DEF ModifyClone, ReferencePixelCache, NewImage, ownerVars, HoldInv,
           LanesTypeOK, ImagesTypeOK, CachesTypeOK, Locked, Shared, Writing
<1>20. OwnedInv'
  <2> SUFFICES ASSUME NEW m \in Lane,
                      pc'[m] \in {"drop", "drop_free", "validate", "return", "pixels"}
               PROVE  crc'[icache'[limg'[m]]] = 1 /\ cmode'[icache'[limg'[m]]] = "io"
      BY DEF OwnedInv
  <2>1. m # l /\ pc'[m] = pc[m] /\ limg'[m] = limg[m]
      BY <1>0, <1>A, <1>a, <1>c, LaneFacts DEF ModifyClone, ReferencePixelCache, NewImage, ownerVars, LanesTypeOK
  <2>2. /\ limg[m] \in Images /\ limg[m] \in ilive /\ icache[limg[m]] \in Caches
        /\ crc[icache[limg[m]]] = 1 /\ cmode[icache[limg[m]]] = "io"
      BY <1>0, <2>1, CallFacts DEF Writing, Locked, OwnedInv
  <2>3. icache[limg[m]] # lcache[l]
      BY <1>A, <1>a, <2>1, Apart
  <2>4. icache'[limg[m]] = icache[limg[m]]
      BY <1>0, <1>A, <1>a, <1>c, <2>2 DEF ModifyClone, ReferencePixelCache, NewImage, ownerVars, ImagesTypeOK
  <2> QED
      BY <1>0, <1>A, <1>a, <1>c, <2>1, <2>2, <2>3, <2>4 DEF ModifyClone, ReferencePixelCache, NewImage, ownerVars, CachesTypeOK
<1> QED
    BY <1>1, <1>2, <1>3, <1>4, <1>5, <1>6, <1>7, <1>8, <1>9, <1>10, <1>11, <1>12,
       <1>13, <1>14, <1>15, <1>16, <1>17, <1>18, <1>19, <1>20
       DEF IInv, TypeOK

LEMMA ReferenceImageInv ==
    ASSUME IInv, NEW o \in Owners, NEW p \in Owners, ReferenceImage(o, p)
    PROVE  IInv'
<1>0. /\ ImagesTypeOK /\ CachesTypeOK /\ OwnersTypeOK /\ LanesTypeOK /\ BoundsTypeOK
      /\ ImageCountExact /\ CacheCountExact /\ DeadInv /\ LocksInv /\ ViewsInv
      /\ ExclInv /\ ContentInv /\ TeamInv /\ LocalsInv /\ CloneInv
      /\ ModifyInv /\ KillInv /\ FreeInv /\ HoldInv /\ OwnedInv
    BY DEF IInv, TypeOK
<1>a. /\ handle[o] \in Images /\ ref[handle[o]] > 0 /\ handle[o] \in ilive
      /\ icache[handle[o]] \in Caches
    BY InUse DEF ReferenceImage
<1>b. handle[p] = NoImage /\ p # o /\ view[p] = NoImage /\ view[o] = NoImage
    BY DEF ReferenceImage, Quiet
<1>c. \A m \in Lane : pc[m] = "mod_dec" => lnew[m] # handle[o]
    BY <1>0 DEF ModifyInv
<1>1. ImagesTypeOK'
    BY <1>0, <1>a, <1>b, <1>c, LaneFacts
       DEF ReferenceImage, Quiet, Call, cacheVars, laneVars, ImagesTypeOK,
           OwnersTypeOK, LanesTypeOK, CachesTypeOK
<1>2. CachesTypeOK'
    BY <1>0, <1>a, <1>b, <1>c, LaneFacts
       DEF ReferenceImage, Quiet, Call, cacheVars, laneVars, CachesTypeOK,
           OwnersTypeOK, LanesTypeOK, ImagesTypeOK
<1>3. OwnersTypeOK'
    BY <1>0, <1>a, <1>b, <1>c, LaneFacts
       DEF ReferenceImage, Quiet, Call, cacheVars, laneVars, OwnersTypeOK,
           LanesTypeOK, CachesTypeOK
<1>4. LanesTypeOK'
    BY <1>0, <1>a, <1>b, <1>c, LaneFacts
       DEF ReferenceImage, Quiet, Call, cacheVars, laneVars, LanesTypeOK,
           OwnersTypeOK, ImagesTypeOK, PC, Args
<1>5. BoundsTypeOK'
    BY <1>0, <1>a, <1>b, <1>c, LaneFacts, LimitAssumption
       DEF ReferenceImage, Quiet, Call, cacheVars, laneVars, BoundsTypeOK
<1>6. ImageCountExact'
  <2> SUFFICES ASSUME NEW i \in Images
               PROVE  ref'[i] = Cardinality(Holders(i)') + Cardinality(Viewers(i)') + Cardinality(Modifiers(i)')
      BY DEF ImageCountExact
  <2>0. /\ ref[i] = Cardinality(Holders(i)) + Cardinality(Viewers(i)) + Cardinality(Modifiers(i))
        /\ Cardinality(Holders(i)) \in Nat /\ IsFiniteSet(Holders(i))
        /\ Cardinality(Viewers(i)) \in Nat /\ IsFiniteSet(Viewers(i))
        /\ Cardinality(Modifiers(i)) \in Nat /\ IsFiniteSet(Modifiers(i))
      BY <1>0, FiniteSets DEF ImageCountExact, ImagesTypeOK
  <2>1. CASE i = handle[o]
    <3>1. Holders(i)' = Holders(i) \union {p} /\ p \notin Holders(i)
        BY <1>0, <1>a, <1>b, <2>1, LaneFacts
           DEF ReferenceImage, Quiet, Call, cacheVars, laneVars, Holders, ImagesTypeOK, CachesTypeOK, LanesTypeOK, OwnersTypeOK
    <3>2. Viewers(i)' = Viewers(i)
        BY <1>0, <1>a, <1>b, <2>1, LaneFacts
           DEF ReferenceImage, Quiet, Call, cacheVars, laneVars, Viewers, ImagesTypeOK, CachesTypeOK, LanesTypeOK, OwnersTypeOK
    <3>3. Modifiers(i)' = Modifiers(i)
        BY <1>0, <1>a, <1>b, <2>1, LaneFacts
           DEF ReferenceImage, Quiet, Call, cacheVars, laneVars, Modifiers, ImagesTypeOK, CachesTypeOK, LanesTypeOK, OwnersTypeOK
    <3>4. Cardinality(Holders(i)') = Cardinality(Holders(i)) + 1
        BY <2>0, <3>1, AddOne
    <3>5. ref'[i] = ref[i] + 1
        BY <1>0, <1>a, <1>b, <2>1 DEF ReferenceImage, Quiet, Call, cacheVars, laneVars, ImagesTypeOK
    <3> QED
        BY <2>0, <3>1, <3>2, <3>3, <3>4, <3>5, <1>0 DEF ImagesTypeOK
  <2>2. CASE i # handle[o]
    <3>1. Holders(i)' = Holders(i)
        BY <1>0, <1>a, <1>b, <2>2, LaneFacts
           DEF ReferenceImage, Quiet, Call, cacheVars, laneVars, Holders, ImagesTypeOK, CachesTypeOK, LanesTypeOK, OwnersTypeOK
    <3>2. Viewers(i)' = Viewers(i)
        BY <1>0, <1>a, <1>b, <2>2, LaneFacts
           DEF ReferenceImage, Quiet, Call, cacheVars, laneVars, Viewers, ImagesTypeOK, CachesTypeOK, LanesTypeOK, OwnersTypeOK
    <3>3. Modifiers(i)' = Modifiers(i)
        BY <1>0, <1>a, <1>b, <2>2, LaneFacts
           DEF ReferenceImage, Quiet, Call, cacheVars, laneVars, Modifiers, ImagesTypeOK, CachesTypeOK, LanesTypeOK, OwnersTypeOK
    <3>4. ref'[i] = ref[i]
        BY <1>0, <1>a, <1>b, <2>2 DEF ReferenceImage, Quiet, Call, cacheVars, laneVars, ImagesTypeOK
    <3> QED
        BY <2>0, <3>1, <3>2, <3>3, <3>4, <1>0 DEF ImagesTypeOK
  <2> QED
      BY <2>1, <2>2
<1>7. CacheCountExact'
    BY <1>0, <1>a, <1>b, <1>c, LaneFacts
       DEF ReferenceImage, Quiet, Call, cacheVars, laneVars, CacheCountExact,
           Users, Droppers, LanesTypeOK
<1>8. DeadInv'
    BY <1>0, <1>a, <1>b, <1>c, LaneFacts
       DEF ReferenceImage, Quiet, Call, cacheVars, laneVars, DeadInv,
           ImagesTypeOK, CachesTypeOK, OwnersTypeOK, LanesTypeOK
<1>9. LocksInv'
    BY <1>0, <1>a, <1>b, <1>c, LaneFacts
       DEF ReferenceImage, Quiet, Call, cacheVars, laneVars, LocksInv,
           LanesTypeOK, ImagesTypeOK, CachesTypeOK, Locked, Writing
<1>10. ViewsInv'
    BY <1>0, <1>a, <1>b, <1>c, LaneFacts
       DEF ReferenceImage, Quiet, Call, cacheVars, laneVars, ViewsInv,
           OwnersTypeOK
<1>11. ExclInv'
    BY <1>0, <1>a, <1>b, <1>c, LaneFacts
       DEF ReferenceImage, Quiet, Call, cacheVars, laneVars, ExclInv, OwnersTypeOK
<1>12. ContentInv'
    BY <1>0, <1>a, <1>b, <1>c, LaneFacts
       DEF ReferenceImage, Quiet, Call, cacheVars, laneVars, ContentInv,
           OwnersTypeOK, ImagesTypeOK, CachesTypeOK, DeadInv
<1>13. TeamInv'
    BY <1>0, <1>a, <1>b, <1>c, LaneFacts
       DEF ReferenceImage, Quiet, Call, cacheVars, laneVars, TeamInv, LanesTypeOK,
           OwnersTypeOK, Writing, Locked, OwnCalls
<1>14. LocalsInv'
    BY <1>0, <1>a, <1>b, <1>c, LaneFacts
       DEF ReferenceImage, Quiet, Call, cacheVars, laneVars, LocalsInv,
           LanesTypeOK, OwnersTypeOK, ImagesTypeOK, Writing, Locked, TeamInv,
           OwnCalls
<1>15. CloneInv'
    BY <1>0, <1>a, <1>b, <1>c, LaneFacts
       DEF ReferenceImage, Quiet, Call, cacheVars, laneVars, CloneInv,
           LanesTypeOK, CloneTo
<1>16. ModifyInv'
    BY <1>0, <1>a, <1>b, <1>c, LaneFacts
       DEF ReferenceImage, Quiet, Call, cacheVars, laneVars, ModifyInv,
           LanesTypeOK, ImagesTypeOK, OwnersTypeOK
<1>17. KillInv'
    BY <1>0, <1>a, <1>b, <1>c, LaneFacts
       DEF ReferenceImage, Quiet, Call, cacheVars, laneVars, KillInv, LanesTypeOK,
           ImagesTypeOK, Writing
<1>18. FreeInv'
    BY <1>0, <1>a, <1>b, <1>c, LaneFacts
       DEF ReferenceImage, Quiet, Call, cacheVars, laneVars, FreeInv, LanesTypeOK,
           CachesTypeOK
<1>19. HoldInv'
    BY <1>0, <1>a, <1>b, <1>c, LaneFacts
       DEF ReferenceImage, Quiet, Call, cacheVars, laneVars, HoldInv, LanesTypeOK,
           ImagesTypeOK, CachesTypeOK, Locked, Shared, Writing
<1>20. OwnedInv'
    BY <1>0, <1>a, <1>b, <1>c, LaneFacts
       DEF ReferenceImage, Quiet, Call, cacheVars, laneVars, OwnedInv,
           LanesTypeOK, ImagesTypeOK, CachesTypeOK, Writing, Locked
<1> QED
    BY <1>1, <1>2, <1>3, <1>4, <1>5, <1>6, <1>7, <1>8, <1>9, <1>10, <1>11, <1>12,
       <1>13, <1>14, <1>15, <1>16, <1>17, <1>18, <1>19, <1>20
       DEF IInv, TypeOK

LEMMA ModifyDecrementInv ==
    ASSUME IInv, NEW l \in Lane, ModifyDecrement(l)
    PROVE  IInv'
<1>0. /\ ImagesTypeOK /\ CachesTypeOK /\ OwnersTypeOK /\ LanesTypeOK /\ BoundsTypeOK
      /\ ImageCountExact /\ CacheCountExact /\ DeadInv /\ LocksInv /\ ViewsInv
      /\ ExclInv /\ ContentInv /\ TeamInv /\ LocalsInv /\ CloneInv
      /\ ModifyInv /\ KillInv /\ FreeInv /\ HoldInv /\ OwnedInv
    BY DEF IInv, TypeOK
<1>A. pc[l] = "mod_dec"
    BY DEF ModifyDecrement
<1>a. /\ limg[l] \in Images /\ ref[limg[l]] > 0 /\ limg[l] \in ilive
      /\ icache[limg[l]] \in clive /\ icache[limg[l]] \in Caches
      /\ crc[icache[limg[l]]] > 0 /\ limg[l] = handle[Owner(l)]
      /\ handle[Owner(l)] # NoImage
      /\ lcache[l] = icache[limg[l]]
      /\ lnew[l] \in Images /\ lnew[l] # limg[l]
    BY <1>A, CallFacts DEF Writing, Locked
<1>b. /\ lnew[l] \in ilive /\ ref[lnew[l]] = 1 /\ icache[lnew[l]] = lcache[l]
      /\ \A q \in Owners : handle[q] # lnew[l]
      /\ \A m \in Lane : pc[m] = "mod_dec" /\ lnew[m] = lnew[l] => m = l
    BY <1>A, <1>0 DEF ModifyInv
<1>c. view[Owner(l)] = NoImage /\ l = Main(Owner(l)) /\ vkind[Owner(l)] = "none"
    BY <1>A, <1>0, LaneFacts DEF TeamInv, OwnCalls, ViewsInv
<1>1. ImagesTypeOK'
    BY <1>0, <1>a, <1>b, <1>c, LaneFacts
       DEF ModifyDecrement, Return, cacheVars, ImagesTypeOK, OwnersTypeOK,
           LanesTypeOK, CachesTypeOK
<1>2. CachesTypeOK'
    BY <1>0, <1>a, <1>b, <1>c, LaneFacts
       DEF ModifyDecrement, Return, cacheVars, CachesTypeOK, OwnersTypeOK,
           LanesTypeOK, ImagesTypeOK
<1>3. OwnersTypeOK'
    BY <1>0, <1>a, <1>b, <1>c, LaneFacts
       DEF ModifyDecrement, Return, cacheVars, OwnersTypeOK, LanesTypeOK,
           CachesTypeOK
<1>4. LanesTypeOK'
    BY <1>0, <1>a, <1>b, <1>c, LaneFacts
       DEF ModifyDecrement, Return, cacheVars, LanesTypeOK, OwnersTypeOK,
           ImagesTypeOK, PC, Args
<1>5. BoundsTypeOK'
    BY <1>0, <1>a, <1>b, <1>c, LaneFacts, LimitAssumption
       DEF ModifyDecrement, Return, cacheVars, BoundsTypeOK
<1>6. ImageCountExact'
  <2> SUFFICES ASSUME NEW i \in Images
               PROVE  ref'[i] = Cardinality(Holders(i)') + Cardinality(Viewers(i)') + Cardinality(Modifiers(i)')
      BY DEF ImageCountExact
  <2>0. /\ ref[i] = Cardinality(Holders(i)) + Cardinality(Viewers(i)) + Cardinality(Modifiers(i))
        /\ Cardinality(Holders(i)) \in Nat /\ IsFiniteSet(Holders(i))
        /\ Cardinality(Viewers(i)) \in Nat /\ IsFiniteSet(Viewers(i))
        /\ Cardinality(Modifiers(i)) \in Nat /\ IsFiniteSet(Modifiers(i))
      BY <1>0, FiniteSets DEF ImageCountExact, ImagesTypeOK
  <2>1. CASE i = limg[l]
    <3>1. Holders(i)' = Holders(i) \ {Owner(l)} /\ Owner(l) \in Holders(i)
        BY <1>0, <1>A, <1>a, <1>b, <1>c, <2>1, LaneFacts
           DEF ModifyDecrement, Return, cacheVars, Holders, ImagesTypeOK, CachesTypeOK, LanesTypeOK, OwnersTypeOK
    <3>2. Viewers(i)' = Viewers(i)
        BY <1>0, <1>A, <1>a, <1>b, <1>c, <2>1, LaneFacts
           DEF ModifyDecrement, Return, cacheVars, Viewers, ImagesTypeOK, CachesTypeOK, LanesTypeOK, OwnersTypeOK
    <3>3. Modifiers(i)' = Modifiers(i)
        BY <1>0, <1>A, <1>a, <1>b, <1>c, <2>1, LaneFacts
           DEF ModifyDecrement, Return, cacheVars, Modifiers, ImagesTypeOK, CachesTypeOK, LanesTypeOK, OwnersTypeOK
    <3>4. Cardinality(Holders(i)') = Cardinality(Holders(i)) - 1
        BY <2>0, <3>1, RemoveOne
    <3>5. ref'[i] = ref[i] - 1
        BY <1>0, <1>A, <1>a, <1>b, <1>c, <2>1 DEF ModifyDecrement, Return, cacheVars, ImagesTypeOK
    <3> QED
        BY <2>0, <3>1, <3>2, <3>3, <3>4, <3>5, <1>0 DEF ImagesTypeOK
  <2>2. CASE i = lnew[l]
    <3>1. Holders(i)' = Holders(i) \union {Owner(l)} /\ Owner(l) \notin Holders(i)
        BY <1>0, <1>A, <1>a, <1>b, <1>c, <2>2, LaneFacts
           DEF ModifyDecrement, Return, cacheVars, Holders, ImagesTypeOK, CachesTypeOK, LanesTypeOK, OwnersTypeOK
    <3>2. Viewers(i)' = Viewers(i)
        BY <1>0, <1>A, <1>a, <1>b, <1>c, <2>2, LaneFacts
           DEF ModifyDecrement, Return, cacheVars, Viewers, ImagesTypeOK, CachesTypeOK, LanesTypeOK, OwnersTypeOK
    <3>3. Modifiers(i)' = Modifiers(i) \ {l} /\ l \in Modifiers(i)
        BY <1>0, <1>A, <1>a, <1>b, <1>c, <2>2, LaneFacts
           DEF ModifyDecrement, Return, cacheVars, Modifiers, ImagesTypeOK, CachesTypeOK, LanesTypeOK, OwnersTypeOK
    <3>4. Cardinality(Holders(i)') = Cardinality(Holders(i)) + 1
        BY <2>0, <3>1, AddOne
    <3>5. Cardinality(Modifiers(i)') = Cardinality(Modifiers(i)) - 1
        BY <2>0, <3>3, RemoveOne
    <3>6. ref'[i] = ref[i]
        BY <1>0, <1>A, <1>a, <1>b, <1>c, <2>2 DEF ModifyDecrement, Return, cacheVars, ImagesTypeOK
    <3> QED
        BY <2>0, <3>1, <3>2, <3>3, <3>4, <3>5, <3>6, <1>0 DEF ImagesTypeOK
  <2>3. CASE i # limg[l] /\ i # lnew[l]
    <3>1. Holders(i)' = Holders(i)
        BY <1>0, <1>A, <1>a, <1>b, <1>c, <2>3, LaneFacts
           DEF ModifyDecrement, Return, cacheVars, Holders, ImagesTypeOK, CachesTypeOK, LanesTypeOK, OwnersTypeOK
    <3>2. Viewers(i)' = Viewers(i)
        BY <1>0, <1>A, <1>a, <1>b, <1>c, <2>3, LaneFacts
           DEF ModifyDecrement, Return, cacheVars, Viewers, ImagesTypeOK, CachesTypeOK, LanesTypeOK, OwnersTypeOK
    <3>3. Modifiers(i)' = Modifiers(i)
        BY <1>0, <1>A, <1>a, <1>b, <1>c, <2>3, LaneFacts
           DEF ModifyDecrement, Return, cacheVars, Modifiers, ImagesTypeOK, CachesTypeOK, LanesTypeOK, OwnersTypeOK
    <3>4. ref'[i] = ref[i]
        BY <1>0, <1>A, <1>a, <1>b, <1>c, <2>3 DEF ModifyDecrement, Return, cacheVars, ImagesTypeOK
    <3> QED
        BY <2>0, <3>1, <3>2, <3>3, <3>4, <1>0 DEF ImagesTypeOK
  <2> QED
      BY <2>1, <2>2, <2>3
<1>7. CacheCountExact'
    BY <1>0, <1>a, <1>b, <1>c, LaneFacts
       DEF ModifyDecrement, Return, cacheVars, CacheCountExact, Users, Droppers,
           LanesTypeOK
<1>8. DeadInv'
    BY <1>0, <1>a, <1>b, <1>c, LaneFacts
       DEF ModifyDecrement, Return, cacheVars, DeadInv, ImagesTypeOK,
           CachesTypeOK, OwnersTypeOK, LanesTypeOK
<1>9. LocksInv'
    BY <1>0, <1>a, <1>b, <1>c, LaneFacts
       DEF ModifyDecrement, Return, cacheVars, LocksInv, LanesTypeOK,
           ImagesTypeOK, CachesTypeOK, Locked, Writing
<1>10. ViewsInv'
    BY <1>0, <1>a, <1>b, <1>c, LaneFacts
       DEF ModifyDecrement, Return, cacheVars, ViewsInv, OwnersTypeOK
<1>11. ExclInv'
    BY <1>0, <1>a, <1>b, <1>c, LaneFacts
       DEF ModifyDecrement, Return, cacheVars, ExclInv, OwnersTypeOK
<1>12. ContentInv'
    BY <1>0, <1>a, <1>b, <1>c, LaneFacts
       DEF ModifyDecrement, Return, cacheVars, ContentInv, OwnersTypeOK,
           ImagesTypeOK, CachesTypeOK, DeadInv
<1>13. TeamInv'
    BY <1>0, <1>a, <1>b, <1>c, LaneFacts
       DEF ModifyDecrement, Return, cacheVars, TeamInv, LanesTypeOK, OwnersTypeOK,
           Writing, Locked, OwnCalls
<1>14. LocalsInv'
    BY <1>0, <1>a, <1>b, <1>c, LaneFacts
       DEF ModifyDecrement, Return, cacheVars, LocalsInv, LanesTypeOK,
           OwnersTypeOK, ImagesTypeOK, Writing, Locked, TeamInv, OwnCalls
<1>15. CloneInv'
    BY <1>0, <1>a, <1>b, <1>c, LaneFacts
       DEF ModifyDecrement, Return, cacheVars, CloneInv, LanesTypeOK, CloneTo
<1>16. ModifyInv'
    BY <1>0, <1>a, <1>b, <1>c, LaneFacts
       DEF ModifyDecrement, Return, cacheVars, ModifyInv, LanesTypeOK,
           ImagesTypeOK, OwnersTypeOK
<1>17. KillInv'
    BY <1>0, <1>a, <1>b, <1>c, LaneFacts
       DEF ModifyDecrement, Return, cacheVars, KillInv, LanesTypeOK, ImagesTypeOK,
           Writing
<1>18. FreeInv'
    BY <1>0, <1>a, <1>b, <1>c, LaneFacts
       DEF ModifyDecrement, Return, cacheVars, FreeInv, LanesTypeOK, CachesTypeOK
<1>19. HoldInv'
    BY <1>0, <1>a, <1>b, <1>c, LaneFacts, Named
       DEF ModifyDecrement, Return, cacheVars, HoldInv, LanesTypeOK, ImagesTypeOK,
           CachesTypeOK, Locked, Shared, Writing
<1>20. OwnedInv'
    BY <1>0, <1>a, <1>b, <1>c, LaneFacts, Named
       DEF ModifyDecrement, Return, cacheVars, OwnedInv, LanesTypeOK,
           ImagesTypeOK, CachesTypeOK, Writing, Locked
<1> QED
    BY <1>1, <1>2, <1>3, <1>4, <1>5, <1>6, <1>7, <1>8, <1>9, <1>10, <1>11, <1>12,
       <1>13, <1>14, <1>15, <1>16, <1>17, <1>18, <1>19, <1>20
       DEF IInv, TypeOK

LEMMA DestroyImageInv ==
    ASSUME IInv, NEW o \in Owners, DestroyImage(o)
    PROVE  IInv'
<1>0. /\ ImagesTypeOK /\ CachesTypeOK /\ OwnersTypeOK /\ LanesTypeOK /\ BoundsTypeOK
      /\ ImageCountExact /\ CacheCountExact /\ DeadInv /\ LocksInv /\ ViewsInv
      /\ ExclInv /\ ContentInv /\ TeamInv /\ LocalsInv /\ CloneInv
      /\ ModifyInv /\ KillInv /\ FreeInv /\ HoldInv /\ OwnedInv
    BY DEF IInv, TypeOK
<1>a. /\ handle[o] \in Images /\ ref[handle[o]] > 0 /\ handle[o] \in ilive
      /\ icache[handle[o]] \in Caches /\ ilock[handle[o]] = NoLane
    BY InUse DEF DestroyImage, Dereference
<1>b. view[o] = NoImage /\ \A m \in Lane : Owner(m) = o => pc[m] = "idle"
    BY DEF DestroyImage, Quiet
<1>c. \A m \in Lane : pc[m] = "mod_dec" => lnew[m] # handle[o]
    BY <1>0 DEF ModifyInv
<1>d. \A m \in Lane : pc[m] \in {"kill", "kill_cache", "kill_image"} => limg[m] # handle[o]
    BY <1>0, <1>a DEF KillInv
<1>1. ImagesTypeOK'
    BY <1>0, <1>a, <1>b, <1>c, <1>d, LaneFacts
       DEF DestroyImage, Dereference, Quiet, Call, cacheVars, ImagesTypeOK,
           OwnersTypeOK, LanesTypeOK, CachesTypeOK
<1>2. CachesTypeOK'
    BY <1>0, <1>a, <1>b, <1>c, <1>d, LaneFacts
       DEF DestroyImage, Dereference, Quiet, Call, cacheVars, CachesTypeOK,
           OwnersTypeOK, LanesTypeOK, ImagesTypeOK
<1>3. OwnersTypeOK'
    BY <1>0, <1>a, <1>b, <1>c, <1>d, LaneFacts
       DEF DestroyImage, Dereference, Quiet, Call, cacheVars, OwnersTypeOK,
           LanesTypeOK, CachesTypeOK, Pixels
<1>4. LanesTypeOK'
    BY <1>0, <1>a, <1>b, <1>c, <1>d, LaneFacts
       DEF DestroyImage, Dereference, Quiet, Call, cacheVars, LanesTypeOK,
           OwnersTypeOK, ImagesTypeOK, PC, Args
<1>5. BoundsTypeOK'
    BY <1>0, <1>a, <1>b, <1>c, <1>d, LaneFacts, LimitAssumption
       DEF DestroyImage, Dereference, Quiet, Call, cacheVars, BoundsTypeOK
<1>6. ImageCountExact'
  <2> SUFFICES ASSUME NEW i \in Images
               PROVE  ref'[i] = Cardinality(Holders(i)') + Cardinality(Viewers(i)') + Cardinality(Modifiers(i)')
      BY DEF ImageCountExact
  <2>0. /\ ref[i] = Cardinality(Holders(i)) + Cardinality(Viewers(i)) + Cardinality(Modifiers(i))
        /\ Cardinality(Holders(i)) \in Nat /\ IsFiniteSet(Holders(i))
        /\ Cardinality(Viewers(i)) \in Nat /\ IsFiniteSet(Viewers(i))
        /\ Cardinality(Modifiers(i)) \in Nat /\ IsFiniteSet(Modifiers(i))
      BY <1>0, FiniteSets DEF ImageCountExact, ImagesTypeOK
  <2>1. CASE i = handle[o]
    <3>1. Holders(i)' = Holders(i) \ {o} /\ o \in Holders(i)
        BY <1>0, <1>a, <1>b, <2>1, LaneFacts
           DEF DestroyImage, Dereference, Quiet, Call, cacheVars, Holders, ImagesTypeOK, CachesTypeOK, LanesTypeOK, OwnersTypeOK
    <3>2. Viewers(i)' = Viewers(i)
        BY <1>0, <1>a, <1>b, <2>1, LaneFacts
           DEF DestroyImage, Dereference, Quiet, Call, cacheVars, Viewers, ImagesTypeOK, CachesTypeOK, LanesTypeOK, OwnersTypeOK
    <3>3. Modifiers(i)' = Modifiers(i)
        BY <1>0, <1>a, <1>b, <2>1, LaneFacts
           DEF DestroyImage, Dereference, Quiet, Call, cacheVars, Modifiers, ImagesTypeOK, CachesTypeOK, LanesTypeOK, OwnersTypeOK
    <3>4. Cardinality(Holders(i)') = Cardinality(Holders(i)) - 1
        BY <2>0, <3>1, RemoveOne
    <3>5. ref'[i] = ref[i] - 1
        BY <1>0, <1>a, <1>b, <2>1 DEF DestroyImage, Dereference, Quiet, Call, cacheVars, ImagesTypeOK
    <3> QED
        BY <2>0, <3>1, <3>2, <3>3, <3>4, <3>5, <1>0 DEF ImagesTypeOK
  <2>2. CASE i # handle[o]
    <3>1. Holders(i)' = Holders(i)
        BY <1>0, <1>a, <1>b, <2>2, LaneFacts
           DEF DestroyImage, Dereference, Quiet, Call, cacheVars, Holders, ImagesTypeOK, CachesTypeOK, LanesTypeOK, OwnersTypeOK
    <3>2. Viewers(i)' = Viewers(i)
        BY <1>0, <1>a, <1>b, <2>2, LaneFacts
           DEF DestroyImage, Dereference, Quiet, Call, cacheVars, Viewers, ImagesTypeOK, CachesTypeOK, LanesTypeOK, OwnersTypeOK
    <3>3. Modifiers(i)' = Modifiers(i)
        BY <1>0, <1>a, <1>b, <2>2, LaneFacts
           DEF DestroyImage, Dereference, Quiet, Call, cacheVars, Modifiers, ImagesTypeOK, CachesTypeOK, LanesTypeOK, OwnersTypeOK
    <3>4. ref'[i] = ref[i]
        BY <1>0, <1>a, <1>b, <2>2 DEF DestroyImage, Dereference, Quiet, Call, cacheVars, ImagesTypeOK
    <3> QED
        BY <2>0, <3>1, <3>2, <3>3, <3>4, <1>0 DEF ImagesTypeOK
  <2> QED
      BY <2>1, <2>2
<1>7. CacheCountExact'
    BY <1>0, <1>a, <1>b, <1>c, <1>d, LaneFacts
       DEF DestroyImage, Dereference, Quiet, Call, cacheVars, CacheCountExact,
           Users, Droppers, LanesTypeOK
<1>8. DeadInv'
    BY <1>0, <1>a, <1>b, <1>c, <1>d, LaneFacts
       DEF DestroyImage, Dereference, Quiet, Call, cacheVars, DeadInv,
           ImagesTypeOK, CachesTypeOK, OwnersTypeOK, LanesTypeOK
<1>9. LocksInv'
    BY <1>0, <1>a, <1>b, <1>c, <1>d, LaneFacts
       DEF DestroyImage, Dereference, Quiet, Call, cacheVars, LocksInv,
           LanesTypeOK, ImagesTypeOK, CachesTypeOK, Locked, Writing
<1>10. ViewsInv'
    BY <1>0, <1>a, <1>b, <1>c, <1>d, LaneFacts
       DEF DestroyImage, Dereference, Quiet, Call, cacheVars, ViewsInv,
           OwnersTypeOK
<1>11. ExclInv'
    BY <1>0, <1>a, <1>b, <1>c, <1>d, LaneFacts
       DEF DestroyImage, Dereference, Quiet, Call, cacheVars, ExclInv,
           OwnersTypeOK
<1>12. ContentInv'
    BY <1>0, <1>a, <1>b, <1>c, <1>d, LaneFacts
       DEF DestroyImage, Dereference, Quiet, Call, cacheVars, ContentInv,
           OwnersTypeOK, ImagesTypeOK, CachesTypeOK, DeadInv
<1>13. TeamInv'
    BY <1>0, <1>a, <1>b, <1>c, <1>d, LaneFacts
       DEF DestroyImage, Dereference, Quiet, Call, cacheVars, TeamInv,
           LanesTypeOK, OwnersTypeOK, Writing, Locked, OwnCalls
<1>14. LocalsInv'
    BY <1>0, <1>a, <1>b, <1>c, <1>d, LaneFacts
       DEF DestroyImage, Dereference, Quiet, Call, cacheVars, LocalsInv,
           LanesTypeOK, OwnersTypeOK, ImagesTypeOK, Writing, Locked, TeamInv,
           OwnCalls
<1>15. CloneInv'
    BY <1>0, <1>a, <1>b, <1>c, <1>d, LaneFacts
       DEF DestroyImage, Dereference, Quiet, Call, cacheVars, CloneInv,
           LanesTypeOK, CloneTo
<1>16. ModifyInv'
    BY <1>0, <1>a, <1>b, <1>c, <1>d, LaneFacts
       DEF DestroyImage, Dereference, Quiet, Call, cacheVars, ModifyInv,
           LanesTypeOK, ImagesTypeOK, OwnersTypeOK
<1>17. KillInv'
    BY <1>0, <1>a, <1>b, <1>c, <1>d, LaneFacts
       DEF DestroyImage, Dereference, Quiet, Call, cacheVars, KillInv,
           LanesTypeOK, ImagesTypeOK, Writing
<1>18. FreeInv'
    BY <1>0, <1>a, <1>b, <1>c, <1>d, LaneFacts
       DEF DestroyImage, Dereference, Quiet, Call, cacheVars, FreeInv,
           LanesTypeOK, CachesTypeOK
<1>19. HoldInv'
    BY <1>0, <1>a, <1>b, <1>c, <1>d, LaneFacts, Named
       DEF DestroyImage, Dereference, Quiet, Call, cacheVars, HoldInv,
           LanesTypeOK, ImagesTypeOK, CachesTypeOK, Locked, Shared, Writing
<1>20. OwnedInv'
    BY <1>0, <1>a, <1>b, <1>c, <1>d, LaneFacts, Named
       DEF DestroyImage, Dereference, Quiet, Call, cacheVars, OwnedInv,
           LanesTypeOK, ImagesTypeOK, CachesTypeOK, Writing, Locked
<1> QED
    BY <1>1, <1>2, <1>3, <1>4, <1>5, <1>6, <1>7, <1>8, <1>9, <1>10, <1>11, <1>12,
       <1>13, <1>14, <1>15, <1>16, <1>17, <1>18, <1>19, <1>20
       DEF IInv, TypeOK

LEMMA DestroyCacheViewInv ==
    ASSUME IInv, NEW o \in Owners, DestroyCacheView(o)
    PROVE  IInv'
<1>0. /\ ImagesTypeOK /\ CachesTypeOK /\ OwnersTypeOK /\ LanesTypeOK /\ BoundsTypeOK
      /\ ImageCountExact /\ CacheCountExact /\ DeadInv /\ LocksInv /\ ViewsInv
      /\ ExclInv /\ ContentInv /\ TeamInv /\ LocalsInv /\ CloneInv
      /\ ModifyInv /\ KillInv /\ FreeInv /\ HoldInv /\ OwnedInv
    BY DEF IInv, TypeOK
<1>a. /\ view[o] \in Images /\ ref[view[o]] > 0 /\ view[o] \in ilive
      /\ icache[view[o]] \in Caches /\ ilock[view[o]] = NoLane /\ view[o] # NoImage
    BY InUse DEF DestroyCacheView, Dereference
<1>b. view[o] = handle[o] /\ \A m \in Lane : Owner(m) = o => pc[m] = "idle"
    BY <1>0 DEF DestroyCacheView, ViewsInv
<1>c. \A m \in Lane : pc[m] = "mod_dec" => lnew[m] # view[o]
    BY <1>0, <1>b DEF ModifyInv
<1>d. \A m \in Lane : pc[m] \in {"kill", "kill_cache", "kill_image"} => limg[m] # view[o]
    BY <1>0, <1>a DEF KillInv
<1>1. ImagesTypeOK'
    BY <1>0, <1>a, <1>b, <1>c, <1>d, LaneFacts
       DEF DestroyCacheView, Dereference, cacheVars, ImagesTypeOK, OwnersTypeOK,
           LanesTypeOK, CachesTypeOK
<1>2. CachesTypeOK'
    BY <1>0, <1>a, <1>b, <1>c, <1>d, LaneFacts
       DEF DestroyCacheView, Dereference, cacheVars, CachesTypeOK, OwnersTypeOK,
           LanesTypeOK, ImagesTypeOK
<1>3. OwnersTypeOK'
    BY <1>0, <1>a, <1>b, <1>c, <1>d, LaneFacts
       DEF DestroyCacheView, Dereference, cacheVars, OwnersTypeOK, LanesTypeOK,
           CachesTypeOK
<1>4. LanesTypeOK'
    BY <1>0, <1>a, <1>b, <1>c, <1>d, LaneFacts
       DEF DestroyCacheView, Dereference, cacheVars, LanesTypeOK, OwnersTypeOK,
           ImagesTypeOK, PC, Args
<1>5. BoundsTypeOK'
    BY <1>0, <1>a, <1>b, <1>c, <1>d, LaneFacts, LimitAssumption
       DEF DestroyCacheView, Dereference, cacheVars, BoundsTypeOK
<1>6. ImageCountExact'
  <2> SUFFICES ASSUME NEW i \in Images
               PROVE  ref'[i] = Cardinality(Holders(i)') + Cardinality(Viewers(i)') + Cardinality(Modifiers(i)')
      BY DEF ImageCountExact
  <2>0. /\ ref[i] = Cardinality(Holders(i)) + Cardinality(Viewers(i)) + Cardinality(Modifiers(i))
        /\ Cardinality(Holders(i)) \in Nat /\ IsFiniteSet(Holders(i))
        /\ Cardinality(Viewers(i)) \in Nat /\ IsFiniteSet(Viewers(i))
        /\ Cardinality(Modifiers(i)) \in Nat /\ IsFiniteSet(Modifiers(i))
      BY <1>0, FiniteSets DEF ImageCountExact, ImagesTypeOK
  <2>1. CASE i = view[o]
    <3>1. Holders(i)' = Holders(i)
        BY <1>0, <1>a, <1>b, <2>1, LaneFacts
           DEF DestroyCacheView, Dereference, cacheVars, Holders, ImagesTypeOK, CachesTypeOK, LanesTypeOK, OwnersTypeOK
    <3>2. Viewers(i)' = Viewers(i) \ {o} /\ o \in Viewers(i)
        BY <1>0, <1>a, <1>b, <2>1, LaneFacts
           DEF DestroyCacheView, Dereference, cacheVars, Viewers, ImagesTypeOK, CachesTypeOK, LanesTypeOK, OwnersTypeOK
    <3>3. Modifiers(i)' = Modifiers(i)
        BY <1>0, <1>a, <1>b, <2>1, LaneFacts
           DEF DestroyCacheView, Dereference, cacheVars, Modifiers, ImagesTypeOK, CachesTypeOK, LanesTypeOK, OwnersTypeOK
    <3>4. Cardinality(Viewers(i)') = Cardinality(Viewers(i)) - 1
        BY <2>0, <3>2, RemoveOne
    <3>5. ref'[i] = ref[i] - 1
        BY <1>0, <1>a, <1>b, <2>1 DEF DestroyCacheView, Dereference, cacheVars, ImagesTypeOK
    <3> QED
        BY <2>0, <3>1, <3>2, <3>3, <3>4, <3>5, <1>0 DEF ImagesTypeOK
  <2>2. CASE i # view[o]
    <3>1. Holders(i)' = Holders(i)
        BY <1>0, <1>a, <1>b, <2>2, LaneFacts
           DEF DestroyCacheView, Dereference, cacheVars, Holders, ImagesTypeOK, CachesTypeOK, LanesTypeOK, OwnersTypeOK
    <3>2. Viewers(i)' = Viewers(i)
        BY <1>0, <1>a, <1>b, <2>2, LaneFacts
           DEF DestroyCacheView, Dereference, cacheVars, Viewers, ImagesTypeOK, CachesTypeOK, LanesTypeOK, OwnersTypeOK
    <3>3. Modifiers(i)' = Modifiers(i)
        BY <1>0, <1>a, <1>b, <2>2, LaneFacts
           DEF DestroyCacheView, Dereference, cacheVars, Modifiers, ImagesTypeOK, CachesTypeOK, LanesTypeOK, OwnersTypeOK
    <3>4. ref'[i] = ref[i]
        BY <1>0, <1>a, <1>b, <2>2 DEF DestroyCacheView, Dereference, cacheVars, ImagesTypeOK
    <3> QED
        BY <2>0, <3>1, <3>2, <3>3, <3>4, <1>0 DEF ImagesTypeOK
  <2> QED
      BY <2>1, <2>2
<1>7. CacheCountExact'
    BY <1>0, <1>a, <1>b, <1>c, <1>d, LaneFacts
       DEF DestroyCacheView, Dereference, cacheVars, CacheCountExact, Users,
           Droppers, LanesTypeOK
<1>8. DeadInv'
    BY <1>0, <1>a, <1>b, <1>c, <1>d, LaneFacts
       DEF DestroyCacheView, Dereference, cacheVars, DeadInv, ImagesTypeOK,
           CachesTypeOK, OwnersTypeOK, LanesTypeOK
<1>9. LocksInv'
    BY <1>0, <1>a, <1>b, <1>c, <1>d, LaneFacts
       DEF DestroyCacheView, Dereference, cacheVars, LocksInv, LanesTypeOK,
           ImagesTypeOK, CachesTypeOK, Locked, Writing
<1>10. ViewsInv'
    BY <1>0, <1>a, <1>b, <1>c, <1>d, LaneFacts
       DEF DestroyCacheView, Dereference, cacheVars, ViewsInv, OwnersTypeOK
<1>11. ExclInv'
    BY <1>0, <1>a, <1>b, <1>c, <1>d, LaneFacts
       DEF DestroyCacheView, Dereference, cacheVars, ExclInv, OwnersTypeOK
<1>12. ContentInv'
    BY <1>0, <1>a, <1>b, <1>c, <1>d, LaneFacts
       DEF DestroyCacheView, Dereference, cacheVars, ContentInv, OwnersTypeOK,
           ImagesTypeOK, CachesTypeOK, DeadInv
<1>13. TeamInv'
    BY <1>0, <1>a, <1>b, <1>c, <1>d, LaneFacts
       DEF DestroyCacheView, Dereference, cacheVars, TeamInv, LanesTypeOK,
           OwnersTypeOK, Writing, Locked, OwnCalls
<1>14. LocalsInv'
    BY <1>0, <1>a, <1>b, <1>c, <1>d, LaneFacts
       DEF DestroyCacheView, Dereference, cacheVars, LocalsInv, LanesTypeOK,
           OwnersTypeOK, ImagesTypeOK, Writing, Locked, TeamInv, OwnCalls
<1>15. CloneInv'
    BY <1>0, <1>a, <1>b, <1>c, <1>d, LaneFacts
       DEF DestroyCacheView, Dereference, cacheVars, CloneInv, LanesTypeOK,
           CloneTo
<1>16. ModifyInv'
    BY <1>0, <1>a, <1>b, <1>c, <1>d, LaneFacts
       DEF DestroyCacheView, Dereference, cacheVars, ModifyInv, LanesTypeOK,
           ImagesTypeOK, OwnersTypeOK
<1>17. KillInv'
    BY <1>0, <1>a, <1>b, <1>c, <1>d, LaneFacts
       DEF DestroyCacheView, Dereference, cacheVars, KillInv, LanesTypeOK,
           ImagesTypeOK, Writing
<1>18. FreeInv'
    BY <1>0, <1>a, <1>b, <1>c, <1>d, LaneFacts
       DEF DestroyCacheView, Dereference, cacheVars, FreeInv, LanesTypeOK,
           CachesTypeOK
<1>19. HoldInv'
    BY <1>0, <1>a, <1>b, <1>c, <1>d, LaneFacts, Named
       DEF DestroyCacheView, Dereference, cacheVars, HoldInv, LanesTypeOK,
           ImagesTypeOK, CachesTypeOK, Locked, Shared, Writing
<1>20. OwnedInv'
    BY <1>0, <1>a, <1>b, <1>c, <1>d, LaneFacts, Named
       DEF DestroyCacheView, Dereference, cacheVars, OwnedInv, LanesTypeOK,
           ImagesTypeOK, CachesTypeOK, Writing, Locked
<1> QED
    BY <1>1, <1>2, <1>3, <1>4, <1>5, <1>6, <1>7, <1>8, <1>9, <1>10, <1>11, <1>12,
       <1>13, <1>14, <1>15, <1>16, <1>17, <1>18, <1>19, <1>20
       DEF IInv, TypeOK

LEMMA AcquireCacheViewInv ==
    ASSUME IInv, NEW o \in Owners, NEW kind \in {"virtual", "authentic"}, AcquireCacheView(o, kind)
    PROVE  IInv'
<1>0. /\ ImagesTypeOK /\ CachesTypeOK /\ OwnersTypeOK /\ LanesTypeOK /\ BoundsTypeOK
      /\ ImageCountExact /\ CacheCountExact /\ DeadInv /\ LocksInv /\ ViewsInv
      /\ ExclInv /\ ContentInv /\ TeamInv /\ LocalsInv /\ CloneInv
      /\ ModifyInv /\ KillInv /\ FreeInv /\ HoldInv /\ OwnedInv
    BY DEF IInv, TypeOK
<1>a. /\ handle[o] \in Images /\ ref[handle[o]] > 0 /\ handle[o] \in ilive
      /\ icache[handle[o]] \in Caches
    BY InUse DEF AcquireCacheView
<1>b. view[o] = NoImage /\ \A m \in Lane : Owner(m) = o => pc[m] = "idle"
    BY DEF AcquireCacheView, Quiet
<1>c. \A m \in Lane : pc[m] = "mod_dec" => lnew[m] # handle[o]
    BY <1>0 DEF ModifyInv
<1>1. ImagesTypeOK'
    BY <1>0, <1>a, <1>b, <1>c, LaneFacts
       DEF AcquireCacheView, Quiet, Call, cacheVars, laneVars, ImagesTypeOK,
           OwnersTypeOK, LanesTypeOK, CachesTypeOK
<1>2. CachesTypeOK'
    BY <1>0, <1>a, <1>b, <1>c, LaneFacts
       DEF AcquireCacheView, Quiet, Call, cacheVars, laneVars, CachesTypeOK,
           OwnersTypeOK, LanesTypeOK, ImagesTypeOK
<1>3. OwnersTypeOK'
    BY <1>0, <1>a, <1>b, <1>c, LaneFacts
       DEF AcquireCacheView, Quiet, Call, cacheVars, laneVars, OwnersTypeOK,
           LanesTypeOK, CachesTypeOK
<1>4. LanesTypeOK'
    BY <1>0, <1>a, <1>b, <1>c, LaneFacts
       DEF AcquireCacheView, Quiet, Call, cacheVars, laneVars, LanesTypeOK,
           OwnersTypeOK, ImagesTypeOK, PC, Args
<1>5. BoundsTypeOK'
    BY <1>0, <1>a, <1>b, <1>c, LaneFacts, LimitAssumption
       DEF AcquireCacheView, Quiet, Call, cacheVars, laneVars, BoundsTypeOK
<1>6. ImageCountExact'
  <2> SUFFICES ASSUME NEW i \in Images
               PROVE  ref'[i] = Cardinality(Holders(i)') + Cardinality(Viewers(i)') + Cardinality(Modifiers(i)')
      BY DEF ImageCountExact
  <2>0. /\ ref[i] = Cardinality(Holders(i)) + Cardinality(Viewers(i)) + Cardinality(Modifiers(i))
        /\ Cardinality(Holders(i)) \in Nat /\ IsFiniteSet(Holders(i))
        /\ Cardinality(Viewers(i)) \in Nat /\ IsFiniteSet(Viewers(i))
        /\ Cardinality(Modifiers(i)) \in Nat /\ IsFiniteSet(Modifiers(i))
      BY <1>0, FiniteSets DEF ImageCountExact, ImagesTypeOK
  <2>1. CASE i = handle[o]
    <3>1. Holders(i)' = Holders(i)
        BY <1>0, <1>a, <1>b, <2>1, LaneFacts
           DEF AcquireCacheView, Quiet, Call, cacheVars, laneVars, Holders, ImagesTypeOK, CachesTypeOK, LanesTypeOK, OwnersTypeOK
    <3>2. Viewers(i)' = Viewers(i) \union {o} /\ o \notin Viewers(i)
        BY <1>0, <1>a, <1>b, <2>1, LaneFacts
           DEF AcquireCacheView, Quiet, Call, cacheVars, laneVars, Viewers, ImagesTypeOK, CachesTypeOK, LanesTypeOK, OwnersTypeOK
    <3>3. Modifiers(i)' = Modifiers(i)
        BY <1>0, <1>a, <1>b, <2>1, LaneFacts
           DEF AcquireCacheView, Quiet, Call, cacheVars, laneVars, Modifiers, ImagesTypeOK, CachesTypeOK, LanesTypeOK, OwnersTypeOK
    <3>4. Cardinality(Viewers(i)') = Cardinality(Viewers(i)) + 1
        BY <2>0, <3>2, AddOne
    <3>5. ref'[i] = ref[i] + 1
        BY <1>0, <1>a, <1>b, <2>1 DEF AcquireCacheView, Quiet, Call, cacheVars, laneVars, ImagesTypeOK
    <3> QED
        BY <2>0, <3>1, <3>2, <3>3, <3>4, <3>5, <1>0 DEF ImagesTypeOK
  <2>2. CASE i # handle[o]
    <3>1. Holders(i)' = Holders(i)
        BY <1>0, <1>a, <1>b, <2>2, LaneFacts
           DEF AcquireCacheView, Quiet, Call, cacheVars, laneVars, Holders, ImagesTypeOK, CachesTypeOK, LanesTypeOK, OwnersTypeOK
    <3>2. Viewers(i)' = Viewers(i)
        BY <1>0, <1>a, <1>b, <2>2, LaneFacts
           DEF AcquireCacheView, Quiet, Call, cacheVars, laneVars, Viewers, ImagesTypeOK, CachesTypeOK, LanesTypeOK, OwnersTypeOK
    <3>3. Modifiers(i)' = Modifiers(i)
        BY <1>0, <1>a, <1>b, <2>2, LaneFacts
           DEF AcquireCacheView, Quiet, Call, cacheVars, laneVars, Modifiers, ImagesTypeOK, CachesTypeOK, LanesTypeOK, OwnersTypeOK
    <3>4. ref'[i] = ref[i]
        BY <1>0, <1>a, <1>b, <2>2 DEF AcquireCacheView, Quiet, Call, cacheVars, laneVars, ImagesTypeOK
    <3> QED
        BY <2>0, <3>1, <3>2, <3>3, <3>4, <1>0 DEF ImagesTypeOK
  <2> QED
      BY <2>1, <2>2
<1>7. CacheCountExact'
    BY <1>0, <1>a, <1>b, <1>c, LaneFacts
       DEF AcquireCacheView, Quiet, Call, cacheVars, laneVars, CacheCountExact,
           Users, Droppers, LanesTypeOK
<1>8. DeadInv'
    BY <1>0, <1>a, <1>b, <1>c, LaneFacts
       DEF AcquireCacheView, Quiet, Call, cacheVars, laneVars, DeadInv,
           ImagesTypeOK, CachesTypeOK, OwnersTypeOK, LanesTypeOK
<1>9. LocksInv'
    BY <1>0, <1>a, <1>b, <1>c, LaneFacts
       DEF AcquireCacheView, Quiet, Call, cacheVars, laneVars, LocksInv,
           LanesTypeOK, ImagesTypeOK, CachesTypeOK, Locked, Writing
<1>10. ViewsInv'
    BY <1>0, <1>a, <1>b, <1>c, LaneFacts
       DEF AcquireCacheView, Quiet, Call, cacheVars, laneVars, ViewsInv,
           OwnersTypeOK
<1>11. ExclInv'
    BY <1>0, <1>a, <1>b, <1>c, LaneFacts
       DEF AcquireCacheView, Quiet, Call, cacheVars, laneVars, ExclInv,
           OwnersTypeOK
<1>12. ContentInv'
    BY <1>0, <1>a, <1>b, <1>c, LaneFacts
       DEF AcquireCacheView, Quiet, Call, cacheVars, laneVars, ContentInv,
           OwnersTypeOK, ImagesTypeOK, CachesTypeOK, DeadInv
<1>13. TeamInv'
    BY <1>0, <1>a, <1>b, <1>c, LaneFacts
       DEF AcquireCacheView, Quiet, Call, cacheVars, laneVars, TeamInv,
           LanesTypeOK, OwnersTypeOK, Writing, Locked, OwnCalls
<1>14. LocalsInv'
    BY <1>0, <1>a, <1>b, <1>c, LaneFacts
       DEF AcquireCacheView, Quiet, Call, cacheVars, laneVars, LocalsInv,
           LanesTypeOK, OwnersTypeOK, ImagesTypeOK, Writing, Locked, TeamInv,
           OwnCalls
<1>15. CloneInv'
    BY <1>0, <1>a, <1>b, <1>c, LaneFacts
       DEF AcquireCacheView, Quiet, Call, cacheVars, laneVars, CloneInv,
           LanesTypeOK, CloneTo
<1>16. ModifyInv'
    BY <1>0, <1>a, <1>b, <1>c, LaneFacts
       DEF AcquireCacheView, Quiet, Call, cacheVars, laneVars, ModifyInv,
           LanesTypeOK, ImagesTypeOK, OwnersTypeOK
<1>17. KillInv'
    BY <1>0, <1>a, <1>b, <1>c, LaneFacts
       DEF AcquireCacheView, Quiet, Call, cacheVars, laneVars, KillInv,
           LanesTypeOK, ImagesTypeOK, Writing
<1>18. FreeInv'
    BY <1>0, <1>a, <1>b, <1>c, LaneFacts
       DEF AcquireCacheView, Quiet, Call, cacheVars, laneVars, FreeInv,
           LanesTypeOK, CachesTypeOK
<1>19. HoldInv'
    BY <1>0, <1>a, <1>b, <1>c, LaneFacts
       DEF AcquireCacheView, Quiet, Call, cacheVars, laneVars, HoldInv,
           LanesTypeOK, ImagesTypeOK, CachesTypeOK, Locked, Shared, Writing
<1>20. OwnedInv'
    BY <1>0, <1>a, <1>b, <1>c, LaneFacts
       DEF AcquireCacheView, Quiet, Call, cacheVars, laneVars, OwnedInv,
           LanesTypeOK, ImagesTypeOK, CachesTypeOK, Writing, Locked
<1> QED
    BY <1>1, <1>2, <1>3, <1>4, <1>5, <1>6, <1>7, <1>8, <1>9, <1>10, <1>11, <1>12,
       <1>13, <1>14, <1>15, <1>16, <1>17, <1>18, <1>19, <1>20
       DEF IInv, TypeOK

LEMMA DestroyImagePixelsInv ==
    ASSUME IInv, NEW l \in Lane, DestroyImagePixels(l)
    PROVE  IInv'
<1>0. /\ ImagesTypeOK /\ CachesTypeOK /\ OwnersTypeOK /\ LanesTypeOK /\ BoundsTypeOK
      /\ ImageCountExact /\ CacheCountExact /\ DeadInv /\ LocksInv /\ ViewsInv
      /\ ExclInv /\ ContentInv /\ TeamInv /\ LocalsInv /\ CloneInv
      /\ ModifyInv /\ KillInv /\ FreeInv /\ HoldInv /\ OwnedInv
    BY DEF IInv, TypeOK
<1>A. pc[l] = "kill"
    BY DEF DestroyImagePixels
<1>a. /\ limg[l] \in Images /\ limg[l] \in ilive /\ ref[limg[l]] = 0
      /\ \A m \in Lane : pc[m] \in {"kill", "kill_cache", "kill_image"} /\ limg[m] = limg[l] => m = l
      /\ \A q \in Owners : handle[q] # limg[l]
      /\ \A m \in Lane :
           /\ pc[m] \in Writing \union {"clone_ref", "mod_clone", "mod_dec", "reading"} => limg[m] # limg[l]
           /\ pc[m] = "mod_dec" => lnew[m] # limg[l]
  <2>1. /\ limg[l] \in Images /\ limg[l] \in ilive /\ ref[limg[l]] = 0
        /\ \A m \in Lane : pc[m] \in {"kill", "kill_cache", "kill_image"} /\ limg[m] = limg[l] => m = l
      BY <1>A, <1>0, CallFacts DEF KillInv
  <2>2. \A q \in Owners : handle[q] # limg[l]
      BY <2>1, InUse, NullAssumption
  <2>3. \A m \in Lane :
          pc[m] \in Writing \union {"clone_ref", "mod_clone", "mod_dec", "reading"} => ref[limg[m]] > 0
      BY CallFacts
  <2>4. \A m \in Lane : pc[m] = "mod_dec" => ref[lnew[m]] = 1
      BY <1>0 DEF ModifyInv
  <2> QED
      BY <2>1, <2>2, <2>3, <2>4
<1>b. /\ icache[limg[l]] \in Caches /\ icache[limg[l]] \in clive /\ crc[icache[limg[l]]] > 0
    BY <1>A, <1>0, CallFacts DEF KillInv
<1>c. \A m \in Lane : pc[m] \in {"drop", "drop_free", "validate", "return", "pixels"} =>
          icache[limg[m]] # icache[limg[l]]
    BY <1>a, Alone DEF Writing, Locked
<1>d. \A m \in Lane : pc[m] \in {"kill_cache", "drop_free"} => lcache[m] # icache[limg[l]]
    BY <1>0, <1>b DEF FreeInv
<1>e. clock[icache[limg[l]]] = NoLane
    BY DEF DestroyImagePixels, DestroyPixelCache
<1>1. ImagesTypeOK'
    BY <1>0, <1>a, <1>b, <1>c, <1>d, <1>e, LaneFacts
       DEF DestroyImagePixels, DestroyPixelCache, ownerVars, ImagesTypeOK,
           OwnersTypeOK, LanesTypeOK, CachesTypeOK
<1>2. CachesTypeOK'
    BY <1>0, <1>a, <1>b, <1>c, <1>d, <1>e, LaneFacts
       DEF DestroyImagePixels, DestroyPixelCache, ownerVars, CachesTypeOK,
           OwnersTypeOK, LanesTypeOK, ImagesTypeOK
<1>3. OwnersTypeOK'
    BY <1>0, <1>a, <1>b, <1>c, <1>d, <1>e, LaneFacts
       DEF DestroyImagePixels, DestroyPixelCache, ownerVars, OwnersTypeOK,
           LanesTypeOK, CachesTypeOK
<1>4. LanesTypeOK'
    BY <1>0, <1>a, <1>b, <1>c, <1>d, <1>e, LaneFacts
       DEF DestroyImagePixels, DestroyPixelCache, ownerVars, LanesTypeOK,
           OwnersTypeOK, ImagesTypeOK, PC, Args
<1>5. BoundsTypeOK'
    BY <1>0, <1>a, <1>b, <1>c, <1>d, <1>e, LaneFacts, LimitAssumption
       DEF DestroyImagePixels, DestroyPixelCache, ownerVars, BoundsTypeOK
<1>6. ImageCountExact'
    BY <1>0, <1>a, <1>b, <1>c, <1>d, <1>e, LaneFacts
       DEF DestroyImagePixels, DestroyPixelCache, ownerVars, ImageCountExact,
           Holders, Viewers, Modifiers, LanesTypeOK
<1>7. CacheCountExact'
  <2> SUFFICES ASSUME NEW c \in Caches
               PROVE  crc'[c] = Cardinality(Users(c)') + Cardinality(Droppers(c)')
      BY DEF CacheCountExact
  <2>0. /\ crc[c] = Cardinality(Users(c)) + Cardinality(Droppers(c))
        /\ Cardinality(Users(c)) \in Nat /\ IsFiniteSet(Users(c))
        /\ Cardinality(Droppers(c)) \in Nat /\ IsFiniteSet(Droppers(c))
      BY <1>0, FiniteSets DEF CacheCountExact, ImagesTypeOK
  <2>1. CASE c = icache[limg[l]]
    <3>1. Users(c)' = Users(c) \ {limg[l]} /\ limg[l] \in Users(c)
        BY <1>0, <1>A, <1>a, <1>b, <2>1, LaneFacts
           DEF DestroyImagePixels, DestroyPixelCache, ownerVars, Users, ImagesTypeOK, CachesTypeOK, LanesTypeOK, OwnersTypeOK
    <3>2. Droppers(c)' = Droppers(c)
        BY <1>0, <1>A, <1>a, <1>b, <2>1, LaneFacts
           DEF DestroyImagePixels, DestroyPixelCache, ownerVars, Droppers, ImagesTypeOK, CachesTypeOK, LanesTypeOK, OwnersTypeOK
    <3>3. Cardinality(Users(c)') = Cardinality(Users(c)) - 1
        BY <2>0, <3>1, RemoveOne
    <3>4. crc'[c] = crc[c] - 1
        BY <1>0, <1>A, <1>a, <1>b, <2>1 DEF DestroyImagePixels, DestroyPixelCache, ownerVars, CachesTypeOK
    <3> QED
        BY <2>0, <3>1, <3>2, <3>3, <3>4, <1>0 DEF CachesTypeOK
  <2>2. CASE c # icache[limg[l]]
    <3>1. Users(c)' = Users(c)
        BY <1>0, <1>A, <1>a, <1>b, <2>2, LaneFacts
           DEF DestroyImagePixels, DestroyPixelCache, ownerVars, Users, ImagesTypeOK, CachesTypeOK, LanesTypeOK, OwnersTypeOK
    <3>2. Droppers(c)' = Droppers(c)
        BY <1>0, <1>A, <1>a, <1>b, <2>2, LaneFacts
           DEF DestroyImagePixels, DestroyPixelCache, ownerVars, Droppers, ImagesTypeOK, CachesTypeOK, LanesTypeOK, OwnersTypeOK
    <3>3. crc'[c] = crc[c]
        BY <1>0, <1>A, <1>a, <1>b, <2>2 DEF DestroyImagePixels, DestroyPixelCache, ownerVars, CachesTypeOK
    <3> QED
        BY <2>0, <3>1, <3>2, <3>3, <1>0 DEF CachesTypeOK
  <2> QED
      BY <2>1, <2>2
<1>8. DeadInv'
    BY <1>0, <1>a, <1>b, <1>c, <1>d, <1>e, LaneFacts
       DEF DestroyImagePixels, DestroyPixelCache, ownerVars, DeadInv,
           ImagesTypeOK, CachesTypeOK, OwnersTypeOK, LanesTypeOK
<1>9. LocksInv'
    BY <1>0, <1>a, <1>b, <1>c, <1>d, <1>e, LaneFacts
       DEF DestroyImagePixels, DestroyPixelCache, ownerVars, LocksInv,
           LanesTypeOK, ImagesTypeOK, CachesTypeOK, Locked, Writing
<1>10. ViewsInv'
    BY <1>0, <1>a, <1>b, <1>c, <1>d, <1>e, LaneFacts
       DEF DestroyImagePixels, DestroyPixelCache, ownerVars, ViewsInv,
           OwnersTypeOK
<1>11. ExclInv'
    BY <1>0, <1>a, <1>b, <1>c, <1>d, <1>e, LaneFacts
       DEF DestroyImagePixels, DestroyPixelCache, ownerVars, ExclInv, OwnersTypeOK
<1>12. ContentInv'
    BY <1>0, <1>a, <1>b, <1>c, <1>d, <1>e, LaneFacts
       DEF DestroyImagePixels, DestroyPixelCache, ownerVars, ContentInv,
           OwnersTypeOK, ImagesTypeOK, CachesTypeOK, DeadInv
<1>13. TeamInv'
    BY <1>0, <1>a, <1>b, <1>c, <1>d, <1>e, LaneFacts
       DEF DestroyImagePixels, DestroyPixelCache, ownerVars, TeamInv, LanesTypeOK,
           OwnersTypeOK, Writing, Locked, OwnCalls
<1>14. LocalsInv'
    BY <1>0, <1>a, <1>b, <1>c, <1>d, <1>e, LaneFacts
       DEF DestroyImagePixels, DestroyPixelCache, ownerVars, LocalsInv,
           LanesTypeOK, OwnersTypeOK, ImagesTypeOK, Writing, Locked, TeamInv,
           OwnCalls
<1>15. CloneInv'
    BY <1>0, <1>a, <1>b, <1>c, <1>d, <1>e, LaneFacts
       DEF DestroyImagePixels, DestroyPixelCache, ownerVars, CloneInv,
           LanesTypeOK, CloneTo
<1>16. ModifyInv'
    BY <1>0, <1>a, <1>b, <1>c, <1>d, <1>e, LaneFacts
       DEF DestroyImagePixels, DestroyPixelCache, ownerVars, ModifyInv,
           LanesTypeOK, ImagesTypeOK, OwnersTypeOK
<1>17. KillInv'
    BY <1>0, <1>a, <1>b, <1>c, <1>d, <1>e, LaneFacts
       DEF DestroyImagePixels, DestroyPixelCache, ownerVars, KillInv, LanesTypeOK,
           ImagesTypeOK, Writing
<1>18. FreeInv'
    BY <1>0, <1>a, <1>b, <1>c, <1>d, <1>e, LaneFacts
       DEF DestroyImagePixels, DestroyPixelCache, ownerVars, FreeInv, LanesTypeOK,
           CachesTypeOK
<1>19. HoldInv'
    BY <1>0, <1>a, <1>b, <1>c, <1>d, <1>e, LaneFacts, Named
       DEF DestroyImagePixels, DestroyPixelCache, ownerVars, HoldInv, LanesTypeOK,
           ImagesTypeOK, CachesTypeOK, Locked, Shared, Writing
<1>20. OwnedInv'
    BY <1>0, <1>a, <1>b, <1>c, <1>d, <1>e, LaneFacts, Named
       DEF DestroyImagePixels, DestroyPixelCache, ownerVars, OwnedInv,
           LanesTypeOK, ImagesTypeOK, CachesTypeOK, Writing, Locked
<1> QED
    BY <1>1, <1>2, <1>3, <1>4, <1>5, <1>6, <1>7, <1>8, <1>9, <1>10, <1>11, <1>12,
       <1>13, <1>14, <1>15, <1>16, <1>17, <1>18, <1>19, <1>20
       DEF IInv, TypeOK

LEMMA KillCacheInv ==
    ASSUME IInv, NEW l \in Lane, KillCache(l)
    PROVE  IInv'
<1>0. /\ ImagesTypeOK /\ CachesTypeOK /\ OwnersTypeOK /\ LanesTypeOK /\ BoundsTypeOK
      /\ ImageCountExact /\ CacheCountExact /\ DeadInv /\ LocksInv /\ ViewsInv
      /\ ExclInv /\ ContentInv /\ TeamInv /\ LocalsInv /\ CloneInv
      /\ ModifyInv /\ KillInv /\ FreeInv /\ HoldInv /\ OwnedInv
    BY DEF IInv, TypeOK
<1>A. pc[l] = "kill_cache"
    BY DEF KillCache
<1>a. /\ limg[l] \in Images /\ limg[l] \in ilive /\ ref[limg[l]] = 0
      /\ \A m \in Lane : pc[m] \in {"kill", "kill_cache", "kill_image"} /\ limg[m] = limg[l] => m = l
      /\ \A q \in Owners : handle[q] # limg[l]
      /\ \A m \in Lane :
           /\ pc[m] \in Writing \union {"clone_ref", "mod_clone", "mod_dec", "reading"} => limg[m] # limg[l]
           /\ pc[m] = "mod_dec" => lnew[m] # limg[l]
  <2>1. /\ limg[l] \in Images /\ limg[l] \in ilive /\ ref[limg[l]] = 0
        /\ \A m \in Lane : pc[m] \in {"kill", "kill_cache", "kill_image"} /\ limg[m] = limg[l] => m = l
      BY <1>A, <1>0, CallFacts DEF KillInv
  <2>2. \A q \in Owners : handle[q] # limg[l]
      BY <2>1, InUse, NullAssumption
  <2>3. \A m \in Lane :
          pc[m] \in Writing \union {"clone_ref", "mod_clone", "mod_dec", "reading"} => ref[limg[m]] > 0
      BY CallFacts
  <2>4. \A m \in Lane : pc[m] = "mod_dec" => ref[lnew[m]] = 1
      BY <1>0 DEF ModifyInv
  <2> QED
      BY <2>1, <2>2, <2>3, <2>4
<1>b. /\ lcache[l] \in Caches /\ lcache[l] \in clive /\ crc[lcache[l]] = 0
      /\ \A m \in Lane : pc[m] \in {"kill_cache", "drop_free"} /\ lcache[m] = lcache[l] => m = l
      /\ \A i \in ilive : icache[i] # lcache[l]
    BY <1>A, <1>0, CallFacts, HeldCache DEF FreeInv
<1>c. \A q \in Owners : handle[q] # NoImage =>
          handle[q] \in Images /\ icache[handle[q]] \in Caches /\ icache[handle[q]] # lcache[l]
    BY <1>b, InUse
<1>d. \A m \in Lane : pc[m] = "copy" => lcache[m] # lcache[l]
    BY <1>b, CallFacts DEF Writing, Locked
<1>1. ImagesTypeOK'
    BY <1>0, <1>a, <1>b, <1>c, <1>d, LaneFacts
       DEF KillCache, FreeCache, imageVars, ownerVars, ImagesTypeOK, OwnersTypeOK,
           LanesTypeOK, CachesTypeOK
<1>2. CachesTypeOK'
    BY <1>0, <1>a, <1>b, <1>c, <1>d, LaneFacts
       DEF KillCache, FreeCache, imageVars, ownerVars, CachesTypeOK, OwnersTypeOK,
           LanesTypeOK, ImagesTypeOK, Pixels
<1>3. OwnersTypeOK'
    BY <1>0, <1>a, <1>b, <1>c, <1>d, LaneFacts
       DEF KillCache, FreeCache, imageVars, ownerVars, OwnersTypeOK, LanesTypeOK,
           CachesTypeOK
<1>4. LanesTypeOK'
    BY <1>0, <1>a, <1>b, <1>c, <1>d, LaneFacts
       DEF KillCache, FreeCache, imageVars, ownerVars, LanesTypeOK, OwnersTypeOK,
           ImagesTypeOK, PC, Args
<1>5. BoundsTypeOK'
    BY <1>0, <1>a, <1>b, <1>c, <1>d, LaneFacts, LimitAssumption
       DEF KillCache, FreeCache, imageVars, ownerVars, BoundsTypeOK
<1>6. ImageCountExact'
    BY <1>0, <1>a, <1>b, <1>c, <1>d, LaneFacts
       DEF KillCache, FreeCache, imageVars, ownerVars, ImageCountExact, Holders,
           Viewers, Modifiers, LanesTypeOK
<1>7. CacheCountExact'
    BY <1>0, <1>a, <1>b, <1>c, <1>d, LaneFacts
       DEF KillCache, FreeCache, imageVars, ownerVars, CacheCountExact, Users,
           Droppers, LanesTypeOK
<1>8. DeadInv'
    BY <1>0, <1>a, <1>b, <1>c, <1>d, LaneFacts
       DEF KillCache, FreeCache, imageVars, ownerVars, DeadInv, ImagesTypeOK,
           CachesTypeOK, OwnersTypeOK, LanesTypeOK
<1>9. LocksInv'
    BY <1>0, <1>a, <1>b, <1>c, <1>d, LaneFacts
       DEF KillCache, FreeCache, imageVars, ownerVars, LocksInv, LanesTypeOK,
           ImagesTypeOK, CachesTypeOK, Locked, Writing
<1>10. ViewsInv'
    BY <1>0, <1>a, <1>b, <1>c, <1>d, LaneFacts
       DEF KillCache, FreeCache, imageVars, ownerVars, ViewsInv, OwnersTypeOK
<1>11. ExclInv'
    BY <1>0, <1>a, <1>b, <1>c, <1>d, LaneFacts
       DEF KillCache, FreeCache, imageVars, ownerVars, ExclInv, OwnersTypeOK
<1>12. ContentInv'
    BY <1>0, <1>a, <1>b, <1>c, <1>d, LaneFacts
       DEF KillCache, FreeCache, imageVars, ownerVars, ContentInv, OwnersTypeOK,
           ImagesTypeOK, CachesTypeOK, DeadInv
<1>13. TeamInv'
    BY <1>0, <1>a, <1>b, <1>c, <1>d, LaneFacts
       DEF KillCache, FreeCache, imageVars, ownerVars, TeamInv, LanesTypeOK,
           OwnersTypeOK, Writing, Locked, OwnCalls
<1>14. LocalsInv'
    BY <1>0, <1>a, <1>b, <1>c, <1>d, LaneFacts
       DEF KillCache, FreeCache, imageVars, ownerVars, LocalsInv, LanesTypeOK,
           OwnersTypeOK, ImagesTypeOK, Writing, Locked, TeamInv, OwnCalls
<1>15. CloneInv'
    BY <1>0, <1>a, <1>b, <1>c, <1>d, LaneFacts
       DEF KillCache, FreeCache, imageVars, ownerVars, CloneInv, LanesTypeOK,
           CloneTo
<1>16. ModifyInv'
    BY <1>0, <1>a, <1>b, <1>c, <1>d, LaneFacts
       DEF KillCache, FreeCache, imageVars, ownerVars, ModifyInv, LanesTypeOK,
           ImagesTypeOK, OwnersTypeOK
<1>17. KillInv'
    BY <1>0, <1>a, <1>b, <1>c, <1>d, LaneFacts
       DEF KillCache, FreeCache, imageVars, ownerVars, KillInv, LanesTypeOK,
           ImagesTypeOK, Writing
<1>18. FreeInv'
    BY <1>0, <1>a, <1>b, <1>c, <1>d, LaneFacts
       DEF KillCache, FreeCache, imageVars, ownerVars, FreeInv, LanesTypeOK,
           CachesTypeOK
<1>19. HoldInv'
    BY <1>0, <1>a, <1>b, <1>c, <1>d, LaneFacts, Named
       DEF KillCache, FreeCache, imageVars, ownerVars, HoldInv, LanesTypeOK,
           ImagesTypeOK, CachesTypeOK, Locked, Shared, Writing
<1>20. OwnedInv'
    BY <1>0, <1>a, <1>b, <1>c, <1>d, LaneFacts, Named
       DEF KillCache, FreeCache, imageVars, ownerVars, OwnedInv, LanesTypeOK,
           ImagesTypeOK, CachesTypeOK, Writing, Locked
<1> QED
    BY <1>1, <1>2, <1>3, <1>4, <1>5, <1>6, <1>7, <1>8, <1>9, <1>10, <1>11, <1>12,
       <1>13, <1>14, <1>15, <1>16, <1>17, <1>18, <1>19, <1>20
       DEF IInv, TypeOK

LEMMA KillImageInv ==
    ASSUME IInv, NEW l \in Lane, KillImage(l)
    PROVE  IInv'
<1>0. /\ ImagesTypeOK /\ CachesTypeOK /\ OwnersTypeOK /\ LanesTypeOK /\ BoundsTypeOK
      /\ ImageCountExact /\ CacheCountExact /\ DeadInv /\ LocksInv /\ ViewsInv
      /\ ExclInv /\ ContentInv /\ TeamInv /\ LocalsInv /\ CloneInv
      /\ ModifyInv /\ KillInv /\ FreeInv /\ HoldInv /\ OwnedInv
    BY DEF IInv, TypeOK
<1>A. pc[l] = "kill_image"
    BY DEF KillImage
<1>a. /\ limg[l] \in Images /\ limg[l] \in ilive /\ ref[limg[l]] = 0
      /\ \A m \in Lane : pc[m] \in {"kill", "kill_cache", "kill_image"} /\ limg[m] = limg[l] => m = l
      /\ \A q \in Owners : handle[q] # limg[l]
      /\ \A m \in Lane :
           /\ pc[m] \in Writing \union {"clone_ref", "mod_clone", "mod_dec", "reading"} => limg[m] # limg[l]
           /\ pc[m] = "mod_dec" => lnew[m] # limg[l]
  <2>1. /\ limg[l] \in Images /\ limg[l] \in ilive /\ ref[limg[l]] = 0
        /\ \A m \in Lane : pc[m] \in {"kill", "kill_cache", "kill_image"} /\ limg[m] = limg[l] => m = l
      BY <1>A, <1>0, CallFacts DEF KillInv
  <2>2. \A q \in Owners : handle[q] # limg[l]
      BY <2>1, InUse, NullAssumption
  <2>3. \A m \in Lane :
          pc[m] \in Writing \union {"clone_ref", "mod_clone", "mod_dec", "reading"} => ref[limg[m]] > 0
      BY CallFacts
  <2>4. \A m \in Lane : pc[m] = "mod_dec" => ref[lnew[m]] = 1
      BY <1>0 DEF ModifyInv
  <2> QED
      BY <2>1, <2>2, <2>3, <2>4
<1>b. icache[limg[l]] = NoCache
    BY <1>A, <1>0 DEF KillInv
<1>1. ImagesTypeOK'
    BY <1>0, <1>a, <1>b, LaneFacts
       DEF KillImage, Return, cacheVars, ownerVars, ImagesTypeOK, OwnersTypeOK,
           LanesTypeOK, CachesTypeOK
<1>2. CachesTypeOK'
    BY <1>0, <1>a, <1>b, LaneFacts
       DEF KillImage, Return, cacheVars, ownerVars, CachesTypeOK, OwnersTypeOK,
           LanesTypeOK, ImagesTypeOK
<1>3. OwnersTypeOK'
    BY <1>0, <1>a, <1>b, LaneFacts
       DEF KillImage, Return, cacheVars, ownerVars, OwnersTypeOK, LanesTypeOK,
           CachesTypeOK
<1>4. LanesTypeOK'
    BY <1>0, <1>a, <1>b, LaneFacts
       DEF KillImage, Return, cacheVars, ownerVars, LanesTypeOK, OwnersTypeOK,
           ImagesTypeOK, PC, Args
<1>5. BoundsTypeOK'
    BY <1>0, <1>a, <1>b, LaneFacts, LimitAssumption
       DEF KillImage, Return, cacheVars, ownerVars, BoundsTypeOK
<1>6. ImageCountExact'
    BY <1>0, <1>a, <1>b, LaneFacts
       DEF KillImage, Return, cacheVars, ownerVars, ImageCountExact, Holders,
           Viewers, Modifiers, LanesTypeOK
<1>7. CacheCountExact'
  <2> SUFFICES ASSUME NEW c \in Caches
               PROVE  crc'[c] = Cardinality(Users(c)') + Cardinality(Droppers(c)')
      BY DEF CacheCountExact
  <2>0. /\ crc[c] = Cardinality(Users(c)) + Cardinality(Droppers(c))
        /\ Cardinality(Users(c)) \in Nat /\ IsFiniteSet(Users(c))
        /\ Cardinality(Droppers(c)) \in Nat /\ IsFiniteSet(Droppers(c))
      BY <1>0, FiniteSets DEF CacheCountExact, ImagesTypeOK
  <2>1. CASE c \in Caches
    <3>1. Users(c)' = Users(c)
        BY <1>0, <1>A, <1>a, <1>b, <2>1, LaneFacts
           DEF KillImage, Return, cacheVars, ownerVars, Users, ImagesTypeOK, CachesTypeOK, LanesTypeOK, OwnersTypeOK
    <3>2. Droppers(c)' = Droppers(c)
        BY <1>0, <1>A, <1>a, <1>b, <2>1, LaneFacts
           DEF KillImage, Return, cacheVars, ownerVars, Droppers, ImagesTypeOK, CachesTypeOK, LanesTypeOK, OwnersTypeOK
    <3>3. crc'[c] = crc[c]
        BY <1>0, <1>A, <1>a, <1>b, <2>1 DEF KillImage, Return, cacheVars, ownerVars, CachesTypeOK
    <3> QED
        BY <2>0, <3>1, <3>2, <3>3, <1>0 DEF CachesTypeOK
  <2> QED
      BY <2>1
<1>8. DeadInv'
    BY <1>0, <1>a, <1>b, LaneFacts
       DEF KillImage, Return, cacheVars, ownerVars, DeadInv, ImagesTypeOK,
           CachesTypeOK, OwnersTypeOK, LanesTypeOK
<1>9. LocksInv'
    BY <1>0, <1>a, <1>b, LaneFacts
       DEF KillImage, Return, cacheVars, ownerVars, LocksInv, LanesTypeOK,
           ImagesTypeOK, CachesTypeOK, Locked, Writing
<1>10. ViewsInv'
    BY <1>0, <1>a, <1>b, LaneFacts
       DEF KillImage, Return, cacheVars, ownerVars, ViewsInv, OwnersTypeOK
<1>11. ExclInv'
    BY <1>0, <1>a, <1>b, LaneFacts
       DEF KillImage, Return, cacheVars, ownerVars, ExclInv, OwnersTypeOK
<1>12. ContentInv'
    BY <1>0, <1>a, <1>b, LaneFacts
       DEF KillImage, Return, cacheVars, ownerVars, ContentInv, OwnersTypeOK,
           ImagesTypeOK, CachesTypeOK, DeadInv
<1>13. TeamInv'
    BY <1>0, <1>a, <1>b, LaneFacts
       DEF KillImage, Return, cacheVars, ownerVars, TeamInv, LanesTypeOK,
           OwnersTypeOK, Writing, Locked, OwnCalls
<1>14. LocalsInv'
    BY <1>0, <1>a, <1>b, LaneFacts
       DEF KillImage, Return, cacheVars, ownerVars, LocalsInv, LanesTypeOK,
           OwnersTypeOK, ImagesTypeOK, Writing, Locked, TeamInv, OwnCalls
<1>15. CloneInv'
    BY <1>0, <1>a, <1>b, LaneFacts
       DEF KillImage, Return, cacheVars, ownerVars, CloneInv, LanesTypeOK, CloneTo
<1>16. ModifyInv'
    BY <1>0, <1>a, <1>b, LaneFacts
       DEF KillImage, Return, cacheVars, ownerVars, ModifyInv, LanesTypeOK,
           ImagesTypeOK, OwnersTypeOK
<1>17. KillInv'
    BY <1>0, <1>a, <1>b, LaneFacts
       DEF KillImage, Return, cacheVars, ownerVars, KillInv, LanesTypeOK,
           ImagesTypeOK, Writing
<1>18. FreeInv'
    BY <1>0, <1>a, <1>b, LaneFacts
       DEF KillImage, Return, cacheVars, ownerVars, FreeInv, LanesTypeOK,
           CachesTypeOK
<1>19. HoldInv'
    BY <1>0, <1>a, <1>b, LaneFacts, Named
       DEF KillImage, Return, cacheVars, ownerVars, HoldInv, LanesTypeOK,
           ImagesTypeOK, CachesTypeOK, Locked, Shared, Writing
<1>20. OwnedInv'
    BY <1>0, <1>a, <1>b, LaneFacts, Named
       DEF KillImage, Return, cacheVars, ownerVars, OwnedInv, LanesTypeOK,
           ImagesTypeOK, CachesTypeOK, Writing, Locked
<1> QED
    BY <1>1, <1>2, <1>3, <1>4, <1>5, <1>6, <1>7, <1>8, <1>9, <1>10, <1>11, <1>12,
       <1>13, <1>14, <1>15, <1>16, <1>17, <1>18, <1>19, <1>20
       DEF IInv, TypeOK

LEMMA GetImagePixelCacheInv ==
    ASSUME IInv, NEW l \in Lane, NEW arg \in Writes \union {Sync}, NEW resize \in BOOLEAN, GetImagePixelCache(l, arg, resize)
    PROVE  IInv'
<1>0. /\ ImagesTypeOK /\ CachesTypeOK /\ OwnersTypeOK /\ LanesTypeOK /\ BoundsTypeOK
      /\ ImageCountExact /\ CacheCountExact /\ DeadInv /\ LocksInv /\ ViewsInv
      /\ ExclInv /\ ContentInv /\ TeamInv /\ LocalsInv /\ CloneInv
      /\ ModifyInv /\ KillInv /\ FreeInv /\ HoldInv /\ OwnedInv
    BY DEF IInv, TypeOK
<1>a. /\ handle[Owner(l)] \in Images /\ handle[Owner(l)] \in ilive
      /\ icache[handle[Owner(l)]] \in Caches /\ crc[icache[handle[Owner(l)]]] > 0
      /\ handle[Owner(l)] # NoImage /\ excl[Owner(l)]
    BY InUse, LaneFacts DEF GetImagePixelCache, MayCall
<1>1. ImagesTypeOK'
    BY <1>0, <1>a, LaneFacts
       DEF GetImagePixelCache, MayCall, Quiet, Call, cacheVars, ownerVars,
           ImagesTypeOK, OwnersTypeOK, LanesTypeOK, CachesTypeOK
<1>2. CachesTypeOK'
    BY <1>0, <1>a, LaneFacts
       DEF GetImagePixelCache, MayCall, Quiet, Call, cacheVars, ownerVars,
           CachesTypeOK, OwnersTypeOK, LanesTypeOK, ImagesTypeOK
<1>3. OwnersTypeOK'
    BY <1>0, <1>a, LaneFacts
       DEF GetImagePixelCache, MayCall, Quiet, Call, cacheVars, ownerVars,
           OwnersTypeOK, LanesTypeOK, CachesTypeOK
<1>4. LanesTypeOK'
    BY <1>0, <1>a, LaneFacts
       DEF GetImagePixelCache, MayCall, Quiet, Call, cacheVars, ownerVars,
           LanesTypeOK, OwnersTypeOK, ImagesTypeOK, PC, Args
<1>5. BoundsTypeOK'
    BY <1>0, <1>a, LaneFacts, LimitAssumption
       DEF GetImagePixelCache, MayCall, Quiet, Call, cacheVars, ownerVars,
           BoundsTypeOK
<1>6. ImageCountExact'
    BY <1>0, <1>a, LaneFacts
       DEF GetImagePixelCache, MayCall, Quiet, Call, cacheVars, ownerVars,
           ImageCountExact, Holders, Viewers, Modifiers, LanesTypeOK
<1>7. CacheCountExact'
    BY <1>0, <1>a, LaneFacts
       DEF GetImagePixelCache, MayCall, Quiet, Call, cacheVars, ownerVars,
           CacheCountExact, Users, Droppers, LanesTypeOK
<1>8. DeadInv'
    BY <1>0, <1>a, LaneFacts
       DEF GetImagePixelCache, MayCall, Quiet, Call, cacheVars, ownerVars,
           DeadInv, ImagesTypeOK, CachesTypeOK, OwnersTypeOK, LanesTypeOK
<1>9. LocksInv'
    BY <1>0, <1>a, LaneFacts
       DEF GetImagePixelCache, MayCall, Quiet, Call, cacheVars, ownerVars,
           LocksInv, LanesTypeOK, ImagesTypeOK, CachesTypeOK, Locked, Writing
<1>10. ViewsInv'
    BY <1>0, <1>a, LaneFacts
       DEF GetImagePixelCache, MayCall, Quiet, Call, cacheVars, ownerVars,
           ViewsInv, OwnersTypeOK
<1>11. ExclInv'
    BY <1>0, <1>a, LaneFacts
       DEF GetImagePixelCache, MayCall, Quiet, Call, cacheVars, ownerVars,
           ExclInv, OwnersTypeOK
<1>12. ContentInv'
    BY <1>0, <1>a, LaneFacts
       DEF GetImagePixelCache, MayCall, Quiet, Call, cacheVars, ownerVars,
           ContentInv, OwnersTypeOK, ImagesTypeOK, CachesTypeOK, DeadInv
<1>13. TeamInv'
    BY <1>0, <1>a, LaneFacts
       DEF GetImagePixelCache, MayCall, Quiet, Call, cacheVars, ownerVars,
           TeamInv, LanesTypeOK, OwnersTypeOK, Writing, Locked, OwnCalls
<1>14. LocalsInv'
    BY <1>0, <1>a, LaneFacts
       DEF GetImagePixelCache, MayCall, Quiet, Call, cacheVars, ownerVars,
           LocalsInv, LanesTypeOK, OwnersTypeOK, ImagesTypeOK, Writing, Locked,
           TeamInv, OwnCalls
<1>15. CloneInv'
    BY <1>0, <1>a, LaneFacts
       DEF GetImagePixelCache, MayCall, Quiet, Call, cacheVars, ownerVars,
           CloneInv, LanesTypeOK, CloneTo
<1>16. ModifyInv'
    BY <1>0, <1>a, LaneFacts
       DEF GetImagePixelCache, MayCall, Quiet, Call, cacheVars, ownerVars,
           ModifyInv, LanesTypeOK, ImagesTypeOK, OwnersTypeOK
<1>17. KillInv'
    BY <1>0, <1>a, LaneFacts
       DEF GetImagePixelCache, MayCall, Quiet, Call, cacheVars, ownerVars,
           KillInv, LanesTypeOK, ImagesTypeOK, Writing
<1>18. FreeInv'
    BY <1>0, <1>a, LaneFacts
       DEF GetImagePixelCache, MayCall, Quiet, Call, cacheVars, ownerVars,
           FreeInv, LanesTypeOK, CachesTypeOK
<1>19. HoldInv'
    BY <1>0, <1>a, LaneFacts, Named
       DEF GetImagePixelCache, MayCall, Quiet, Call, cacheVars, ownerVars,
           HoldInv, LanesTypeOK, ImagesTypeOK, CachesTypeOK, Locked, Shared,
           Writing
<1>20. OwnedInv'
    BY <1>0, <1>a, LaneFacts, Named
       DEF GetImagePixelCache, MayCall, Quiet, Call, cacheVars, ownerVars,
           OwnedInv, LanesTypeOK, ImagesTypeOK, CachesTypeOK, Writing, Locked,
           Shared
<1> QED
    BY <1>1, <1>2, <1>3, <1>4, <1>5, <1>6, <1>7, <1>8, <1>9, <1>10, <1>11, <1>12,
       <1>13, <1>14, <1>15, <1>16, <1>17, <1>18, <1>19, <1>20
       DEF IInv, TypeOK

LEMMA CopyCacheInv ==
    ASSUME IInv, NEW l \in Lane, CopyCache(l)
    PROVE  IInv'
<1>0. /\ ImagesTypeOK /\ CachesTypeOK /\ OwnersTypeOK /\ LanesTypeOK /\ BoundsTypeOK
      /\ ImageCountExact /\ CacheCountExact /\ DeadInv /\ LocksInv /\ ViewsInv
      /\ ExclInv /\ ContentInv /\ TeamInv /\ LocalsInv /\ CloneInv
      /\ ModifyInv /\ KillInv /\ FreeInv /\ HoldInv /\ OwnedInv
    BY DEF IInv, TypeOK
<1>A. pc[l] = "copy"
    BY DEF CopyCache
<1>a. /\ limg[l] \in Images /\ ref[limg[l]] > 0 /\ limg[l] \in ilive
      /\ icache[limg[l]] \in clive /\ icache[limg[l]] \in Caches
      /\ crc[icache[limg[l]]] > 0 /\ limg[l] = handle[Owner(l)]
      /\ handle[Owner(l)] # NoImage
      /\ lcache[l] = icache[limg[l]]
    BY <1>A, CallFacts DEF Writing, Locked
<1>b. RoomForCache
    BY DEF CopyCache
<1>c. /\ FreshCache \in Caches /\ FreshCache \notin clive /\ crc[FreshCache] = 0
      /\ \A i \in ilive : icache[i] # FreshCache
      /\ \A m \in Lane :
           pc[m] \in {"kill_cache", "drop_free", "drop", "pixels", "clone_ref", "mod_clone",
                      "mod_dec", "recheck", "copy", "reading"} => lcache[m] # FreshCache
      /\ clock[FreshCache] = NoLane /\ FreshCache # NoCache
    BY <1>b, FreshCacheFacts
<1>d. \A o \in Owners : handle[o] = limg[l] => o = Owner(l)
    BY <1>A, <1>a, <1>0, LaneFacts DEF TeamInv, ExclInv, Writing, Locked
<1>e. ilock[limg[l]] = l /\ clock[lcache[l]] = l
    BY <1>A, <1>0 DEF HoldInv, Locked
<1>f. \A m \in Lane :
          pc[m] \in {"pixels", "clone_ref", "mod_clone", "mod_dec", "recheck", "copy", "reading"}
            /\ limg[m] = limg[l] => m = l
  <2> SUFFICES ASSUME NEW m \in Lane, limg[m] = limg[l], m # l,
                      pc[m] \in {"pixels", "clone_ref", "mod_clone", "mod_dec", "recheck",
                                "copy", "reading"}
               PROVE  FALSE
      OBVIOUS
  <2>1. Owner(m) = Owner(l)
      BY <1>a, <1>d, CallFacts, LaneFacts DEF Writing, Locked
  <2>2. pc[m] \notin {"recheck", "copy"}
      BY <1>0, <1>e DEF HoldInv, Locked
  <2>3. pc[m] # "pixels"
      BY <1>A, <1>a, <1>0 DEF HoldInv, OwnedInv, Shared
  <2>4. l = Main(Owner(l)) \/ view[Owner(l)] # NoImage
      BY <1>A, <1>0 DEF TeamInv
  <2>5. CASE pc[m] = "reading"
    <3>1. vkind[Owner(l)] # "virtual" /\ vkind[Owner(l)] # "authentic"
        BY <1>A, <1>0, <2>1, <2>5 DEF TeamInv, Writing, Locked
    <3>2. view[Owner(l)] = NoImage
        BY <1>0, <3>1, LaneFacts DEF ViewsInv, OwnersTypeOK
    <3>3. m = Main(Owner(m))
        BY <1>0, <2>1, <2>5, <3>2 DEF TeamInv
    <3> QED
        BY <2>1, <2>4, <3>2, <3>3
  <2>6. CASE pc[m] \in {"clone_ref", "mod_clone", "mod_dec"}
    <3>1. m = Main(Owner(m)) /\ view[Owner(m)] = NoImage
        BY <1>0, <2>6 DEF TeamInv, OwnCalls
    <3> QED
        BY <2>1, <2>4, <3>1
  <2> QED
      BY <2>2, <2>3, <2>5, <2>6
<1>1. ImagesTypeOK'
    BY <1>0, <1>a, <1>b, <1>c, <1>d, <1>e, <1>f, LaneFacts
       DEF CopyCache, NewCache, ownerVars, ImagesTypeOK, OwnersTypeOK,
           LanesTypeOK, CachesTypeOK
<1>2. CachesTypeOK'
    BY <1>0, <1>a, <1>b, <1>c, <1>d, <1>e, <1>f, LaneFacts
       DEF CopyCache, NewCache, ownerVars, CachesTypeOK, OwnersTypeOK,
           LanesTypeOK, ImagesTypeOK, CopyOf, Pixels
<1>3. OwnersTypeOK'
    BY <1>0, <1>a, <1>b, <1>c, <1>d, <1>e, <1>f, LaneFacts
       DEF CopyCache, NewCache, ownerVars, OwnersTypeOK, LanesTypeOK,
           CachesTypeOK, CopyOf, Pixels
<1>4. LanesTypeOK'
    BY <1>0, <1>a, <1>b, <1>c, <1>d, <1>e, <1>f, LaneFacts
       DEF CopyCache, NewCache, ownerVars, LanesTypeOK, OwnersTypeOK,
           ImagesTypeOK, PC, Args
<1>5. BoundsTypeOK'
    BY <1>0, <1>a, <1>b, <1>c, <1>d, <1>e, <1>f, LaneFacts, LimitAssumption
       DEF CopyCache, NewCache, ownerVars, BoundsTypeOK
<1>6. ImageCountExact'
    BY <1>0, <1>a, <1>b, <1>c, <1>d, <1>e, <1>f, LaneFacts
       DEF CopyCache, NewCache, ownerVars, ImageCountExact, Holders, Viewers,
           Modifiers, LanesTypeOK
<1>7. CacheCountExact'
  <2> SUFFICES ASSUME NEW c \in Caches
               PROVE  crc'[c] = Cardinality(Users(c)') + Cardinality(Droppers(c)')
      BY DEF CacheCountExact
  <2>0. /\ crc[c] = Cardinality(Users(c)) + Cardinality(Droppers(c))
        /\ Cardinality(Users(c)) \in Nat /\ IsFiniteSet(Users(c))
        /\ Cardinality(Droppers(c)) \in Nat /\ IsFiniteSet(Droppers(c))
      BY <1>0, FiniteSets DEF CacheCountExact, ImagesTypeOK
  <2>1. CASE c = FreshCache
    <3>1. Users(c)' = Users(c) \union {limg[l]} /\ limg[l] \notin Users(c)
        BY <1>0, <1>A, <1>a, <1>c, <2>1, LaneFacts
           DEF CopyCache, NewCache, ownerVars, Users, ImagesTypeOK, CachesTypeOK, LanesTypeOK, OwnersTypeOK
    <3>2. Droppers(c)' = Droppers(c)
        BY <1>0, <1>A, <1>a, <1>c, <2>1, LaneFacts
           DEF CopyCache, NewCache, ownerVars, Droppers, ImagesTypeOK, CachesTypeOK, LanesTypeOK, OwnersTypeOK
    <3>3. Cardinality(Users(c)') = Cardinality(Users(c)) + 1
        BY <2>0, <3>1, AddOne
    <3>4. crc'[c] = crc[c] + 1
        BY <1>0, <1>A, <1>a, <1>c, <2>1 DEF CopyCache, NewCache, ownerVars, CachesTypeOK
    <3> QED
        BY <2>0, <3>1, <3>2, <3>3, <3>4, <1>0 DEF CachesTypeOK
  <2>2. CASE c = lcache[l]
    <3>1. Users(c)' = Users(c) \ {limg[l]} /\ limg[l] \in Users(c)
        BY <1>0, <1>A, <1>a, <1>c, <2>2, LaneFacts
           DEF CopyCache, NewCache, ownerVars, Users, ImagesTypeOK, CachesTypeOK, LanesTypeOK, OwnersTypeOK
    <3>2. Droppers(c)' = Droppers(c) \union {l} /\ l \notin Droppers(c)
        BY <1>0, <1>A, <1>a, <1>c, <2>2, LaneFacts
           DEF CopyCache, NewCache, ownerVars, Droppers, ImagesTypeOK, CachesTypeOK, LanesTypeOK, OwnersTypeOK
    <3>3. Cardinality(Users(c)') = Cardinality(Users(c)) - 1
        BY <2>0, <3>1, RemoveOne
    <3>4. Cardinality(Droppers(c)') = Cardinality(Droppers(c)) + 1
        BY <2>0, <3>2, AddOne
    <3>5. crc'[c] = crc[c]
        BY <1>0, <1>A, <1>a, <1>c, <2>2 DEF CopyCache, NewCache, ownerVars, CachesTypeOK
    <3> QED
        BY <2>0, <3>1, <3>2, <3>3, <3>4, <3>5, <1>0 DEF CachesTypeOK
  <2>3. CASE c # FreshCache /\ c # lcache[l]
    <3>1. Users(c)' = Users(c)
        BY <1>0, <1>A, <1>a, <1>c, <2>3, LaneFacts
           DEF CopyCache, NewCache, ownerVars, Users, ImagesTypeOK, CachesTypeOK, LanesTypeOK, OwnersTypeOK
    <3>2. Droppers(c)' = Droppers(c)
        BY <1>0, <1>A, <1>a, <1>c, <2>3, LaneFacts
           DEF CopyCache, NewCache, ownerVars, Droppers, ImagesTypeOK, CachesTypeOK, LanesTypeOK, OwnersTypeOK
    <3>3. crc'[c] = crc[c]
        BY <1>0, <1>A, <1>a, <1>c, <2>3 DEF CopyCache, NewCache, ownerVars, CachesTypeOK
    <3> QED
        BY <2>0, <3>1, <3>2, <3>3, <1>0 DEF CachesTypeOK
  <2> QED
      BY <2>1, <2>2, <2>3
<1>8. DeadInv'
    BY <1>0, <1>a, <1>b, <1>c, <1>d, <1>e, <1>f, LaneFacts
       DEF CopyCache, NewCache, ownerVars, DeadInv, ImagesTypeOK, CachesTypeOK,
           OwnersTypeOK, LanesTypeOK
<1>9. LocksInv'
    BY <1>0, <1>a, <1>b, <1>c, <1>d, <1>e, <1>f, LaneFacts
       DEF CopyCache, NewCache, ownerVars, LocksInv, LanesTypeOK, ImagesTypeOK,
           CachesTypeOK, Locked, Writing
<1>10. ViewsInv'
    BY <1>0, <1>a, <1>b, <1>c, <1>d, <1>e, <1>f, LaneFacts
       DEF CopyCache, NewCache, ownerVars, ViewsInv, OwnersTypeOK
<1>11. ExclInv'
    BY <1>0, <1>a, <1>b, <1>c, <1>d, <1>e, <1>f, LaneFacts
       DEF CopyCache, NewCache, ownerVars, ExclInv, OwnersTypeOK
<1>12. ContentInv'
  <2> SUFFICES ASSUME NEW q \in Owners, handle'[q] # NoImage
               PROVE  content'[q] = cval'[icache'[handle'[q]]]
      BY DEF ContentInv
  <2>1. CASE q = Owner(l)
      BY <1>0, <1>A, <1>a, <1>c, <1>d, <2>1, LaneFacts
         DEF CopyCache, NewCache, ownerVars, ContentInv, ImagesTypeOK, CachesTypeOK, OwnersTypeOK, Pixels
  <2>2. CASE q # Owner(l)
    <3>1. handle'[q] = handle[q] /\ content'[q] = content[q]
        BY <1>0, <1>A, <1>a, <1>c, <1>d, <2>2, LaneFacts DEF CopyCache, NewCache, ownerVars, OwnersTypeOK
    <3>2. /\ handle[q] \in Images /\ handle[q] \in ilive
          /\ icache[handle[q]] \in Caches /\ icache[handle[q]] \in clive
          /\ content[q] = cval[icache[handle[q]]]
        BY <1>0, <3>1, InUse DEF ContentInv
    <3>3. icache'[handle[q]] = icache[handle[q]]
        BY <1>0, <1>A, <1>a, <1>c, <1>d, <2>2, <3>2, LaneFacts DEF CopyCache, NewCache, ownerVars, ImagesTypeOK
    <3>4. cval'[icache[handle[q]]] = cval[icache[handle[q]]]
        BY <1>0, <1>A, <1>a, <1>c, <1>d, <2>2, <3>2, LaneFacts DEF CopyCache, NewCache, ownerVars, CachesTypeOK
    <3> QED
        BY <3>1, <3>2, <3>3, <3>4
  <2> QED
      BY <2>1, <2>2
<1>13. TeamInv'
    BY <1>0, <1>a, <1>b, <1>c, <1>d, <1>e, <1>f, LaneFacts
       DEF CopyCache, NewCache, ownerVars, TeamInv, LanesTypeOK, OwnersTypeOK,
           Writing, Locked, OwnCalls
<1>14. LocalsInv'
    BY <1>0, <1>a, <1>b, <1>c, <1>d, <1>e, <1>f, LaneFacts
       DEF CopyCache, NewCache, ownerVars, LocalsInv, LanesTypeOK, OwnersTypeOK,
           ImagesTypeOK, Writing, Locked, TeamInv, OwnCalls, HoldInv
<1>15. CloneInv'
    BY <1>0, <1>a, <1>b, <1>c, <1>d, <1>e, <1>f, LaneFacts
       DEF CopyCache, NewCache, ownerVars, CloneInv, LanesTypeOK, CloneTo
<1>16. ModifyInv'
    BY <1>0, <1>a, <1>b, <1>c, <1>d, <1>e, <1>f, LaneFacts
       DEF CopyCache, NewCache, ownerVars, ModifyInv, LanesTypeOK, ImagesTypeOK,
           OwnersTypeOK
<1>17. KillInv'
    BY <1>0, <1>a, <1>b, <1>c, <1>d, <1>e, <1>f, LaneFacts
       DEF CopyCache, NewCache, ownerVars, KillInv, LanesTypeOK, ImagesTypeOK,
           Writing
<1>18. FreeInv'
    BY <1>0, <1>a, <1>b, <1>c, <1>d, <1>e, <1>f, LaneFacts
       DEF CopyCache, NewCache, ownerVars, FreeInv, LanesTypeOK, CachesTypeOK
<1>19. HoldInv'
    BY <1>0, <1>a, <1>b, <1>c, <1>d, <1>e, <1>f, LaneFacts, Named
       DEF CopyCache, NewCache, ownerVars, HoldInv, LanesTypeOK, ImagesTypeOK,
           CachesTypeOK, Locked, Shared, Writing
<1>20. OwnedInv'
    BY <1>0, <1>a, <1>b, <1>c, <1>d, <1>e, <1>f, LaneFacts, Named
       DEF CopyCache, NewCache, ownerVars, OwnedInv, LanesTypeOK, ImagesTypeOK,
           CachesTypeOK, Writing, Locked, HoldInv, Shared
<1> QED
    BY <1>1, <1>2, <1>3, <1>4, <1>5, <1>6, <1>7, <1>8, <1>9, <1>10, <1>11, <1>12,
       <1>13, <1>14, <1>15, <1>16, <1>17, <1>18, <1>19, <1>20
       DEF IInv, TypeOK

LEMMA CopyFailsInv ==
    ASSUME IInv, NEW l \in Lane, CopyFails(l)
    PROVE  IInv'
<1>0. /\ ImagesTypeOK /\ CachesTypeOK /\ OwnersTypeOK /\ LanesTypeOK /\ BoundsTypeOK
      /\ ImageCountExact /\ CacheCountExact /\ DeadInv /\ LocksInv /\ ViewsInv
      /\ ExclInv /\ ContentInv /\ TeamInv /\ LocalsInv /\ CloneInv
      /\ ModifyInv /\ KillInv /\ FreeInv /\ HoldInv /\ OwnedInv
    BY DEF IInv, TypeOK
<1>A. pc[l] = "copy"
    BY DEF CopyFails
<1>a. /\ limg[l] \in Images /\ ref[limg[l]] > 0 /\ limg[l] \in ilive
      /\ icache[limg[l]] \in clive /\ icache[limg[l]] \in Caches
      /\ crc[icache[limg[l]]] > 0 /\ limg[l] = handle[Owner(l)]
      /\ handle[Owner(l)] # NoImage
      /\ lcache[l] = icache[limg[l]]
    BY <1>A, CallFacts DEF Writing, Locked
<1>1. ImagesTypeOK'
    BY <1>0, <1>a, LaneFacts
       DEF CopyFails, Return, ownerVars, ImagesTypeOK, OwnersTypeOK, LanesTypeOK,
           CachesTypeOK
<1>2. CachesTypeOK'
    BY <1>0, <1>a, LaneFacts
       DEF CopyFails, Return, ownerVars, CachesTypeOK, OwnersTypeOK, LanesTypeOK,
           ImagesTypeOK
<1>3. OwnersTypeOK'
    BY <1>0, <1>a, LaneFacts
       DEF CopyFails, Return, ownerVars, OwnersTypeOK, LanesTypeOK, CachesTypeOK
<1>4. LanesTypeOK'
    BY <1>0, <1>a, LaneFacts
       DEF CopyFails, Return, ownerVars, LanesTypeOK, OwnersTypeOK, ImagesTypeOK,
           PC, Args
<1>5. BoundsTypeOK'
    BY <1>0, <1>a, LaneFacts, LimitAssumption
       DEF CopyFails, Return, ownerVars, BoundsTypeOK
<1>6. ImageCountExact'
    BY <1>0, <1>a, LaneFacts
       DEF CopyFails, Return, ownerVars, ImageCountExact, Holders, Viewers,
           Modifiers, LanesTypeOK
<1>7. CacheCountExact'
    BY <1>0, <1>a, LaneFacts
       DEF CopyFails, Return, ownerVars, CacheCountExact, Users, Droppers,
           LanesTypeOK
<1>8. DeadInv'
    BY <1>0, <1>a, LaneFacts
       DEF CopyFails, Return, ownerVars, DeadInv, ImagesTypeOK, CachesTypeOK,
           OwnersTypeOK, LanesTypeOK
<1>9. LocksInv'
    BY <1>0, <1>a, LaneFacts
       DEF CopyFails, Return, ownerVars, LocksInv, LanesTypeOK, ImagesTypeOK,
           CachesTypeOK, Locked, Writing
<1>10. ViewsInv'
    BY <1>0, <1>a, LaneFacts
       DEF CopyFails, Return, ownerVars, ViewsInv, OwnersTypeOK
<1>11. ExclInv'
    BY <1>0, <1>a, LaneFacts
       DEF CopyFails, Return, ownerVars, ExclInv, OwnersTypeOK
<1>12. ContentInv'
    BY <1>0, <1>a, LaneFacts
       DEF CopyFails, Return, ownerVars, ContentInv, OwnersTypeOK, ImagesTypeOK,
           CachesTypeOK, DeadInv
<1>13. TeamInv'
    BY <1>0, <1>a, LaneFacts
       DEF CopyFails, Return, ownerVars, TeamInv, LanesTypeOK, OwnersTypeOK,
           Writing, Locked, OwnCalls
<1>14. LocalsInv'
    BY <1>0, <1>a, LaneFacts
       DEF CopyFails, Return, ownerVars, LocalsInv, LanesTypeOK, OwnersTypeOK,
           ImagesTypeOK, Writing, Locked, TeamInv, OwnCalls
<1>15. CloneInv'
    BY <1>0, <1>a, LaneFacts
       DEF CopyFails, Return, ownerVars, CloneInv, LanesTypeOK, CloneTo
<1>16. ModifyInv'
    BY <1>0, <1>a, LaneFacts
       DEF CopyFails, Return, ownerVars, ModifyInv, LanesTypeOK, ImagesTypeOK,
           OwnersTypeOK
<1>17. KillInv'
    BY <1>0, <1>a, LaneFacts
       DEF CopyFails, Return, ownerVars, KillInv, LanesTypeOK, ImagesTypeOK,
           Writing
<1>18. FreeInv'
    BY <1>0, <1>a, LaneFacts
       DEF CopyFails, Return, ownerVars, FreeInv, LanesTypeOK, CachesTypeOK
<1>19. HoldInv'
    BY <1>0, <1>a, LaneFacts, Named
       DEF CopyFails, Return, ownerVars, HoldInv, LanesTypeOK, ImagesTypeOK,
           CachesTypeOK, Locked, Shared, Writing
<1>20. OwnedInv'
    BY <1>0, <1>a, LaneFacts, Named
       DEF CopyFails, Return, ownerVars, OwnedInv, LanesTypeOK, ImagesTypeOK,
           CachesTypeOK, Writing, Locked
<1> QED
    BY <1>1, <1>2, <1>3, <1>4, <1>5, <1>6, <1>7, <1>8, <1>9, <1>10, <1>11, <1>12,
       <1>13, <1>14, <1>15, <1>16, <1>17, <1>18, <1>19, <1>20
       DEF IInv, TypeOK

LEMMA DropOldInv ==
    ASSUME IInv, NEW l \in Lane, DropOld(l)
    PROVE  IInv'
<1>0. /\ ImagesTypeOK /\ CachesTypeOK /\ OwnersTypeOK /\ LanesTypeOK /\ BoundsTypeOK
      /\ ImageCountExact /\ CacheCountExact /\ DeadInv /\ LocksInv /\ ViewsInv
      /\ ExclInv /\ ContentInv /\ TeamInv /\ LocalsInv /\ CloneInv
      /\ ModifyInv /\ KillInv /\ FreeInv /\ HoldInv /\ OwnedInv
    BY DEF IInv, TypeOK
<1>A. pc[l] = "drop"
    BY DEF DropOld
<1>a. /\ limg[l] \in Images /\ ref[limg[l]] > 0 /\ limg[l] \in ilive
      /\ icache[limg[l]] \in clive /\ icache[limg[l]] \in Caches
      /\ crc[icache[limg[l]]] > 0 /\ limg[l] = handle[Owner(l)]
      /\ handle[Owner(l)] # NoImage
      /\ lcache[l] \in Caches /\ lcache[l] \in clive /\ crc[lcache[l]] > 0
    BY <1>A, CallFacts DEF Writing, Locked
<1>b. \A m \in Lane : pc[m] \in {"drop", "drop_free", "validate", "return", "pixels"} =>
          icache[limg[m]] # lcache[l]
    BY <1>A, Alone
<1>d. \A m \in Lane : pc[m] \in {"kill_cache", "drop_free"} => lcache[m] # lcache[l]
    BY <1>0, <1>a DEF FreeInv
<1>e. clock[lcache[l]] = NoLane
    BY DEF DropOld, DestroyPixelCache
<1>1. ImagesTypeOK'
    BY <1>0, <1>a, <1>b, <1>d, <1>e, LaneFacts
       DEF DropOld, DestroyPixelCache, imageVars, ownerVars, ImagesTypeOK,
           OwnersTypeOK, LanesTypeOK, CachesTypeOK
<1>2. CachesTypeOK'
    BY <1>0, <1>a, <1>b, <1>d, <1>e, LaneFacts
       DEF DropOld, DestroyPixelCache, imageVars, ownerVars, CachesTypeOK,
           OwnersTypeOK, LanesTypeOK, ImagesTypeOK
<1>3. OwnersTypeOK'
    BY <1>0, <1>a, <1>b, <1>d, <1>e, LaneFacts
       DEF DropOld, DestroyPixelCache, imageVars, ownerVars, OwnersTypeOK,
           LanesTypeOK, CachesTypeOK
<1>4. LanesTypeOK'
    BY <1>0, <1>a, <1>b, <1>d, <1>e, LaneFacts
       DEF DropOld, DestroyPixelCache, imageVars, ownerVars, LanesTypeOK,
           OwnersTypeOK, ImagesTypeOK, PC, Args
<1>5. BoundsTypeOK'
    BY <1>0, <1>a, <1>b, <1>d, <1>e, LaneFacts, LimitAssumption
       DEF DropOld, DestroyPixelCache, imageVars, ownerVars, BoundsTypeOK
<1>6. ImageCountExact'
    BY <1>0, <1>a, <1>b, <1>d, <1>e, LaneFacts
       DEF DropOld, DestroyPixelCache, imageVars, ownerVars, ImageCountExact,
           Holders, Viewers, Modifiers, LanesTypeOK
<1>7. CacheCountExact'
  <2> SUFFICES ASSUME NEW c \in Caches
               PROVE  crc'[c] = Cardinality(Users(c)') + Cardinality(Droppers(c)')
      BY DEF CacheCountExact
  <2>0. /\ crc[c] = Cardinality(Users(c)) + Cardinality(Droppers(c))
        /\ Cardinality(Users(c)) \in Nat /\ IsFiniteSet(Users(c))
        /\ Cardinality(Droppers(c)) \in Nat /\ IsFiniteSet(Droppers(c))
      BY <1>0, FiniteSets DEF CacheCountExact, ImagesTypeOK
  <2>1. CASE c = lcache[l]
    <3>1. Users(c)' = Users(c)
        BY <1>0, <1>A, <1>a, <2>1, LaneFacts
           DEF DropOld, DestroyPixelCache, imageVars, ownerVars, Users, ImagesTypeOK, CachesTypeOK, LanesTypeOK, OwnersTypeOK
    <3>2. Droppers(c)' = Droppers(c) \ {l} /\ l \in Droppers(c)
        BY <1>0, <1>A, <1>a, <2>1, LaneFacts
           DEF DropOld, DestroyPixelCache, imageVars, ownerVars, Droppers, ImagesTypeOK, CachesTypeOK, LanesTypeOK, OwnersTypeOK
    <3>3. Cardinality(Droppers(c)') = Cardinality(Droppers(c)) - 1
        BY <2>0, <3>2, RemoveOne
    <3>4. crc'[c] = crc[c] - 1
        BY <1>0, <1>A, <1>a, <2>1 DEF DropOld, DestroyPixelCache, imageVars, ownerVars, CachesTypeOK
    <3> QED
        BY <2>0, <3>1, <3>2, <3>3, <3>4, <1>0 DEF CachesTypeOK
  <2>2. CASE c # lcache[l]
    <3>1. Users(c)' = Users(c)
        BY <1>0, <1>A, <1>a, <2>2, LaneFacts
           DEF DropOld, DestroyPixelCache, imageVars, ownerVars, Users, ImagesTypeOK, CachesTypeOK, LanesTypeOK, OwnersTypeOK
    <3>2. Droppers(c)' = Droppers(c)
        BY <1>0, <1>A, <1>a, <2>2, LaneFacts
           DEF DropOld, DestroyPixelCache, imageVars, ownerVars, Droppers, ImagesTypeOK, CachesTypeOK, LanesTypeOK, OwnersTypeOK
    <3>3. crc'[c] = crc[c]
        BY <1>0, <1>A, <1>a, <2>2 DEF DropOld, DestroyPixelCache, imageVars, ownerVars, CachesTypeOK
    <3> QED
        BY <2>0, <3>1, <3>2, <3>3, <1>0 DEF CachesTypeOK
  <2> QED
      BY <2>1, <2>2
<1>8. DeadInv'
    BY <1>0, <1>a, <1>b, <1>d, <1>e, LaneFacts
       DEF DropOld, DestroyPixelCache, imageVars, ownerVars, DeadInv,
           ImagesTypeOK, CachesTypeOK, OwnersTypeOK, LanesTypeOK
<1>9. LocksInv'
    BY <1>0, <1>a, <1>b, <1>d, <1>e, LaneFacts
       DEF DropOld, DestroyPixelCache, imageVars, ownerVars, LocksInv,
           LanesTypeOK, ImagesTypeOK, CachesTypeOK, Locked, Writing
<1>10. ViewsInv'
    BY <1>0, <1>a, <1>b, <1>d, <1>e, LaneFacts
       DEF DropOld, DestroyPixelCache, imageVars, ownerVars, ViewsInv,
           OwnersTypeOK
<1>11. ExclInv'
    BY <1>0, <1>a, <1>b, <1>d, <1>e, LaneFacts
       DEF DropOld, DestroyPixelCache, imageVars, ownerVars, ExclInv, OwnersTypeOK
<1>12. ContentInv'
    BY <1>0, <1>a, <1>b, <1>d, <1>e, LaneFacts
       DEF DropOld, DestroyPixelCache, imageVars, ownerVars, ContentInv,
           OwnersTypeOK, ImagesTypeOK, CachesTypeOK, DeadInv
<1>13. TeamInv'
    BY <1>0, <1>a, <1>b, <1>d, <1>e, LaneFacts
       DEF DropOld, DestroyPixelCache, imageVars, ownerVars, TeamInv, LanesTypeOK,
           OwnersTypeOK, Writing, Locked, OwnCalls
<1>14. LocalsInv'
    BY <1>0, <1>a, <1>b, <1>d, <1>e, LaneFacts
       DEF DropOld, DestroyPixelCache, imageVars, ownerVars, LocalsInv,
           LanesTypeOK, OwnersTypeOK, ImagesTypeOK, Writing, Locked, TeamInv,
           OwnCalls
<1>15. CloneInv'
    BY <1>0, <1>a, <1>b, <1>d, <1>e, LaneFacts
       DEF DropOld, DestroyPixelCache, imageVars, ownerVars, CloneInv,
           LanesTypeOK, CloneTo
<1>16. ModifyInv'
    BY <1>0, <1>a, <1>b, <1>d, <1>e, LaneFacts
       DEF DropOld, DestroyPixelCache, imageVars, ownerVars, ModifyInv,
           LanesTypeOK, ImagesTypeOK, OwnersTypeOK
<1>17. KillInv'
    BY <1>0, <1>a, <1>b, <1>d, <1>e, LaneFacts
       DEF DropOld, DestroyPixelCache, imageVars, ownerVars, KillInv, LanesTypeOK,
           ImagesTypeOK, Writing
<1>18. FreeInv'
    BY <1>0, <1>a, <1>b, <1>d, <1>e, LaneFacts
       DEF DropOld, DestroyPixelCache, imageVars, ownerVars, FreeInv, LanesTypeOK,
           CachesTypeOK
<1>19. HoldInv'
    BY <1>0, <1>a, <1>b, <1>d, <1>e, LaneFacts, Named
       DEF DropOld, DestroyPixelCache, imageVars, ownerVars, HoldInv, LanesTypeOK,
           ImagesTypeOK, CachesTypeOK, Locked, Shared, Writing
<1>20. OwnedInv'
    BY <1>0, <1>a, <1>b, <1>d, <1>e, LaneFacts, Named
       DEF DropOld, DestroyPixelCache, imageVars, ownerVars, OwnedInv,
           LanesTypeOK, ImagesTypeOK, CachesTypeOK, Writing, Locked
<1> QED
    BY <1>1, <1>2, <1>3, <1>4, <1>5, <1>6, <1>7, <1>8, <1>9, <1>10, <1>11, <1>12,
       <1>13, <1>14, <1>15, <1>16, <1>17, <1>18, <1>19, <1>20
       DEF IInv, TypeOK

LEMMA DropFreeInv ==
    ASSUME IInv, NEW l \in Lane, DropFree(l)
    PROVE  IInv'
<1>0. /\ ImagesTypeOK /\ CachesTypeOK /\ OwnersTypeOK /\ LanesTypeOK /\ BoundsTypeOK
      /\ ImageCountExact /\ CacheCountExact /\ DeadInv /\ LocksInv /\ ViewsInv
      /\ ExclInv /\ ContentInv /\ TeamInv /\ LocalsInv /\ CloneInv
      /\ ModifyInv /\ KillInv /\ FreeInv /\ HoldInv /\ OwnedInv
    BY DEF IInv, TypeOK
<1>A. pc[l] = "drop_free"
    BY DEF DropFree
<1>a. /\ limg[l] \in Images /\ ref[limg[l]] > 0 /\ limg[l] \in ilive
      /\ icache[limg[l]] \in clive /\ icache[limg[l]] \in Caches
      /\ crc[icache[limg[l]]] > 0 /\ limg[l] = handle[Owner(l)]
      /\ handle[Owner(l)] # NoImage
    BY <1>A, CallFacts DEF Writing, Locked
<1>b. /\ lcache[l] \in Caches /\ lcache[l] \in clive /\ crc[lcache[l]] = 0
      /\ \A m \in Lane : pc[m] \in {"kill_cache", "drop_free"} /\ lcache[m] = lcache[l] => m = l
      /\ \A i \in ilive : icache[i] # lcache[l]
    BY <1>A, <1>0, CallFacts, HeldCache DEF FreeInv
<1>c. \A q \in Owners : handle[q] # NoImage =>
          handle[q] \in Images /\ icache[handle[q]] \in Caches /\ icache[handle[q]] # lcache[l]
    BY <1>b, InUse
<1>d. \A m \in Lane : pc[m] = "copy" => lcache[m] # lcache[l]
    BY <1>b, CallFacts DEF Writing, Locked
<1>1. ImagesTypeOK'
    BY <1>0, <1>a, <1>b, <1>c, <1>d, LaneFacts
       DEF DropFree, FreeCache, imageVars, ownerVars, ImagesTypeOK, OwnersTypeOK,
           LanesTypeOK, CachesTypeOK
<1>2. CachesTypeOK'
    BY <1>0, <1>a, <1>b, <1>c, <1>d, LaneFacts
       DEF DropFree, FreeCache, imageVars, ownerVars, CachesTypeOK, OwnersTypeOK,
           LanesTypeOK, ImagesTypeOK, Pixels
<1>3. OwnersTypeOK'
    BY <1>0, <1>a, <1>b, <1>c, <1>d, LaneFacts
       DEF DropFree, FreeCache, imageVars, ownerVars, OwnersTypeOK, LanesTypeOK,
           CachesTypeOK
<1>4. LanesTypeOK'
    BY <1>0, <1>a, <1>b, <1>c, <1>d, LaneFacts
       DEF DropFree, FreeCache, imageVars, ownerVars, LanesTypeOK, OwnersTypeOK,
           ImagesTypeOK, PC, Args
<1>5. BoundsTypeOK'
    BY <1>0, <1>a, <1>b, <1>c, <1>d, LaneFacts, LimitAssumption
       DEF DropFree, FreeCache, imageVars, ownerVars, BoundsTypeOK
<1>6. ImageCountExact'
    BY <1>0, <1>a, <1>b, <1>c, <1>d, LaneFacts
       DEF DropFree, FreeCache, imageVars, ownerVars, ImageCountExact, Holders,
           Viewers, Modifiers, LanesTypeOK
<1>7. CacheCountExact'
    BY <1>0, <1>a, <1>b, <1>c, <1>d, LaneFacts
       DEF DropFree, FreeCache, imageVars, ownerVars, CacheCountExact, Users,
           Droppers, LanesTypeOK
<1>8. DeadInv'
    BY <1>0, <1>a, <1>b, <1>c, <1>d, LaneFacts
       DEF DropFree, FreeCache, imageVars, ownerVars, DeadInv, ImagesTypeOK,
           CachesTypeOK, OwnersTypeOK, LanesTypeOK
<1>9. LocksInv'
    BY <1>0, <1>a, <1>b, <1>c, <1>d, LaneFacts
       DEF DropFree, FreeCache, imageVars, ownerVars, LocksInv, LanesTypeOK,
           ImagesTypeOK, CachesTypeOK, Locked, Writing
<1>10. ViewsInv'
    BY <1>0, <1>a, <1>b, <1>c, <1>d, LaneFacts
       DEF DropFree, FreeCache, imageVars, ownerVars, ViewsInv, OwnersTypeOK
<1>11. ExclInv'
    BY <1>0, <1>a, <1>b, <1>c, <1>d, LaneFacts
       DEF DropFree, FreeCache, imageVars, ownerVars, ExclInv, OwnersTypeOK
<1>12. ContentInv'
    BY <1>0, <1>a, <1>b, <1>c, <1>d, LaneFacts
       DEF DropFree, FreeCache, imageVars, ownerVars, ContentInv, OwnersTypeOK,
           ImagesTypeOK, CachesTypeOK, DeadInv
<1>13. TeamInv'
    BY <1>0, <1>a, <1>b, <1>c, <1>d, LaneFacts
       DEF DropFree, FreeCache, imageVars, ownerVars, TeamInv, LanesTypeOK,
           OwnersTypeOK, Writing, Locked, OwnCalls
<1>14. LocalsInv'
    BY <1>0, <1>a, <1>b, <1>c, <1>d, LaneFacts
       DEF DropFree, FreeCache, imageVars, ownerVars, LocalsInv, LanesTypeOK,
           OwnersTypeOK, ImagesTypeOK, Writing, Locked, TeamInv, OwnCalls
<1>15. CloneInv'
    BY <1>0, <1>a, <1>b, <1>c, <1>d, LaneFacts
       DEF DropFree, FreeCache, imageVars, ownerVars, CloneInv, LanesTypeOK,
           CloneTo
<1>16. ModifyInv'
    BY <1>0, <1>a, <1>b, <1>c, <1>d, LaneFacts
       DEF DropFree, FreeCache, imageVars, ownerVars, ModifyInv, LanesTypeOK,
           ImagesTypeOK, OwnersTypeOK
<1>17. KillInv'
    BY <1>0, <1>a, <1>b, <1>c, <1>d, LaneFacts
       DEF DropFree, FreeCache, imageVars, ownerVars, KillInv, LanesTypeOK,
           ImagesTypeOK, Writing
<1>18. FreeInv'
    BY <1>0, <1>a, <1>b, <1>c, <1>d, LaneFacts
       DEF DropFree, FreeCache, imageVars, ownerVars, FreeInv, LanesTypeOK,
           CachesTypeOK
<1>19. HoldInv'
    BY <1>0, <1>a, <1>b, <1>c, <1>d, LaneFacts, Named
       DEF DropFree, FreeCache, imageVars, ownerVars, HoldInv, LanesTypeOK,
           ImagesTypeOK, CachesTypeOK, Locked, Shared, Writing
<1>20. OwnedInv'
    BY <1>0, <1>a, <1>b, <1>c, <1>d, LaneFacts, Named
       DEF DropFree, FreeCache, imageVars, ownerVars, OwnedInv, LanesTypeOK,
           ImagesTypeOK, CachesTypeOK, Writing, Locked
<1> QED
    BY <1>1, <1>2, <1>3, <1>4, <1>5, <1>6, <1>7, <1>8, <1>9, <1>10, <1>11, <1>12,
       <1>13, <1>14, <1>15, <1>16, <1>17, <1>18, <1>19, <1>20
       DEF IInv, TypeOK

LEMMA ValidateInv ==
    ASSUME IInv, NEW l \in Lane, Validate(l)
    PROVE  IInv'
<1>0. /\ ImagesTypeOK /\ CachesTypeOK /\ OwnersTypeOK /\ LanesTypeOK /\ BoundsTypeOK
      /\ ImageCountExact /\ CacheCountExact /\ DeadInv /\ LocksInv /\ ViewsInv
      /\ ExclInv /\ ContentInv /\ TeamInv /\ LocalsInv /\ CloneInv
      /\ ModifyInv /\ KillInv /\ FreeInv /\ HoldInv /\ OwnedInv
    BY DEF IInv, TypeOK
<1>A. pc[l] = "validate"
    BY DEF Validate
<1>a. /\ limg[l] \in Images /\ ref[limg[l]] > 0 /\ limg[l] \in ilive
      /\ icache[limg[l]] \in clive /\ icache[limg[l]] \in Caches
      /\ crc[icache[limg[l]]] > 0 /\ limg[l] = handle[Owner(l)]
      /\ handle[Owner(l)] # NoImage
    BY <1>A, CallFacts DEF Writing, Locked
<1>b. /\ \A j \in ilive : icache[j] = icache[limg[l]] => j = limg[l]
      /\ \A o \in Owners : handle[o] = limg[l] => o = Owner(l)
    BY <1>A, Alone
<1>1. ImagesTypeOK'
    BY <1>0, <1>a, <1>b, LaneFacts
       DEF Validate, ownerVars, ImagesTypeOK, OwnersTypeOK, LanesTypeOK,
           CachesTypeOK
<1>2. CachesTypeOK'
    BY <1>0, <1>a, <1>b, LaneFacts
       DEF Validate, ownerVars, CachesTypeOK, OwnersTypeOK, LanesTypeOK,
           ImagesTypeOK, CopyOf, Pixels
<1>3. OwnersTypeOK'
    BY <1>0, <1>a, <1>b, LaneFacts
       DEF Validate, ownerVars, OwnersTypeOK, LanesTypeOK, CachesTypeOK, CopyOf,
           Pixels
<1>4. LanesTypeOK'
    BY <1>0, <1>a, <1>b, LaneFacts
       DEF Validate, ownerVars, LanesTypeOK, OwnersTypeOK, ImagesTypeOK, PC, Args
<1>5. BoundsTypeOK'
    BY <1>0, <1>a, <1>b, LaneFacts, LimitAssumption
       DEF Validate, ownerVars, BoundsTypeOK
<1>6. ImageCountExact'
    BY <1>0, <1>a, <1>b, LaneFacts
       DEF Validate, ownerVars, ImageCountExact, Holders, Viewers, Modifiers,
           LanesTypeOK
<1>7. CacheCountExact'
    BY <1>0, <1>a, <1>b, LaneFacts
       DEF Validate, ownerVars, CacheCountExact, Users, Droppers, LanesTypeOK
<1>8. DeadInv'
    BY <1>0, <1>a, <1>b, LaneFacts
       DEF Validate, ownerVars, DeadInv, ImagesTypeOK, CachesTypeOK, OwnersTypeOK,
           LanesTypeOK
<1>9. LocksInv'
    BY <1>0, <1>a, <1>b, LaneFacts
       DEF Validate, ownerVars, LocksInv, LanesTypeOK, ImagesTypeOK, CachesTypeOK,
           Locked, Writing
<1>10. ViewsInv'
    BY <1>0, <1>a, <1>b, LaneFacts
       DEF Validate, ownerVars, ViewsInv, OwnersTypeOK
<1>11. ExclInv'
    BY <1>0, <1>a, <1>b, LaneFacts
       DEF Validate, ownerVars, ExclInv, OwnersTypeOK
<1>12. ContentInv'
  <2> SUFFICES ASSUME NEW q \in Owners, handle'[q] # NoImage
               PROVE  content'[q] = cval'[icache'[handle'[q]]]
      BY DEF ContentInv
  <2>1. CASE q = Owner(l)
      BY <1>0, <1>A, <1>a, <1>b, <2>1, LaneFacts
         DEF Validate, ownerVars, ContentInv, ImagesTypeOK, CachesTypeOK, OwnersTypeOK, Pixels
  <2>2. CASE q # Owner(l)
    <3>1. handle'[q] = handle[q] /\ content'[q] = content[q]
        BY <1>0, <1>A, <1>a, <1>b, <2>2, LaneFacts DEF Validate, ownerVars, OwnersTypeOK
    <3>2. /\ handle[q] \in Images /\ handle[q] \in ilive
          /\ icache[handle[q]] \in Caches /\ icache[handle[q]] \in clive
          /\ content[q] = cval[icache[handle[q]]]
        BY <1>0, <3>1, InUse DEF ContentInv
    <3>3. icache'[handle[q]] = icache[handle[q]]
        BY <1>0, <1>A, <1>a, <1>b, <2>2, <3>2, LaneFacts DEF Validate, ownerVars, ImagesTypeOK
    <3>4. cval'[icache[handle[q]]] = cval[icache[handle[q]]]
        BY <1>0, <1>A, <1>a, <1>b, <2>2, <3>2, LaneFacts DEF Validate, ownerVars, CachesTypeOK
    <3> QED
        BY <3>1, <3>2, <3>3, <3>4
  <2> QED
      BY <2>1, <2>2
<1>13. TeamInv'
    BY <1>0, <1>a, <1>b, LaneFacts
       DEF Validate, ownerVars, TeamInv, LanesTypeOK, OwnersTypeOK, Writing,
           Locked, OwnCalls
<1>14. LocalsInv'
    BY <1>0, <1>a, <1>b, LaneFacts
       DEF Validate, ownerVars, LocalsInv, LanesTypeOK, OwnersTypeOK,
           ImagesTypeOK, Writing, Locked, TeamInv, OwnCalls
<1>15. CloneInv'
    BY <1>0, <1>a, <1>b, LaneFacts
       DEF Validate, ownerVars, CloneInv, LanesTypeOK, CloneTo
<1>16. ModifyInv'
    BY <1>0, <1>a, <1>b, LaneFacts
       DEF Validate, ownerVars, ModifyInv, LanesTypeOK, ImagesTypeOK, OwnersTypeOK
<1>17. KillInv'
    BY <1>0, <1>a, <1>b, LaneFacts
       DEF Validate, ownerVars, KillInv, LanesTypeOK, ImagesTypeOK, Writing
<1>18. FreeInv'
    BY <1>0, <1>a, <1>b, LaneFacts
       DEF Validate, ownerVars, FreeInv, LanesTypeOK, CachesTypeOK
<1>19. HoldInv'
    BY <1>0, <1>a, <1>b, LaneFacts, Named
       DEF Validate, ownerVars, HoldInv, LanesTypeOK, ImagesTypeOK, CachesTypeOK,
           Locked, Shared, Writing
<1>20. OwnedInv'
    BY <1>0, <1>a, <1>b, LaneFacts, Named
       DEF Validate, ownerVars, OwnedInv, LanesTypeOK, ImagesTypeOK, CachesTypeOK,
           Writing, Locked
<1> QED
    BY <1>1, <1>2, <1>3, <1>4, <1>5, <1>6, <1>7, <1>8, <1>9, <1>10, <1>11, <1>12,
       <1>13, <1>14, <1>15, <1>16, <1>17, <1>18, <1>19, <1>20
       DEF IInv, TypeOK

LEMMA ValidateFailsInv ==
    ASSUME IInv, NEW l \in Lane, ValidateFails(l)
    PROVE  IInv'
<1>0. /\ ImagesTypeOK /\ CachesTypeOK /\ OwnersTypeOK /\ LanesTypeOK /\ BoundsTypeOK
      /\ ImageCountExact /\ CacheCountExact /\ DeadInv /\ LocksInv /\ ViewsInv
      /\ ExclInv /\ ContentInv /\ TeamInv /\ LocalsInv /\ CloneInv
      /\ ModifyInv /\ KillInv /\ FreeInv /\ HoldInv /\ OwnedInv
    BY DEF IInv, TypeOK
<1>A. pc[l] = "validate"
    BY DEF ValidateFails
<1>a. /\ limg[l] \in Images /\ ref[limg[l]] > 0 /\ limg[l] \in ilive
      /\ icache[limg[l]] \in clive /\ icache[limg[l]] \in Caches
      /\ crc[icache[limg[l]]] > 0 /\ limg[l] = handle[Owner(l)]
      /\ handle[Owner(l)] # NoImage
    BY <1>A, CallFacts DEF Writing, Locked
<1>b. /\ \A j \in ilive : icache[j] = icache[limg[l]] => j = limg[l]
      /\ \A o \in Owners : handle[o] = limg[l] => o = Owner(l)
    BY <1>A, Alone
<1>1. ImagesTypeOK'
    BY <1>0, <1>a, <1>b, LaneFacts
       DEF ValidateFails, ownerVars, Return, ImagesTypeOK, OwnersTypeOK,
           LanesTypeOK, CachesTypeOK
<1>2. CachesTypeOK'
    BY <1>0, <1>a, <1>b, LaneFacts
       DEF ValidateFails, ownerVars, Return, CachesTypeOK, OwnersTypeOK,
           LanesTypeOK, ImagesTypeOK, CopyOf, Pixels
<1>3. OwnersTypeOK'
    BY <1>0, <1>a, <1>b, LaneFacts
       DEF ValidateFails, ownerVars, Return, OwnersTypeOK, LanesTypeOK,
           CachesTypeOK, CopyOf, Pixels
<1>4. LanesTypeOK'
    BY <1>0, <1>a, <1>b, LaneFacts
       DEF ValidateFails, ownerVars, Return, LanesTypeOK, OwnersTypeOK,
           ImagesTypeOK, PC, Args
<1>5. BoundsTypeOK'
    BY <1>0, <1>a, <1>b, LaneFacts, LimitAssumption
       DEF ValidateFails, ownerVars, Return, BoundsTypeOK
<1>6. ImageCountExact'
    BY <1>0, <1>a, <1>b, LaneFacts
       DEF ValidateFails, ownerVars, Return, ImageCountExact, Holders, Viewers,
           Modifiers, LanesTypeOK
<1>7. CacheCountExact'
    BY <1>0, <1>a, <1>b, LaneFacts
       DEF ValidateFails, ownerVars, Return, CacheCountExact, Users, Droppers,
           LanesTypeOK
<1>8. DeadInv'
    BY <1>0, <1>a, <1>b, LaneFacts
       DEF ValidateFails, ownerVars, Return, DeadInv, ImagesTypeOK, CachesTypeOK,
           OwnersTypeOK, LanesTypeOK
<1>9. LocksInv'
    BY <1>0, <1>a, <1>b, LaneFacts
       DEF ValidateFails, ownerVars, Return, LocksInv, LanesTypeOK, ImagesTypeOK,
           CachesTypeOK, Locked, Writing
<1>10. ViewsInv'
    BY <1>0, <1>a, <1>b, LaneFacts
       DEF ValidateFails, ownerVars, Return, ViewsInv, OwnersTypeOK
<1>11. ExclInv'
    BY <1>0, <1>a, <1>b, LaneFacts
       DEF ValidateFails, ownerVars, Return, ExclInv, OwnersTypeOK
<1>12. ContentInv'
  <2> SUFFICES ASSUME NEW q \in Owners, handle'[q] # NoImage
               PROVE  content'[q] = cval'[icache'[handle'[q]]]
      BY DEF ContentInv
  <2>1. CASE q = Owner(l)
      BY <1>0, <1>A, <1>a, <1>b, <2>1, LaneFacts
         DEF ValidateFails, ownerVars, Return, ContentInv, ImagesTypeOK, CachesTypeOK, OwnersTypeOK, Pixels
  <2>2. CASE q # Owner(l)
    <3>1. handle'[q] = handle[q] /\ content'[q] = content[q]
        BY <1>0, <1>A, <1>a, <1>b, <2>2, LaneFacts DEF ValidateFails, ownerVars, Return, OwnersTypeOK
    <3>2. /\ handle[q] \in Images /\ handle[q] \in ilive
          /\ icache[handle[q]] \in Caches /\ icache[handle[q]] \in clive
          /\ content[q] = cval[icache[handle[q]]]
        BY <1>0, <3>1, InUse DEF ContentInv
    <3>3. icache'[handle[q]] = icache[handle[q]]
        BY <1>0, <1>A, <1>a, <1>b, <2>2, <3>2, LaneFacts DEF ValidateFails, ownerVars, Return, ImagesTypeOK
    <3>4. cval'[icache[handle[q]]] = cval[icache[handle[q]]]
        BY <1>0, <1>A, <1>a, <1>b, <2>2, <3>2, LaneFacts DEF ValidateFails, ownerVars, Return, CachesTypeOK
    <3> QED
        BY <3>1, <3>2, <3>3, <3>4
  <2> QED
      BY <2>1, <2>2
<1>13. TeamInv'
    BY <1>0, <1>a, <1>b, LaneFacts
       DEF ValidateFails, ownerVars, Return, TeamInv, LanesTypeOK, OwnersTypeOK,
           Writing, Locked, OwnCalls
<1>14. LocalsInv'
    BY <1>0, <1>a, <1>b, LaneFacts
       DEF ValidateFails, ownerVars, Return, LocalsInv, LanesTypeOK, OwnersTypeOK,
           ImagesTypeOK, Writing, Locked, TeamInv, OwnCalls
<1>15. CloneInv'
    BY <1>0, <1>a, <1>b, LaneFacts
       DEF ValidateFails, ownerVars, Return, CloneInv, LanesTypeOK, CloneTo
<1>16. ModifyInv'
    BY <1>0, <1>a, <1>b, LaneFacts
       DEF ValidateFails, ownerVars, Return, ModifyInv, LanesTypeOK, ImagesTypeOK,
           OwnersTypeOK
<1>17. KillInv'
    BY <1>0, <1>a, <1>b, LaneFacts
       DEF ValidateFails, ownerVars, Return, KillInv, LanesTypeOK, ImagesTypeOK,
           Writing
<1>18. FreeInv'
    BY <1>0, <1>a, <1>b, LaneFacts
       DEF ValidateFails, ownerVars, Return, FreeInv, LanesTypeOK, CachesTypeOK
<1>19. HoldInv'
    BY <1>0, <1>a, <1>b, LaneFacts, Named
       DEF ValidateFails, ownerVars, Return, HoldInv, LanesTypeOK, ImagesTypeOK,
           CachesTypeOK, Locked, Shared, Writing
<1>20. OwnedInv'
    BY <1>0, <1>a, <1>b, LaneFacts, Named
       DEF ValidateFails, ownerVars, Return, OwnedInv, LanesTypeOK, ImagesTypeOK,
           CachesTypeOK, Writing, Locked
<1> QED
    BY <1>1, <1>2, <1>3, <1>4, <1>5, <1>6, <1>7, <1>8, <1>9, <1>10, <1>11, <1>12,
       <1>13, <1>14, <1>15, <1>16, <1>17, <1>18, <1>19, <1>20
       DEF IInv, TypeOK

LEMMA CloneSizedInv ==
    ASSUME IInv, NEW o \in Owners, NEW p \in Owners, CloneSized(o, p)
    PROVE  IInv'
<1>1. \/ /\ RoomForImage /\ RoomForCache
         /\ NewImage(FreshImage, FreshCache, FALSE) /\ NewCache(FreshCache, "io", Junk)
         /\ Give(p, FreshImage, Junk) /\ UNCHANGED <<clock, failures, laneVars>>
      \/ /\ UNCHANGED <<imageVars, cacheVars, ownerVars, content, laneVars>>
         /\ failures < MaxFailures /\ failures' = failures + 1
    BY DEF CloneSized
<1>2. Quiet(p) /\ handle[p] = NoImage /\ Call
    BY DEF CloneSized
<1>3. calls' \in 0..MaxCalls
    BY <1>2, LimitAssumption DEF Call, IInv, TypeOK, BoundsTypeOK
<1>4. CASE RoomForImage /\ RoomForCache
           /\ NewImage(FreshImage, FreshCache, FALSE) /\ NewCache(FreshCache, "io", Junk)
           /\ Give(p, FreshImage, Junk) /\ UNCHANGED <<clock, failures, laneVars>>
    BY <1>2, <1>4, CloneSizedDoneInv
<1>5. CASE UNCHANGED <<imageVars, cacheVars, ownerVars, content, laneVars>>
           /\ failures < MaxFailures /\ failures' = failures + 1
  <2>1. failures' \in 0..MaxFailures
      BY <1>5, LimitAssumption DEF IInv, TypeOK, BoundsTypeOK
  <2> QED
      BY <1>3, <1>5, <2>1, UnchangedInv
<1> QED
    BY <1>1, <1>4, <1>5

LEMMA StutterInv ==
    ASSUME IInv, UNCHANGED vars
    PROVE  IInv'
<1>1. calls' \in 0..MaxCalls /\ failures' \in 0..MaxFailures
    BY DEF vars, IInv, TypeOK, BoundsTypeOK
<1>2. UNCHANGED <<imageVars, cacheVars, ownerVars, content, laneVars>>
    BY DEF vars
<1> QED
    BY <1>1, <1>2, UnchangedInv

-----------------------------------------------------------------------------
(* The invariant                                                           *)

LEMMA InitInv ==
    ASSUME Init
    PROVE  IInv
<1>1. ImagesTypeOK /\ CachesTypeOK /\ OwnersTypeOK /\ LanesTypeOK /\ BoundsTypeOK
    BY LimitAssumption DEF Init, ImagesTypeOK, CachesTypeOK, OwnersTypeOK, LanesTypeOK,
                           BoundsTypeOK, Pixels, PC, Args
<1>2. ImageCountExact
  <2>1. \A i \in Images : Holders(i) = {} /\ Viewers(i) = {} /\ Modifiers(i) = {}
      BY NullAssumption DEF Init, Holders, Viewers, Modifiers
  <2>2. \A i \in Images : Cardinality(Holders(i)) = 0 /\ Cardinality(Viewers(i)) = 0 /\ Cardinality(Modifiers(i)) = 0
      BY <2>1, FS_EmptySet
  <2> QED
      BY <2>2 DEF Init, ImageCountExact
<1>3. CacheCountExact
  <2>1. \A c \in Caches : Users(c) = {} /\ Droppers(c) = {}
      BY DEF Init, Users, Droppers
  <2>2. \A c \in Caches : Cardinality(Users(c)) = 0 /\ Cardinality(Droppers(c)) = 0
      BY <2>1, FS_EmptySet
  <2> QED
      BY <2>2 DEF Init, CacheCountExact
<1>4. DeadInv /\ LocksInv /\ ViewsInv /\ ExclInv /\ ContentInv
    BY DEF Init, DeadInv, LocksInv, ViewsInv, ExclInv, ContentInv
<1>5. TeamInv /\ LocalsInv /\ CloneInv /\ ModifyInv
    BY LaneFacts DEF Init, TeamInv, LocalsInv, CloneInv, ModifyInv, OwnCalls, Writing, Locked
<1>6. KillInv /\ FreeInv /\ HoldInv /\ OwnedInv
    BY DEF Init, KillInv, FreeInv, HoldInv, OwnedInv, Locked
<1> QED
    BY <1>1, <1>2, <1>3, <1>4, <1>5, <1>6 DEF IInv, TypeOK

LEMMA NextInv ==
    ASSUME IInv, [Next]_vars
    PROVE  IInv'
<1>1. ASSUME NEW l \in Lane, LaneStep(l) PROVE IInv'
    BY <1>1, CloneReferenceInv, ModifyCloneInv, ModifyDecrementInv, DestroyImagePixelsInv,
       KillCacheInv, KillImageInv, ReadPixelsInv, RecheckInv, CopyCacheInv, CopyFailsInv,
       DropOldInv, DropFreeInv, ValidateInv, ValidateFailsInv, ReturnCacheInv, WritePixelsInv
       DEF LaneStep
<1>2. ASSUME NEW l \in Lane, StartCall(l) PROVE IInv'
    BY <1>2, GetVirtualPixelsInv, GetImagePixelCacheInv DEF StartCall
<1>3. ASSUME NEW o \in Owners, OwnerStep(o) PROVE IInv'
    BY <1>3, AcquireImageInv, AttachPersistentInv, ReferenceImageInv, CloneImageInv,
       CloneSizedInv, ModifyImageInv, DestroyImageInv, AcquireCacheViewInv, DestroyCacheViewInv
       DEF OwnerStep
<1>4. ASSUME Terminated \/ UNCHANGED vars PROVE IInv'
    BY <1>4, StutterInv DEF Terminated
<1> QED
    BY <1>1, <1>2, <1>3, <1>4 DEF Next

LEMMA Invariance == Spec => []IInv
<1>1. Init => IInv
    BY InitInv
<1>2. IInv /\ [Next]_vars => IInv'
    BY NextInv
<1> QED
    BY <1>1, <1>2, PTL DEF Spec

-----------------------------------------------------------------------------
(* The theorems                                                            *)

(* ReferenceImage, CloneImage, ModifyImage, GetImagePixelCache,            *)
(* DestroyImage and the cache views never lose or invent a reference, to   *)
(* an image or to a cache, in any interleaving and after any failure.      *)
THEOREM CountsCorrect == Spec => []CountsExact
<1>1. IInv => CountsExact
    BY DEF IInv, CountsExact
<1> QED
    BY <1>1, Invariance, PTL

(* A cache without references is being freed by exactly one thread, the    *)
(* one whose DestroyPixelCache reached zero.                               *)
THEOREM CachesReclaimed == Spec => []CacheReclaimed
<1>1. ASSUME IInv PROVE CacheReclaimed
  <2> SUFFICES ASSUME NEW c \in clive, crc[c] = 0
               PROVE  Cardinality(Freeing(c)) = 1
      BY DEF CacheReclaimed
  <2>1. PICK l \in Lane : pc[l] \in {"kill_cache", "drop_free"} /\ lcache[l] = c
      BY <1>1 DEF IInv, FreeInv
  <2>2. \A m \in Freeing(c) : m = l
      BY <1>1, <2>1 DEF IInv, FreeInv, Freeing
  <2>3. Freeing(c) = {l}
      BY <2>1, <2>2 DEF Freeing
  <2> QED
      BY <2>3, FS_Singleton
<1> QED
    BY <1>1, Invariance, PTL

(* What GetImagePixelCache returns for writing belongs to one image of one *)
(* owner until the pixels are written.                                     *)
THEOREM WritersAlone == Spec => []WriterOwnsCache
<1>1. ASSUME IInv PROVE WriterOwnsCache
  <2> SUFFICES ASSUME NEW l \in Lane, pc[l] = "pixels"
               PROVE  /\ icache[limg[l]] = lcache[l] /\ crc[lcache[l]] = 1
                      /\ cmode[lcache[l]] = "io" /\ limg[l] = handle[Owner(l)]
                      /\ \A o \in Owners : handle[o] = limg[l] => o = Owner(l)
      BY DEF WriterOwnsCache
  <2>1. lcache[l] = icache[limg[l]] /\ limg[l] = handle[Owner(l)]
      BY <1>1, CallFacts DEF Writing
  <2>2. crc[lcache[l]] = 1 /\ cmode[lcache[l]] = "io"
      BY <1>1, <2>1 DEF IInv, OwnedInv
  <2>3. \A o \in Owners : handle[o] = limg[l] => o = Owner(l)
      BY <1>1, Alone
  <2> QED
      BY <2>1, <2>2, <2>3
<1> QED
    BY <1>1, Invariance, PTL

(* No handle, cache view, image in use or call in progress points at an    *)
(* image or a cache that has been freed.                                   *)
THEOREM NothingDangles == Spec => []NoDanglingPointer
<1>1. ASSUME IInv PROVE NoDanglingPointer
  <2>0. LanesTypeOK /\ LocalsInv /\ ModifyInv
      BY <1>1 DEF IInv, TypeOK
  <2>1. \A o \in Owners : {handle[o], view[o]} \subseteq ilive \union {NoImage}
      BY <1>1, InUse
  <2>2. \A o \in Owners : handle[o] # NoImage => icache[handle[o]] \in clive
      BY <1>1, InUse
  <2>3. ASSUME NEW l \in Lane PROVE limg[l] \in ilive \union {NoImage}
    <3>1. pc[l] \in {"idle", "await"} => limg[l] = NoImage
        BY <2>0 DEF LocalsInv
    <3>2. pc[l] \notin {"idle", "await"} => limg[l] \in ilive
        BY <1>1, <2>0, CallFacts DEF LanesTypeOK, PC, Writing, Locked
    <3> QED
        BY <3>1, <3>2
  <2>4. ASSUME NEW l \in Lane PROVE lnew[l] \in ilive \union {NoImage}
      BY <2>0 DEF LocalsInv, ModifyInv
  <2>5. ASSUME NEW l \in Lane, pc[l] \notin {"kill_image", "validate"}
        PROVE  lcache[l] \in clive \union {NoCache}
    <3>1. pc[l] \in {"idle", "await", "kill", "return"} => lcache[l] = NoCache
        BY <2>0 DEF LocalsInv
    <3>2. pc[l] \notin {"idle", "await", "kill", "return"} => lcache[l] \in clive
        BY <1>1, <2>0, <2>5, CallFacts DEF LanesTypeOK, PC, Writing, Locked
    <3> QED
        BY <3>1, <3>2
  <2> QED
      BY <2>1, <2>2, <2>3, <2>4, <2>5 DEF NoDanglingPointer
<1> QED
    BY <1>1, Invariance, PTL

(* The cache that a virtual-pixel read took without a lock stays allocated *)
(* and holds the pixels of the reader's image until the read is done.      *)
THEOREM ReadsUndisturbed == Spec => []ReadersUndisturbed
<1>1. ASSUME IInv PROVE ReadersUndisturbed
  <2> SUFFICES ASSUME NEW l \in Lane, pc[l] = "reading"
               PROVE  lcache[l] \in clive /\ cval[lcache[l]] = content[Owner(l)]
      BY DEF ReadersUndisturbed
  <2>1. /\ lcache[l] = icache[limg[l]] /\ limg[l] = handle[Owner(l)]
        /\ handle[Owner(l)] # NoImage /\ icache[limg[l]] \in clive
      BY <1>1, CallFacts
  <2>2. content[Owner(l)] = cval[icache[handle[Owner(l)]]]
      BY <1>1, <2>1, LaneFacts DEF IInv, ContentInv
  <2> QED
      BY <2>1, <2>2
<1> QED
    BY <1>1, Invariance, PTL

(* The pixels of a cache that several images share, or that is a mapped    *)
(* persistent file, do not change.                                         *)
LEMMA FrozenStep ==
    ASSUME IInv, Next, NEW c \in clive, c \in clive', crc[c] > 1 \/ cmode[c] = "read"
    PROVE  cval'[c] = cval[c]
<1>0. CachesTypeOK /\ OwnedInv /\ c \in Caches
    BY DEF IInv, TypeOK, CachesTypeOK
<1>1. ASSUME RoomForCache, NEW mode, NEW v, NewCache(FreshCache, mode, v) PROVE cval'[c] = cval[c]
    BY <1>0, <1>1, FreshFacts DEF NewCache, CachesTypeOK
<1>2. ASSUME NEW d, FreeCache(d) PROVE cval'[c] = cval[c]
    BY <1>0, <1>2 DEF FreeCache, CachesTypeOK
<1>3. \A l \in Lane : pc[l] \in {"validate", "pixels"} =>
          icache[limg[l]] # c /\ (pc[l] = "pixels" => lcache[l] = icache[limg[l]])
    BY <1>0, CallFacts DEF OwnedInv
<1>4. ASSUME NEW l \in Lane, LaneStep(l) PROVE cval'[c] = cval[c]
  <2>1. CASE CopyCache(l)
      BY <1>1, <2>1 DEF CopyCache
  <2>2. CASE KillCache(l) \/ DropFree(l)
      BY <1>2, <2>2 DEF KillCache, DropFree
  <2>3. CASE Validate(l) \/ ValidateFails(l)
      BY <1>0, <1>3, <2>3 DEF Validate, ValidateFails, CachesTypeOK
  <2>4. CASE WritePixels(l)
      BY <1>0, <1>3, <2>4 DEF WritePixels, CachesTypeOK
  <2>5. CASE CloneReference(l) \/ ModifyClone(l)
      BY <2>5 DEF CloneReference, ModifyClone, ReferencePixelCache
  <2>6. CASE DestroyImagePixels(l) \/ DropOld(l)
      BY <2>6 DEF DestroyImagePixels, DropOld, DestroyPixelCache
  <2>7. CASE \/ ModifyDecrement(l) \/ KillImage(l) \/ ReadPixels(l) \/ Recheck(l)
             \/ CopyFails(l) \/ ReturnCache(l)
      BY <2>7 DEF ModifyDecrement, KillImage, ReadPixels, Recheck, CopyFails, ReturnCache, cacheVars
  <2> QED
      BY <1>4, <2>1, <2>2, <2>3, <2>4, <2>5, <2>6, <2>7 DEF LaneStep
<1>5. ASSUME NEW l \in Lane, StartCall(l) PROVE cval'[c] = cval[c]
    BY <1>5 DEF StartCall, GetVirtualPixels, GetImagePixelCache, cacheVars
<1>6. ASSUME NEW o \in Owners, OwnerStep(o) PROVE cval'[c] = cval[c]
  <2>1. CASE AcquireImage(o)
      BY <1>1, <2>1 DEF AcquireImage
  <2>2. CASE AttachPersistent(o)
      BY <1>1, <2>2 DEF AttachPersistent
  <2>3. ASSUME NEW p \in Owners, CloneSized(o, p) PROVE cval'[c] = cval[c]
      BY <1>1, <2>3 DEF CloneSized, cacheVars
  <2>4. ASSUME NEW p \in Owners, ReferenceImage(o, p) \/ CloneImage(o, p)
        PROVE  cval'[c] = cval[c]
      BY <2>4 DEF ReferenceImage, CloneImage, cacheVars
  <2>5. CASE ModifyImage(o) \/ DestroyImage(o) \/ DestroyCacheView(o)
      BY <2>5 DEF ModifyImage, DestroyImage, DestroyCacheView, Dereference, cacheVars
  <2>6. ASSUME NEW kind \in {"virtual", "authentic"}, AcquireCacheView(o, kind)
        PROVE  cval'[c] = cval[c]
      BY <2>6 DEF AcquireCacheView, cacheVars
  <2> QED
      BY <1>6, <2>1, <2>2, <2>3, <2>4, <2>5, <2>6 DEF OwnerStep
<1>7. CASE Terminated
    BY <1>7 DEF Terminated, vars, cacheVars
<1> QED
    BY <1>4, <1>5, <1>6, <1>7 DEF Next

(* A shared or mapped cache is never written through: whoever writes has   *)
(* been given a cache of its own first (GetImagePixelCache).               *)
THEOREM SharedFrozen == Spec => SharedCacheFrozen
<1>1. ASSUME IInv, [Next]_vars
      PROVE  [\A c \in clive \intersect clive' :
                  (crc[c] > 1 \/ cmode[c] = "read") => cval'[c] = cval[c]]_vars
    BY <1>1, FrozenStep
<1> QED
    BY <1>1, Invariance, PTL DEF Spec, SharedCacheFrozen

-----------------------------------------------------------------------------
(* PixelCache implements ImageValues: two stacked reference counts, copies *)
(* made on the first write and unlocked reads of image->cache together     *)
(* give every owner an image of its own.                                   *)
(*                                                                         *)
(* The invariant says that an owner sees what it is entitled to            *)
(* (ContentInv), so a step of PixelCache is seen through the owners'       *)
(* entitlements: each step changes those of one owner at most.             *)


(* What an owner has, by entitlement instead of by pointers.               *)
Entitled(o) == IF handle[o] = NoImage THEN Absent ELSE content[o]
values == [o \in Owners |-> Value(o)]

LEMMA ValueIsEntitled ==
    ASSUME IInv
    PROVE  /\ \A o \in Owners : Value(o) = Entitled(o)
           /\ \A o \in Owners : handle[o] # NoImage =>
                Value(o) = content[o] /\ content[o] \in Pixels /\ content[o] # Absent
           /\ \A o \in Owners : handle[o] = NoImage => Value(o) = Absent
<1>1. \A o \in Owners : handle[o] # NoImage => content[o] = cval[icache[handle[o]]]
    BY DEF IInv, ContentInv
<1>2. \A o \in Owners : content[o] \in Pixels
    BY DEF IInv, TypeOK, OwnersTypeOK
<1>3. Absent \notin Pixels
    BY PixelsAssumption DEF Pixels, Absent, Junk, NoPixels
<1> QED
    BY <1>1, <1>2, <1>3 DEF Value, Entitled

LEMMA ValueIsEntitledNext ==
    ASSUME IInv'
    PROVE  \A o \in Owners : Value(o)' = Entitled(o)'
<1>1. \A o \in Owners : handle'[o] # NoImage => content'[o] = cval'[icache'[handle'[o]]]
    BY DEF IInv, ContentInv
<1> QED
    BY <1>1 DEF Value, Entitled

(* The ways in which a step may change what the owners have.               *)
Same      == handle' = handle /\ content' = content
Gets(o)   == /\ handle[o] = NoImage /\ handle'[o] # NoImage
             /\ \A q \in Owners : q # o => handle'[q] = handle[q] /\ content'[q] = content[q]
Keeps(o)  == /\ handle[o] # NoImage /\ handle'[o] # NoImage
             /\ \A q \in Owners : q # o => handle'[q] = handle[q] /\ content'[q] = content[q]
Leaves(o) == /\ handle[o] # NoImage /\ handle'[o] = NoImage
             /\ \A q \in Owners : q # o => handle'[q] = handle[q] /\ content'[q] = content[q]

LEMMA OneChanges ==
    ASSUME IInv, IInv', NEW o \in Owners,
           \A q \in Owners : q # o => handle'[q] = handle[q] /\ content'[q] = content[q]
    PROVE  /\ values' = [values EXCEPT ![o] = Entitled(o)']
           /\ values[o] = Entitled(o)
<1>1. \A q \in Owners : Value(q)' = Entitled(q)'
    BY ValueIsEntitledNext
<1>2. \A q \in Owners : Value(q) = Entitled(q)
    BY ValueIsEntitled
<1>3. \A q \in Owners : q # o => Entitled(q)' = Entitled(q)
    BY DEF Entitled
<1> QED
    BY <1>1, <1>2, <1>3 DEF values

LEMMA SameStutters ==
    ASSUME IInv, IInv', Same
    PROVE  values' = values
<1>1. \A q \in Owners : Value(q)' = Entitled(q)' /\ Value(q) = Entitled(q)
    BY ValueIsEntitled, ValueIsEntitledNext
<1>2. \A q \in Owners : Entitled(q)' = Entitled(q)
    BY DEF Entitled, Same
<1> QED
    BY <1>1, <1>2 DEF values

LEMMA GetsCreates ==
    ASSUME IInv, IInv', NEW o \in Owners, Gets(o)
    PROVE  Promise!Create(o)
<1>1. values' = [values EXCEPT ![o] = Entitled(o)'] /\ values[o] = Entitled(o)
    BY OneChanges DEF Gets
<1>2. Entitled(o) = Absent /\ Entitled(o)' = content'[o]
    BY DEF Gets, Entitled
<1>3. content'[o] \in Pixels
    BY DEF IInv, TypeOK, OwnersTypeOK
<1> QED
    BY <1>1, <1>2, <1>3 DEF Promise!Create, values

LEMMA KeepsWrites ==
    ASSUME IInv, IInv', NEW o \in Owners, Keeps(o)
    PROVE  Promise!Write(o)
<1>1. values' = [values EXCEPT ![o] = Entitled(o)'] /\ values[o] = Entitled(o)
    BY OneChanges DEF Keeps
<1>2. Entitled(o) # Absent /\ Entitled(o)' = content'[o]
    BY ValueIsEntitled DEF Keeps, Entitled
<1>3. content'[o] \in Pixels
    BY DEF IInv, TypeOK, OwnersTypeOK
<1> QED
    BY <1>1, <1>2, <1>3 DEF Promise!Write, values

LEMMA LeavesReleases ==
    ASSUME IInv, IInv', NEW o \in Owners, Leaves(o)
    PROVE  Promise!Release(o)
<1>1. values' = [values EXCEPT ![o] = Entitled(o)'] /\ values[o] = Entitled(o)
    BY OneChanges DEF Leaves
<1>2. Entitled(o) # Absent /\ Entitled(o)' = Absent
    BY ValueIsEntitled DEF Leaves, Entitled
<1> QED
    BY <1>1, <1>2 DEF Promise!Release, values

-----------------------------------------------------------------------------
(* Every step of PixelCache is one of those                                *)

LEMMA LaneStepChanges ==
    ASSUME IInv, NEW l \in Lane, LaneStep(l)
    PROVE  Same \/ \E o \in Owners : Gets(o) \/ Keeps(o)
<1>0. OwnersTypeOK /\ ModifyInv /\ CloneInv /\ LocalsInv /\ Owner(l) \in Owners
    BY LaneFacts DEF IInv, TypeOK
<1>1. CASE CloneReference(l)
  <2>1. larg[l].to \in Owners /\ pc[l] = "clone_ref" /\ RoomForImage
      BY <1>1, CallFacts DEF CloneReference, ReferencePixelCache
  <2>2. handle[larg[l].to] = NoImage
      BY <1>0, <2>1, LaneFacts DEF CloneInv, LocalsInv
  <2>3. FreshImage # NoImage
      BY <2>1, FreshImageFacts
  <2>4. Gets(larg[l].to)
      BY <1>0, <1>1, <2>1, <2>2, <2>3 DEF CloneReference, Give, Gets, OwnersTypeOK
  <2> QED
      BY <2>1, <2>4
<1>2. CASE ModifyDecrement(l)
  <2>1. handle[Owner(l)] # NoImage /\ lnew[l] # NoImage
      BY <1>2, CallFacts, NullAssumption DEF ModifyDecrement
  <2>2. Keeps(Owner(l))
      BY <1>0, <1>2, <2>1 DEF ModifyDecrement, Keeps, OwnersTypeOK
  <2> QED
      BY <1>0, <2>2
<1>3. CASE CopyCache(l) \/ Validate(l) \/ ValidateFails(l) \/ WritePixels(l)
  <2>1. handle[Owner(l)] # NoImage
      BY <1>3, CallFacts DEF CopyCache, Validate, ValidateFails, WritePixels, Writing, Locked
  <2>2. Keeps(Owner(l))
    <3>1. handle' = handle
        BY <1>3 DEF CopyCache, Validate, ValidateFails, WritePixels, ownerVars
    <3>2. \A q \in Owners : q # Owner(l) => content'[q] = content[q]
        BY <1>0, <1>3 DEF CopyCache, Validate, ValidateFails, WritePixels, OwnersTypeOK
    <3> QED
        BY <2>1, <3>1, <3>2 DEF Keeps
  <2> QED
      BY <1>0, <2>2
<1>4. CASE \/ ModifyClone(l) \/ DestroyImagePixels(l) \/ KillCache(l) \/ KillImage(l)
           \/ ReadPixels(l) \/ Recheck(l) \/ CopyFails(l) \/ DropOld(l) \/ DropFree(l)
           \/ ReturnCache(l)
    BY <1>4 DEF ModifyClone, DestroyImagePixels, KillCache, KillImage, ReadPixels, Recheck,
                CopyFails, DropOld, DropFree, ReturnCache, Same, ownerVars
<1> QED
    BY <1>1, <1>2, <1>3, <1>4 DEF LaneStep

LEMMA OwnerStepChanges ==
    ASSUME IInv, NEW o \in Owners, OwnerStep(o)
    PROVE  Same \/ \E q \in Owners : Gets(q) \/ Leaves(q)
<1>0. OwnersTypeOK
    BY DEF IInv, TypeOK
<1>1. CASE AcquireImage(o) \/ AttachPersistent(o)
  <2>1. handle[o] = NoImage /\ RoomForImage
      BY <1>1 DEF AcquireImage, AttachPersistent
  <2>2. FreshImage # NoImage
      BY <2>1, FreshImageFacts
  <2>3. Gets(o)
      BY <1>0, <1>1, <2>1, <2>2 DEF AcquireImage, AttachPersistent, Give, Gets, OwnersTypeOK
  <2> QED
      BY <2>3
<1>2. ASSUME NEW p \in Owners, ReferenceImage(o, p)
      PROVE  Gets(p)
    BY <1>0, <1>2 DEF ReferenceImage, Gets, OwnersTypeOK
<1>3. ASSUME NEW p \in Owners, CloneImage(o, p)
      PROVE  Same
    BY <1>3 DEF CloneImage, Same, ownerVars
<1>4. ASSUME NEW p \in Owners, CloneSized(o, p)
      PROVE  Same \/ Gets(p)
  <2>1. RoomForImage => FreshImage # NoImage
      BY FreshImageFacts
  <2> QED
      BY <1>0, <1>4, <2>1 DEF CloneSized, Give, Gets, Same, ownerVars, OwnersTypeOK
<1>5. CASE DestroyImage(o)
    BY <1>0, <1>5 DEF DestroyImage, Leaves, OwnersTypeOK
<1>6. CASE ModifyImage(o) \/ DestroyCacheView(o)
    BY <1>6 DEF ModifyImage, DestroyCacheView, Same
<1>7. ASSUME NEW kind \in {"virtual", "authentic"}, AcquireCacheView(o, kind)
      PROVE  Same
    BY <1>7 DEF AcquireCacheView, Same
<1> QED
    BY <1>1, <1>2, <1>3, <1>4, <1>5, <1>6, <1>7 DEF OwnerStep

LEMMA NextPromised ==
    ASSUME IInv, [Next]_vars
    PROVE  [Promise!Next]_values
<1>0. IInv'
    BY NextInv
<1>1. ASSUME Same PROVE values' = values
    BY <1>0, <1>1, SameStutters
<1>2. ASSUME NEW o \in Owners, Gets(o) \/ Keeps(o) \/ Leaves(o) PROVE Promise!Next
    BY <1>0, <1>2, GetsCreates, KeepsWrites, LeavesReleases DEF Promise!Next
<1>3. ASSUME NEW l \in Lane, LaneStep(l) PROVE [Promise!Next]_values
    BY <1>1, <1>2, <1>3, LaneStepChanges
<1>4. ASSUME NEW o \in Owners, OwnerStep(o) PROVE [Promise!Next]_values
    BY <1>1, <1>2, <1>4, OwnerStepChanges
<1>5. ASSUME NEW l \in Lane, StartCall(l) PROVE [Promise!Next]_values
  <2>1. Same
      BY <1>5 DEF StartCall, GetVirtualPixels, GetImagePixelCache, Same, ownerVars
  <2> QED
      BY <1>1, <2>1
<1>6. CASE Terminated \/ UNCHANGED vars
  <2>1. Same
      BY <1>6 DEF Terminated, vars, Same, ownerVars
  <2> QED
      BY <1>1, <2>1
<1> QED
    BY <1>3, <1>4, <1>5, <1>6 DEF Next

LEMMA InitPromised ==
    ASSUME Init
    PROVE  Promise!Init
BY DEF Init, Promise!Init, Value

(* Value semantics: whatever is shared underneath, in any interleaving and *)
(* after any failure, what one owner does to its image never shows in      *)
(* another owner's (CloneImage, ModifyImage, GetImagePixelCache).          *)
THEOREM ValuesImplemented == Spec => ImplementsImageValues
<1>1. Init => Promise!Init
    BY InitPromised
<1>2. IInv /\ [Next]_vars => [Promise!Next]_values
    BY NextPromised
<1> QED
    BY <1>1, <1>2, Invariance, PTL DEF Spec, ImplementsImageValues, Promise!Spec, values
=============================================================================
