--------------------------- MODULE BuildCacheProofs ---------------------------
(***************************************************************************)
(* Proofs about BuildCache for every set of pods, images and deployments   *)
(* that keep tag and image in lockstep.  What makes the cache safe without *)
(* a lock between pods is that all who may write a key write the same.     *)
(***************************************************************************)
EXTENDS BuildCache, TLAPS

(* bytes are what some deployment with this tag has baked in. *)
Baked(tag, bytes) == \E d \in Deployments : d.tag = tag /\ d.image["app"] = bytes

(* A pod past the tag check works on its own tag. *)
OwnTagInv == \A p \in Pods : doing[p] \in {"stat", "restat", "put", "manifest"} =>
                                 wanted[p] = pods[p].tag

(* Only baked bytes are cached, and the manifest comes second. *)
StoreInv ==
    /\ \A t \in Tags : store[t] # Nothing => Baked(t, store[t])
    /\ \A p \in Pods : doing[p] = "manifest" => store[wanted[p]] # Nothing

(* What the station has fetched are parts of the image it works from. *)
FlashInv ==
    /\ listed # Nothing => /\ \E d \in Deployments : listed = d.image
                           /\ \A n \in Parts : got[n] # Nothing => got[n] = listed[n]
    /\ FlashedWhole

-----------------------------------------------------------------------------
(* The same tag is never baked with two apps. *)
LEMMA BakedOnce ==
    ASSUME NEW t, NEW x, NEW y, Baked(t, x), Baked(t, y)
    PROVE  x = y
  BY LockstepAssumption DEF Lockstep, Baked

LEMMA AppType ==
    ASSUME NEW d \in Deployments
    PROVE  d.image \in Images /\ d.image["app"] \in Bytes /\ d.tag \in Tags
           /\ Baked(d.tag, d.image["app"])
  BY BuildCacheAssumption DEF Images, Tags, Baked

(* What a pod that serves a request runs. *)
LEMMA Serving ==
    ASSUME TypeOK, NEW p \in Pods, doing[p] # "idle"
    PROVE  pods[p] \in Deployments /\ App(p) \in Bytes /\ Baked(pods[p].tag, App(p))
  BY AppType DEF TypeOK, App

LEMMA InitInv == Init => TypeOK /\ OwnTagInv /\ StoreInv /\ FlashInv
                             /\ PinnedBuildExact /\ ManifestDescribes
<1> SUFFICES ASSUME Init
             PROVE  TypeOK /\ OwnTagInv /\ StoreInv /\ FlashInv
                        /\ PinnedBuildExact /\ ManifestDescribes
  OBVIOUS
<1>1. TypeOK
  <2>1. pods \in [Pods -> Deployments \cup {Nothing}]
    BY DEF Init
  <2>2. device \in Images
    BY BuildCacheAssumption DEF Init
  <2>3. wanted \in [Pods -> Tags]
    BY DEF Init
  <2> QED
    BY <2>1, <2>2, <2>3 DEF Init, TypeOK
<1>2. OwnTagInv /\ StoreInv /\ FlashInv /\ PinnedBuildExact /\ ManifestDescribes
  BY DEF Init, OwnTagInv, StoreInv, FlashInv, FlashedWhole, PinnedBuildExact, ManifestDescribes
<1> QED
  BY <1>1, <1>2

-----------------------------------------------------------------------------
(* What an upload does, whether it is answered or cut. *)
LEMMA UploadEffect ==
    ASSUME TypeOK, OwnTagInv, StoreInv, ManifestDescribes, NEW p \in Pods, Upload(p)
    PROVE  /\ store' \in [Tags -> Bytes \cup {Nothing}]
           /\ manifests' \in [Tags -> Bytes \cup {Nothing}]
           /\ \A t \in Tags : store[t] # Nothing => store'[t] = store[t]
           /\ \A t \in Tags : store'[t] # Nothing => Baked(t, store'[t])
           /\ ManifestDescribes'
           /\ doing[p] \in {"put", "manifest"} /\ store'[wanted[p]] = App(p)
<1> DEFINE t0 == wanted[p]
<1>1. /\ doing[p] \in {"put", "manifest"} /\ t0 \in Tags /\ t0 = pods[p].tag
      /\ App(p) \in Bytes /\ Baked(t0, App(p)) /\ App(p) # Nothing
  BY Serving, BuildCacheAssumption DEF Upload, TypeOK, OwnTagInv
<1>2. store[t0] # Nothing => store[t0] = App(p)
  BY <1>1, BakedOnce DEF StoreInv
<1>3. CASE doing[p] = "put"
  <2>1. store' = [store EXCEPT ![t0] = App(p)] /\ manifests' = manifests
    BY <1>3 DEF Upload, BinKey
  <2>2. \A t \in Tags : store'[t] = IF t = t0 THEN App(p) ELSE store[t]
    BY <2>1 DEF TypeOK
  <2>3. ManifestDescribes'
    BY <2>1, <2>2, <1>1, <1>2 DEF ManifestDescribes
  <2> QED
    BY <1>1, <1>2, <2>1, <2>2, <2>3 DEF TypeOK, StoreInv
<1>4. CASE doing[p] = "manifest"
  <2>1. manifests' = [manifests EXCEPT ![t0] = App(p)] /\ store' = store
    BY <1>4 DEF Upload
  <2>2. store[t0] = App(p)
    BY <1>2, <1>4 DEF StoreInv
  <2>3. ManifestDescribes'
    BY <2>1, <2>2, <1>1 DEF ManifestDescribes, TypeOK
  <2> QED
    BY <1>1, <2>1, <2>2, <2>3 DEF TypeOK, StoreInv
<1> QED
  BY <1>1, <1>3, <1>4

-----------------------------------------------------------------------------
(* The type invariant. *)
LEMMA ReadyType ==
    ASSUME TypeOK, NEW p \in Pods, doing[p] # "idle", Ready(p)
    PROVE  /\ build' \in Builds \cup {Nothing}
           /\ doing' = [doing EXCEPT ![p] = "idle"]
<1>1. wanted[p] \in Tags /\ App(p) \in Bytes
  BY Serving DEF TypeOK
<1> DEFINE b == [tag |-> wanted[p], sha256 |-> App(p), pinned |-> wanted[p] = pods[p].tag]
<1>2. b \in Builds
  <2>1. (wanted[p] = pods[p].tag) \in BOOLEAN
    OBVIOUS
  <2> QED
    BY <1>1, <2>1 DEF Builds
<1>3. build' \in {build, b} /\ doing' = [doing EXCEPT ![p] = "idle"]
  BY DEF Ready
<1> QED
  BY <1>2, <1>3 DEF TypeOK

LEMMA TypeStep ==
    ASSUME TypeOK, OwnTagInv, StoreInv, ManifestDescribes, [Next]_vars
    PROVE  TypeOK'
<1> USE DEF TypeOK
<1>1. CASE UNCHANGED vars
  BY <1>1 DEF vars, service, station
<1>2. ASSUME NEW p \in Pods, NEW t \in Tags, PostBuild(p, t) \/ GetBuild(p, t)
      PROVE  TypeOK'
  <2>1. \/ doing' = [doing EXCEPT ![p] = "stat"]
        \/ doing' = [doing EXCEPT ![p] = "look"]
    BY <1>2 DEF PostBuild, GetBuild, Idle
  <2>2. doing' \in [Pods -> {"idle", "look", "stat", "restat", "put", "manifest"}]
    BY <2>1
  <2>3. \A q \in Pods : doing'[q] # "idle" => pods[q] # Nothing
    BY <1>2, <2>1 DEF PostBuild, GetBuild, Idle
  <2>4. wanted' \in [Pods -> Tags]
    BY <1>2 DEF PostBuild, GetBuild, Idle
  <2> QED
    BY <1>2, <2>2, <2>3, <2>4 DEF PostBuild, GetBuild, station
<1>3. ASSUME NEW p \in Pods, Stat(p)
      PROVE  TypeOK'
  <2>1. CASE Ready(p)
    BY <1>3, <2>1, ReadyType DEF Stat, station
  <2>2. CASE doing' = [doing EXCEPT ![p] = AfterMiss(doing[p])] /\ UNCHANGED build
    BY <1>3, <2>2 DEF Stat, station, AfterMiss
  <2> QED
    BY <1>3, <2>1, <2>2 DEF Stat
<1>4. ASSUME NEW p \in Pods, Put(p)
      PROVE  TypeOK'
  <2>1. /\ store' \in [Tags -> Bytes \cup {Nothing}]
        /\ manifests' \in [Tags -> Bytes \cup {Nothing}]
        /\ doing[p] \in {"put", "manifest"}
    BY <1>4, UploadEffect DEF Put
  <2>2. CASE Ready(p)
    <3>1. build' \in Builds \cup {Nothing} /\ doing' = [doing EXCEPT ![p] = "idle"]
      BY <2>1, <2>2, ReadyType
    <3> QED
      BY <1>4, <2>1, <3>1 DEF Put, station
  <2>3. CASE doing' = [doing EXCEPT ![p] = "manifest"] /\ UNCHANGED build
    BY <1>4, <2>1, <2>3 DEF Put, station
  <2> QED
    BY <1>4, <2>2, <2>3 DEF Put
<1>5. ASSUME NEW p \in Pods, Interrupted(p)
      PROVE  TypeOK'
  <2>1. /\ store' \in [Tags -> Bytes \cup {Nothing}]
        /\ manifests' \in [Tags -> Bytes \cup {Nothing}]
    BY <1>5, UploadEffect DEF Interrupted
  <2> QED
    BY <1>5, <2>1 DEF Interrupted, station
<1>6. ASSUME NEW p \in Pods, NEW d \in Deployments, Deploy(p, d)
      PROVE  TypeOK'
  BY <1>6, BuildCacheAssumption DEF Deploy, service, station
<1>7. ASSUME NEW p \in Pods, Remove(p)
      PROVE  TypeOK'
  BY <1>7 DEF Remove, service, station
<1>8. ASSUME NEW p \in Pods, FetchManifest(p)
      PROVE  TypeOK'
  <2>1. pods[p].image \in Images
    BY <1>8, AppType DEF FetchManifest
  <2> QED
    BY <1>8, <2>1 DEF FetchManifest, service
<1>9. ASSUME NEW p \in Pods, NEW n \in Parts, FetchPart(p, n)
      PROVE  TypeOK'
  <2>1. pods[p].image \in Images
    BY <1>9, AppType DEF FetchPart
  <2>2. pods[p].image[n] \in Bytes
    BY <2>1 DEF Images
  <2> QED
    BY <1>9, <2>2 DEF FetchPart, service
<1>10. CASE WriteFlash
  <2>1. device' \in Images
    <3>1. PICK written \in SUBSET Parts :
             /\ device' = [n \in Parts |-> IF n \in written THEN got[n] ELSE device[n]]
             /\ flashed' = (written = Parts)
      BY <1>10 DEF WriteFlash
    <3>2. \A n \in Parts : got[n] \in Bytes /\ device[n] \in Bytes
      BY <1>10 DEF WriteFlash, Images
    <3> QED
      BY <3>1, <3>2 DEF Images
  <2>2. flashed' \in BOOLEAN
    BY <1>10 DEF WriteFlash
  <2> QED
    BY <1>10, <2>1, <2>2 DEF WriteFlash, service
<1> QED
  BY <1>1, <1>2, <1>3, <1>4, <1>5, <1>6, <1>7, <1>8, <1>9, <1>10 DEF Next

-----------------------------------------------------------------------------
(* The cache. *)

(* Only uploads touch it, and they add what was baked. *)
LEMMA CacheStep ==
    ASSUME TypeOK, OwnTagInv, StoreInv, ManifestDescribes, [Next]_vars
    PROVE  /\ \A t \in Tags : store[t] # Nothing => store'[t] = store[t]
           /\ \A t \in Tags : store'[t] # Nothing => Baked(t, store'[t])
           /\ ManifestDescribes'
<1>1. CASE UNCHANGED <<store, manifests>>
  BY <1>1 DEF StoreInv, ManifestDescribes
<1>2. ASSUME NEW p \in Pods, Upload(p)
      PROVE  /\ \A t \in Tags : store[t] # Nothing => store'[t] = store[t]
             /\ \A t \in Tags : store'[t] # Nothing => Baked(t, store'[t])
             /\ ManifestDescribes'
  BY <1>2, UploadEffect
<1>3. UNCHANGED <<store, manifests>> \/ \E p \in Pods : Upload(p)
  BY DEF Next, PostBuild, GetBuild, Stat, Put, Interrupted, Deploy, Remove, FetchManifest, FetchPart,
         WriteFlash, service, vars
<1> QED
  BY <1>1, <1>2, <1>3

(* Where a pod is with its request. *)
LEMMA RequestStep ==
    ASSUME TypeOK, OwnTagInv, StoreInv, ManifestDescribes, [Next]_vars
    PROVE  OwnTagInv' /\ StoreInv'
<1>0. /\ \A t \in Tags : store[t] # Nothing => store'[t] = store[t]
      /\ \A t \in Tags : store'[t] # Nothing => Baked(t, store'[t])
  BY CacheStep
<1> SUFFICES OwnTagInv' /\ \A p \in Pods : doing'[p] = "manifest" => store'[wanted'[p]] # Nothing
  BY <1>0 DEF StoreInv
<1> USE DEF TypeOK, OwnTagInv, StoreInv
<1>1. CASE UNCHANGED <<pods, doing, wanted>>
  BY <1>0, <1>1
<1>2. ASSUME NEW q \in Pods, NEW t \in Tags, PostBuild(q, t) \/ GetBuild(q, t)
      PROVE  OwnTagInv' /\ \A p \in Pods : doing'[p] = "manifest" => store'[wanted'[p]] # Nothing
  BY <1>0, <1>2 DEF PostBuild, GetBuild, KnownTag, Idle
<1>3. ASSUME NEW q \in Pods, Stat(q)
      PROVE  OwnTagInv' /\ \A p \in Pods : doing'[p] = "manifest" => store'[wanted'[p]] # Nothing
  BY <1>0, <1>3 DEF Stat, Ready, AfterMiss
<1>4. ASSUME NEW q \in Pods, Put(q)
      PROVE  OwnTagInv' /\ \A p \in Pods : doing'[p] = "manifest" => store'[wanted'[p]] # Nothing
  <2>1. doing[q] \in {"put", "manifest"} /\ store'[wanted[q]] = App(q) /\ App(q) # Nothing
    BY <1>4, UploadEffect, Serving, BuildCacheAssumption DEF Put
  <2> QED
    BY <1>0, <1>4, <2>1 DEF Put, Ready
<1>5. ASSUME NEW q \in Pods, Interrupted(q)
      PROVE  OwnTagInv' /\ \A p \in Pods : doing'[p] = "manifest" => store'[wanted'[p]] # Nothing
  BY <1>0, <1>5 DEF Interrupted
<1>6. ASSUME NEW q \in Pods, NEW d \in Deployments, Deploy(q, d)
      PROVE  OwnTagInv' /\ \A p \in Pods : doing'[p] = "manifest" => store'[wanted'[p]] # Nothing
  BY <1>0, <1>6 DEF Deploy, service
<1>7. ASSUME NEW q \in Pods, Remove(q)
      PROVE  OwnTagInv' /\ \A p \in Pods : doing'[p] = "manifest" => store'[wanted'[p]] # Nothing
  BY <1>0, <1>7 DEF Remove, service
<1> QED
  BY <1>1, <1>2, <1>3, <1>4, <1>5, <1>6, <1>7
     DEF Next, FetchManifest, FetchPart, WriteFlash, service, vars

(* A build is given out when the binary is there, and stays right because   *)
(* the cache is written once.                                               *)
LEMMA BuildStep ==
    ASSUME TypeOK, OwnTagInv, StoreInv, ManifestDescribes, PinnedBuildExact, [Next]_vars
    PROVE  PinnedBuildExact'
<1>1. CASE build' = build
  <2> SUFFICES ASSUME build # Nothing, build.pinned
               PROVE  store'[build.tag] = build.sha256
    BY <1>1 DEF PinnedBuildExact
  <2>1. build.tag \in Tags /\ build.sha256 \in Bytes
    BY DEF TypeOK, Builds
  <2>2. store[build.tag] = build.sha256 /\ store[build.tag] # Nothing
    BY <2>1, BuildCacheAssumption DEF PinnedBuildExact
  <2> QED
    BY <2>1, <2>2, CacheStep
<1>2. ASSUME NEW p \in Pods, Stat(p), store[wanted[p]] # Nothing, Ready(p), build' # build
      PROVE  PinnedBuildExact'
  <2>1. Baked(wanted[p], store[wanted[p]]) /\ Baked(pods[p].tag, App(p))
    BY <1>2, Serving DEF Stat, StoreInv, TypeOK
  <2>2. /\ build'.tag = wanted[p] /\ build'.sha256 = App(p)
        /\ build'.pinned = (wanted[p] = pods[p].tag) /\ store' = store
    BY <1>2 DEF Ready, Stat
  <2> QED
    BY <2>1, <2>2, BakedOnce DEF PinnedBuildExact
<1>3. ASSUME NEW p \in Pods, Put(p), Ready(p), build' # build
      PROVE  PinnedBuildExact'
  <2>1. store'[wanted[p]] = App(p)
    BY <1>3, UploadEffect DEF Put
  <2>2. build'.tag = wanted[p] /\ build'.sha256 = App(p)
    BY <1>3 DEF Ready
  <2> QED
    BY <2>1, <2>2 DEF PinnedBuildExact
<1> QED
  BY <1>1, <1>2, <1>3 DEF Next, PostBuild, GetBuild, Stat, Put, Interrupted, Deploy, Remove, FetchManifest,
                          FetchPart, WriteFlash, service, vars, BinKey

-----------------------------------------------------------------------------
(* The flash set. *)
LEMMA FlashStep ==
    ASSUME TypeOK, FlashInv, [Next]_vars
    PROVE  FlashInv'
<1> USE DEF FlashInv, FlashedWhole
<1>1. CASE UNCHANGED station
  BY <1>1 DEF station
<1>2. ASSUME NEW p \in Pods, FetchManifest(p)
      PROVE  FlashInv'
  BY <1>2 DEF FetchManifest, TypeOK
<1>3. ASSUME NEW p \in Pods, NEW n \in Parts, FetchPart(p, n)
      PROVE  FlashInv'
  <2>1. CASE SameSha(n, pods[p].image[n])
    <3>1. \A m \in Parts : got'[m] = IF m = n THEN listed[n] ELSE got[m]
      BY <1>3, <2>1 DEF FetchPart, SameSha, TypeOK
    <3> QED
      BY <1>3, <2>1, <3>1 DEF FetchPart
  <2>2. CASE ~SameSha(n, pods[p].image[n])
    BY <1>3, <2>2 DEF FetchPart
  <2> QED
    BY <2>1, <2>2
<1>4. CASE WriteFlash
  <2>1. listed' = Nothing
    BY <1>4 DEF WriteFlash
  <2>2. ASSUME flashed'
        PROVE  \E d \in Deployments : device' = d.image
    <3>1. device' = [n \in Parts |-> got[n]]
      BY <1>4, <2>2 DEF WriteFlash
    <3>2. listed \in Images /\ \A n \in Parts : got[n] = listed[n]
      BY <1>4 DEF WriteFlash, TypeOK
    <3>3. device' = listed
      BY <3>1, <3>2 DEF Images
    <3> QED
      BY <1>4, <3>3 DEF WriteFlash
  <2> QED
    BY <2>1, <2>2
<1> QED
  BY <1>1, <1>2, <1>3, <1>4 DEF Next, PostBuild, GetBuild, Stat, Put, Interrupted, Deploy, Remove, vars

-----------------------------------------------------------------------------
IInv == /\ TypeOK /\ OwnTagInv /\ StoreInv /\ ManifestDescribes
        /\ PinnedBuildExact /\ FlashInv

LEMMA Inductive == Spec => []IInv
<1>1. Init => IInv
  BY InitInv DEF IInv
<1>2. IInv /\ [Next]_vars => IInv'
  BY TypeStep, RequestStep, CacheStep, BuildStep, FlashStep DEF IInv
<1> QED
  BY <1>1, <1>2, PTL DEF Spec

(* Every variable of the build service keeps its type (storage.py, flash.py). *)
THEOREM TypeCorrect == Spec => []TypeOK
<1>1. IInv => TypeOK
  BY DEF IInv
<1> QED
  BY <1>1, Inductive, PTL

(* A build that names its pod's tag carries the digest of the binary at its *)
(* URL for good, with any number of pods and rollouts (storage.py:168-253). *)
THEOREM PinnedBuild == Spec => []PinnedBuildExact
<1>1. IInv => PinnedBuildExact
  BY DEF IInv
<1> QED
  BY <1>1, Inductive, PTL

(* A manifest describes the binary beside it, though pods upload without a  *)
(* lock between them and may stop at any call (storage.py:222-244).         *)
THEOREM Manifest == Spec => []ManifestDescribes
<1>1. IInv => ManifestDescribes
  BY DEF IInv
<1> QED
  BY <1>1, Inductive, PTL

(* Nothing in the cache is ever overwritten by something else.              *)
THEOREM WriteOnce == Spec => CacheWriteOnce
<1>1. IInv /\ [Next]_vars => [\A t \in Tags : store[t] # Nothing => store'[t] = store[t]]_vars
  BY CacheStep DEF IInv
<1> QED
  BY <1>1, Inductive, PTL DEF Spec, CacheWriteOnce

(* A node flashed without an error holds one image, whichever pods of a     *)
(* rollout served its parts (onboarding.py:87-114, routers/flash.py).       *)
THEOREM Flashed == Spec => []FlashedWhole
<1>1. IInv => FlashedWhole
  BY DEF IInv, FlashInv
<1> QED
  BY <1>1, Inductive, PTL
=============================================================================
