------------------------------ MODULE BuildCache ------------------------------
(***************************************************************************)
(* The firmware service (api/): pods of one deployment behind a Service,   *)
(* each with a firmware image baked in and a tag in its environment; the   *)
(* build cache they share in MinIO (services/storage.py, routers/builds.py)*)
(* and a station that flashes a node from their flash set (routers/        *)
(* flash.py, pi-scanner/app/onboarding.py).                                *)
(*                                                                         *)
(* An image is the bytes of its parts; a digest is taken to tell bytes     *)
(* apart, so it is modelled by the bytes.  A pod serves one request at a   *)
(* time: the MinIO client blocks its event loop, and the build lock is     *)
(* never waited for.  Pods interleave at every call to MinIO.              *)
(***************************************************************************)
EXTENDS FiniteSets

CONSTANTS
    Pods,        \* slots for pods: one, and one more during a rollout
    Parts,       \* the parts of the flash set, "app" among them
    Bytes,       \* what a part may hold
    Deployments, \* [image, tag] pairs that are ever rolled out
    Nothing      \* no pod, no object, Python's None

Images == [Parts -> Bytes]
Tags == {d.tag : d \in Deployments}

(* k8s/deployment.yaml asks to keep the tag and the image in lockstep. *)
ASSUME BuildCacheAssumption ==
    /\ "app" \in Parts /\ Nothing \notin Bytes
    /\ \A d \in Deployments : d.image \in Images
    /\ Nothing \notin Deployments
Lockstep == \A d, e \in Deployments : d.tag = e.tag => d.image["app"] = e.image["app"]
ASSUME LockstepAssumption == Lockstep

VARIABLES
    pods,      \* the deployment each pod runs
    doing,     \* where the request a pod serves is
    wanted,    \* the tag it is about
    store,     \* builds/<tag>/<binary>
    manifests, \* builds/<tag>/manifest.json, its sha256
    build,     \* a Build some client was given
    listed,    \* the flash manifest the station works from
    got,       \* the parts it has fetched
    device,    \* what the flash of the node holds
    flashed    \* esptool said that all was written

service == <<doing, wanted, store, manifests, build>>
station == <<listed, got, device, flashed>>
vars == <<pods, service, station>>

Builds == [tag : Tags, sha256 : Bytes, pinned : BOOLEAN]
App(p) == pods[p].image["app"]

-----------------------------------------------------------------------------
(* A fresh bucket, one pod, and a node with some old image. *)
Init ==
    /\ \E p \in Pods, d \in Deployments : pods = [q \in Pods |-> IF q = p THEN d ELSE Nothing]
    /\ doing = [p \in Pods |-> "idle"]
    /\ \E t \in Tags : wanted = [p \in Pods |-> t]
    /\ store = [t \in Tags |-> Nothing] /\ manifests = [t \in Tags |-> Nothing]
    /\ build = Nothing
    /\ listed = Nothing /\ got = [n \in Parts |-> Nothing]
    /\ \E d \in Deployments : device = d.image
    /\ flashed = FALSE

-----------------------------------------------------------------------------
(* Requests for a build *)

(* The object a tag is cached under. *)
OneKey(tag) == CHOOSE t \in Tags : TRUE
BinKey(tag) == tag

(* POST takes the pinned tag only; GET takes any. *)
AnyTag(p, tag) == TRUE
KnownTag(p, tag) == tag = pods[p].tag

Idle(p) == pods[p] # Nothing /\ doing[p] = "idle"

PostBuild(p, tag) ==
    /\ Idle(p) /\ KnownTag(p, tag)
    /\ doing' = [doing EXCEPT ![p] = "stat"] /\ wanted' = [wanted EXCEPT ![p] = tag]
    /\ UNCHANGED <<pods, store, manifests, build, station>>

GetBuild(p, tag) ==
    /\ Idle(p)
    /\ doing' = [doing EXCEPT ![p] = "look"] /\ wanted' = [wanted EXCEPT ![p] = tag]
    /\ UNCHANGED <<pods, store, manifests, build, station>>

ReadyFromManifest(p) ==
    /\ build' \in {build, [tag |-> wanted[p], sha256 |-> manifests[wanted[p]],
                           pinned |-> wanted[p] = pods[p].tag]}
    /\ doing' = [doing EXCEPT ![p] = "idle"]

(* The pod answers, with the digest of the binary it has itself. *)
Ready(p) ==
    /\ build' \in {build, [tag |-> wanted[p], sha256 |-> App(p),
                           pinned |-> wanted[p] = pods[p].tag]}
    /\ doing' = [doing EXCEPT ![p] = "idle"]

AfterMiss(at) == IF at = "stat" THEN "restat" ELSE IF at = "restat" THEN "put" ELSE "idle"

(* ensure_built before the lock and under it, and get_cached_build. *)
Stat(p) ==
    /\ doing[p] \in {"stat", "restat", "look"}
    /\ IF store[BinKey(wanted[p])] # Nothing
       THEN Ready(p)
       ELSE /\ doing' = [doing EXCEPT ![p] = AfterMiss(doing[p])]
            /\ UNCHANGED build
    /\ UNCHANGED <<pods, wanted, store, manifests, station>>

ManifestFirst(p) ==
    \/ doing[p] = "manifest" /\ store' = [store EXCEPT ![BinKey(wanted[p])] = App(p)]
                             /\ UNCHANGED manifests
    \/ doing[p] = "put" /\ manifests' = [manifests EXCEPT ![wanted[p]] = App(p)]
                        /\ UNCHANGED store

(* fput_object of the binary, then put_object of the manifest. *)
Upload(p) ==
    \/ doing[p] = "put" /\ store' = [store EXCEPT ![BinKey(wanted[p])] = App(p)]
                        /\ UNCHANGED manifests
    \/ doing[p] = "manifest" /\ manifests' = [manifests EXCEPT ![wanted[p]] = App(p)]
                             /\ UNCHANGED store

Put(p) ==
    /\ Upload(p)
    /\ IF doing[p] = "put"
       THEN doing' = [doing EXCEPT ![p] = "manifest"] /\ UNCHANGED build
       ELSE Ready(p)
    /\ UNCHANGED <<pods, wanted, station>>

(* The container restarts, or a call to MinIO raises, whether or not what   *)
(* it asked for was done.                                                   *)
Interrupted(p) ==
    /\ doing[p] # "idle"
    /\ Upload(p) \/ UNCHANGED <<store, manifests>>
    /\ doing' = [doing EXCEPT ![p] = "idle"]
    /\ UNCHANGED <<pods, wanted, build, station>>

(* Rolling update: a pod more, then a pod less, never none. *)
Deploy(p, d) ==
    /\ pods[p] = Nothing
    /\ pods' = [pods EXCEPT ![p] = d]
    /\ UNCHANGED <<service, station>>

Remove(p) ==
    /\ pods[p] # Nothing /\ \E q \in Pods \ {p} : pods[q] # Nothing
    /\ doing[p] = "idle"          \* Interrupted comes first
    /\ pods' = [pods EXCEPT ![p] = Nothing]
    /\ UNCHANGED <<service, station>>

-----------------------------------------------------------------------------
(* flash_via_manifest: the list and every part come from any pod. *)

FetchManifest(p) ==
    /\ pods[p] # Nothing
    /\ listed' = pods[p].image /\ got' = [n \in Parts |-> Nothing]
    /\ UNCHANGED <<pods, service, device, flashed>>

Unchecked(n, bytes) == TRUE
SameSha(n, bytes) == listed[n] = bytes

FetchPart(p, n) ==
    /\ pods[p] # Nothing /\ listed # Nothing /\ got[n] = Nothing
    /\ IF SameSha(n, pods[p].image[n])
       THEN got' = [got EXCEPT ![n] = pods[p].image[n]] /\ UNCHANGED listed
       ELSE listed' = Nothing /\ got' = [m \in Parts |-> Nothing]
    /\ UNCHANGED <<pods, service, device, flashed>>

(* write_flash: all of it, or an error and whatever was written so far. *)
WriteFlash ==
    /\ listed # Nothing /\ \A n \in Parts : got[n] # Nothing
    /\ \E written \in SUBSET Parts :
        /\ device' = [n \in Parts |-> IF n \in written THEN got[n] ELSE device[n]]
        /\ flashed' = (written = Parts)
    /\ listed' = Nothing /\ got' = [n \in Parts |-> Nothing]
    /\ UNCHANGED <<pods, service>>

-----------------------------------------------------------------------------
Next ==
    \/ \E p \in Pods : \/ \E t \in Tags : PostBuild(p, t) \/ GetBuild(p, t)
                       \/ Stat(p) \/ Put(p) \/ Interrupted(p)
                       \/ \E d \in Deployments : Deploy(p, d)
                       \/ Remove(p)
                       \/ FetchManifest(p)
                       \/ \E n \in Parts : FetchPart(p, n)
    \/ WriteFlash

Spec == Init /\ [][Next]_vars

-----------------------------------------------------------------------------
TypeOK ==
    /\ pods \in [Pods -> Deployments \cup {Nothing}]
    /\ doing \in [Pods -> {"idle", "look", "stat", "restat", "put", "manifest"}]
    /\ \A p \in Pods : doing[p] # "idle" => pods[p] # Nothing
    /\ wanted \in [Pods -> Tags]
    /\ store \in [Tags -> Bytes \cup {Nothing}] /\ manifests \in [Tags -> Bytes \cup {Nothing}]
    /\ build \in Builds \cup {Nothing}
    /\ listed \in Images \cup {Nothing} /\ got \in [Parts -> Bytes \cup {Nothing}]
    /\ device \in Images /\ flashed \in BOOLEAN

(* The digest of a build that names the pod's own tag is that of the binary *)
(* at its URL, and stays so: through uploads of two pods at once, retries   *)
(* of cut ones, rollouts and rollbacks.  Not so for the tag of an earlier   *)
(* image: _ready_build digests the binary of its own pod (storage.py:152),  *)
(* so the build of an old tag comes with the digest of the new binary.      *)
PinnedBuildExact == build # Nothing /\ build.pinned => store[build.tag] = build.sha256

(* What is cached under a tag never changes, whoever uploads it again: URLs *)
(* handed out stay good.                                                    *)
CacheWriteOnce == [][\A t \in Tags : store[t] # Nothing => store'[t] = store[t]]_vars

(* A manifest describes the binary that lies beside it (storage.py:230).    *)
ManifestDescribes == \A t \in Tags : manifests[t] # Nothing => store[t] = manifests[t]

(* A node that was flashed without an error holds the parts of one image,   *)
(* though its manifest and each part came from pods of a rollout under way. *)
FlashedWhole == flashed => \E d \in Deployments : device = d.image
=============================================================================
