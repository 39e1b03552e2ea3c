# k8s-subvol-provisioner in TLA+

A model of the provisioner in `pkg/controller` and `pkg/driver`, the instances
TLC checks, and proofs TLAPS checks. Paths and line numbers refer to the
repository's source.

Run from this directory:

    tlc -config MCDedicated.cfg MCProvisioner.tla     # any of the configurations
    tlapm LiveDataProofs.tla                          # any of the *Proofs modules

## The system

On every node one process watches claims (PVCs), volumes (PVs) and
StorageClasses through informer caches, and a pool of workers reconciles them.

| Component | State it keeps | Operations | What makes it correct |
| :-- | :-- | :-- | :-- |
| Work queue and workers (`controller.go:225-254`, client-go) | waiting, delayed and held items, failures | `Add`, `Get`, `Done`, `Forget`, `AddRateLimited` | no event or failure lost, no object with two workers, failing objects end |
| Provisioning (`controller.go:281-316`, `391-636`, `pv_builder.go`) | `inProgress`; the PV in the API | `processPVC`, `isNodeTargeted`, `reconcileClaim`, `BuildPersistentVolume` | a published volume has its storage; nobody else's data is handed out; one node only; it happens at all |
| Deletion (`controller.go:318-334`, `666-741`) | `inProgress`; the PV in the API | `processPV`, `reconcileVolumeDelete` | live data is never destroyed; nothing is left behind; preserved when asked; it happens at all |
| Informers and restart (`controller.go:124-223`) | caches | `onPVCAdd`, `onPVAdd`, `onStorageClassAdd`, `Run` | stale reads are harmless; events in any order lead to the same result |
| Drivers (`driver/zfs`, `driver/btrfs`, `driver/dir`) | the filesystems | `Exists`, `Create`, `Delete` | each command's failure is told apart from its success |
| Live reconcile (`controller.go:807-949`, `Reconcile*` of the drivers) | quota, owner, mode, properties; the one-shot `apply` annotation | `reconcileVolumeState` | nothing applied without authorisation; an authorisation applies once; what is reported is what happened |
| Owner and mode (`owner_mode.go`) | the tree's owners and modes | `ReconcileOwnerModeAtPath` | converges; a partial failure is repaired |
| Path templates (`templater.go`) | none | `ParseStatefulSetPVC`, `EvaluatePathTemplate` | distinct claims get distinct paths |
| Configuration, command line, mock driver | none | parsing, wiring | - |

They interact through the API server (PVs created and deleted, events that come
back through the caches), through the queue (handlers add, workers take), through
the commands the drivers run, and through the `inProgress` map.

What is hard about it: decisions are made from caches that may be old; a check
and the command it guards are two commands; a reconcile can stop between any two
of its steps, by failure or by a crash, and has to be taken up again; claims of
different keys (`pvc:...` and `pv:...`) work on the same storage; and several
things are only ever done because some event or resync brings them back.
`PROJECT.json` lists each of these hazards at its line with the properties that
cover it.

## Modules

| Module | What it is |
| :-- | :-- |
| `WorkQueue` | the queue and the worker loop, also on their own (`QueueSpec`) |
| `Backend` | who owns the data at each path of each node, and the drivers' commands on it |
| `Provisioner` | extends both: the API objects, caches, workers, users and Kubernetes |
| `PathTemplate` | where a claim's volume is put: the parsing of names and the two shipped templates |
| `VolumeLifecycle` | abstract: in which order a volume's storage and object come and go |
| `VolumeRefinement` | the mapping under which `Provisioner` implements `VolumeLifecycle` |
| `OwnerMode` | the walk that puts owner and mode on a volume's files |
| `VolumeState` | extends `WorkQueue` and `OwnerMode`: live reconcile of a bound claim |
| `MCWorkQueue`, `MCProvisioner`, `MCVolumeState` | instances for TLC |
| `WorkQueueProofs`, `BackendProofs`, `ProvisionerProofs`, `LiveDataProofs`, `PathTemplateProofs`, `VolumeRefinementProofs`, `OwnerModeProofs`, `VolumeStateProofs` | theorems and proofs |

### How it corresponds to the code

`WorkQueue`. `dirty` and `holding` are the dirty and processing sets of
client-go's queue, `delayed` what `AddRateLimited` will add, `failures` is
`NumRequeues`. `FinishOk`, `FinishRetry` and `FinishGiveUp` are the three ways
`processNextWorkItem` ends, each with its deferred `Done`. An item is a node and
a key, since every node has a queue of its own.

`Backend`. `vol[n][p]` is the claim whose data the path holds, `Foreign` if it
was there before or was made as a parent, or `NoVol`; `kept` is the data that was
renamed or snapshotted. Every command that changes something is an operator with
its successes, refusals and failures: `zfs create -p` and `MkdirAll` succeed on an
existing target and make parents, `btrfs subvolume create` refuses the one and
makes none; `zfs destroy -r`, `RemoveAll` and a rename take everything below with
them (`Below` says what lies below what), `btrfs subvolume delete` refuses; a
command that fails may have done its work; ZFS and Btrfs take a failed check for a
missing volume, the directory driver reports it.

`PathTemplate`. A claim name is the sequence of what its hyphens separate, a path
a sequence of elements. `MCProvisioner` takes its claims' names from the README's
examples and computes `PathOf` and `Below` with this module, so that which claims
collide is not invented for the instance.

`Provisioner`. One action per step of a worker, with `pc` for its place in
`reconcile`:

| `pc` | The worker is about to | Code |
| :-- | :-- | :-- |
| `start` | look at the caches and take the guard (`IgnoreItem`, `RejectClaim`, `SecretFails`, `BeginProvision`, `BeginDelete`) | `processPVC`, `reconcileClaim:417-553`, `processPV`, `reconcileVolumeDelete:687-713` |
| `exists`, `make` | run the two commands of the driver's `Create` | `controller.go:570` |
| `publish` | create the PV | `controller.go:595-636` |
| `dexists`, `preserve`, `destroy` | run the commands of the driver's `Delete` | `controller.go:715` |
| `unpublish` | delete the PV | `controller.go:729-741` |
| `ok`, `err` | return to the worker loop | `controller.go:237-249` |

`job` is what the reconcile read at its start and goes on using, however old.
The reads at the start (claim, class, PV, `inProgress`) are one action: each
comes from a cache that may lag by any amount, so reading them at slightly
different moments shows nothing that one moment does not. `cClaim`, `cPv` and
`cClass` are a node's informer caches. A cache entry catches up by jumping to
the newest version and queues what the handler queues; an intermediate version
is seen by catching up earlier. `Restart` loses the queue, the workers and
`inProgress`, refills the caches and queues everything, as `Run` does.
`faults` counts failures of commands and API calls. API calls that fail may have
taken effect.

A claim of this model carries a name, a UID, its phase and the scheduler's
choice. What never changes about it is constant: class, path (`PathOf`, the
result of the template or of `subvol.io/subvol`), `adopt-existing`, and whether
`reconcileClaim` rejects it outright. Bound claims are ignored: their live
reconcile is `VolumeState`.

`VolumeState`. One bound claim and its volume. `want` is what the API holds of
the claim (the declaration, the one-shot `subvol.io/apply`, `subvol.io/dry-run`),
`seen` what the cache holds. `apply` counts which giving of the annotation it is,
so that `used` can record how many passes each of them let apply something. A
worker's pass goes through the steps of `reconcileVolumeState`:

| `pc` | The pass is about to | Code |
| :-- | :-- | :-- |
| `start` | look for the volume in the cache, take the guard, read the class (`Skip`, `Begin`) | `controller.go:301-313`, `807-852` |
| `quota` | resolve and set the quota (`RejectQuota`, `QuotaStep`) | `860-871`, `ReconcileQuota` |
| `owner` | walk the files (`OwnerStep`) | `873-891`, `owner_mode.go` |
| `props` | set and reset properties (`PropsStep`) | `893-908`, `ReconcileProperties` |
| `report`, `patch` | emit the event, remove the annotation (`Report`, `Patch`, `PatchFails`) | `910-949` |

A pass decides by the claim it read at its start, while users go on editing it.
Each step reads the volume when it runs. A failure of a step is logged and drops
what the step would have reported, and the pass goes on; a command that failed
may have done its work. `pass.clean` remembers, for the properties only, whether a
step failed. `present` says whether there is anything at the volume's mount path on
this host: it may go missing (unmounted, not imported, moved) and come back. Then
`OwnerStep` does what the code does, which is nothing, without an error
(`owner_mode.go:26-29`; `zfs.go:254` and `dir.go:120` do the same for a path that is
not set), and `pass.skipped` remembers it. `driver` is ZFS or directory (Btrfs
implements no reconciler and is skipped); `zfs inherit` is modelled as the code
calls it, with its arguments exchanged, which always fails.

`OwnerMode`. The files of a volume are numbered in the order of the walk, the
mount point first. `Width` stands for 2^32: a declared number is any integer, what
a file has is below `Width`, and comparison and `chown` cut it to that.
`Interrupted` is the set of trees that a walk which fails can leave.

### Abstractions to know about

- One PV per claim UID (`pvc-<uid>`), always with our provisioner's annotation,
  a class of ours, a node affinity, and a claim reference: `BuildPersistentVolume`
  makes no other. The PV's driver is registered: all three are.
- The binder binds in one step (`VolumeName` and phase together), and binds a
  claim only to the volume made for it.
- A crash ends the commands that were running.
- In `Provisioner`, events, logging, and the attributes of a new volume (quota,
  owner, mode, properties, encryption) are left out; failing to set one at creation
  is only logged.
- `AnnotateVolume` asks for a snapshot while the volume is `Available` or `Bound`.
  An annotation put on a volume that is `Released` already is left out: whether the
  deletion honours it depends on which version of the object its cache shows
  (`controller.go:712`), and a deletion under way ignores it. `SnapshotHonoured`
  promises nothing for it.
- `Paths` are the claims' paths and their parents. Other directories of a pool do
  not matter to any command on these. The mount point that ZFS leaves behind under
  a dataset that is not mounted is not a path of the model.
- In `VolumeState` a property is set or not set, and its value is left out; owner
  and group are one number; what a file's mode is compared and set to is its
  permission bits.
- StorageClasses are not deleted or edited (their parameters are immutable in
  Kubernetes; a class that is gone keeps its claims waiting as one that has not
  been created yet does); the controller has a node name.

## Runs

Every passing run checks that no error is found; the violations are disagreements
between the code and what its comments or documents say, each with its finding
in `PROJECT.json`.

| Run | Instance | Shows |
| :-- | :-- | :-- |
| `work_queue` | 2 workers, 2 items, 2 retries | the queue keeps every event and failure, and every item ends |
| `dedicated` | 1 claim (adopts), 2 workers, Btrfs, parent directories exist, 1 failure, 1 restart, annotations | type invariant; the guard refuses nobody; a published volume of a live claim has storage; its data stays, and so does its object |
| `nodes` | 2 nodes, class that waits for the scheduler | one node makes and the same one removes the volume |
| `one_worker` | 1 worker, directories, adopts, failures, a restart, resync | while nothing has failed, whatever the caches call for is in the queue or with the worker; the claim is provisioned and its volume removed in the end; annotated data is preserved while nothing has failed; every step is one of `VolumeLifecycle` |
| `shared_path` | the claims of two claim templates of one StatefulSet (shipped template), Btrfs, parent directories exist, 2 workers, no resync | no claim is given the other's data; a claim seen before its class is provisioned by the class's own event, or finds the other's data in its way |
| `volume_state` | 3 files (one a link), UIDs of 2 bits, 3 declarations, both drivers, both policies, 1 edit, 1 authorisation, 1 failure, 1 restart, the mount path missing once | type invariant (what is given to `chown` fits); "up to date" is true when all steps worked, of owner and mode when they were looked at; nothing without authorisation; links untouched; an authorisation applies once while nothing disturbs; declarations are applied and authorisations settled in the end |
| `reuse` (violation) | 1 name and path, 2 UIDs, 1 worker, ZFS, no failure | a stale delete re-run destroys the recreated claim's data |
| `lost_create` (violation) | 1 claim, 1 failure | a claim whose PV creation failed once is never provisioned |
| `two_claims` (violation) | the claims of two claim templates, directories | both claims get the directory |
| `nested` (violation) | "redis" and "data-redis-0", shipped template, ZFS | deleting the one destroys the other's data |
| `one_shot` (violation) | 1 authorisation, 1 edit | a pass from a stale claim applies a second time |
| `up_to_date` (violation) | ZFS, autoApply or 1 authorisation, a property that an edit takes out of the declaration again, no other failure | the pass whose `zfs inherit` fails reports that all matches |

The passing runs and the theorems say under which conditions the violated
properties do hold: `LiveDataKept` when no two claims share a path or have one
below the other's (`dedicated`, and the theorem for any number of them),
`EventuallyProvisioned` when claims adopt or nothing fails (and, on Btrfs, when the
parent directories exist, see below), `NoSilentAdoption` when the create command
refuses an existing target, `OneShot` while the declaration stays, nothing fails and
the mount path is there (`OneShotUndisturbed`), `UpToDateIsTrue` of passes in which
every step worked, but for owner and mode when the mount path was missing
(`UpToDateWhenClean`).

`dedicated` and `nodes` have one claim that is created once, and its safety rests on
the guards of provisioning and deletion: they say nothing of a path that is used
again (`reuse`), of nesting (`nested`), or of the two cases of the next paragraph.

Where classes have one target and claims paths of their own, `Lifecycle` and
`RemovedVolumeIsGone` have two exceptions in the code and no more. With
ZFS or Btrfs, once `zfs list` (or `btrfs subvolume show`) fails, `Delete` reports
success without having destroyed anything (`zfs.go:79`): `BlindCheck`. And with two
workers on a node, a provisioning that began before the cache knew the volume can
make the storage again between the deletion's destroy and the removal of the object
(`controller.go:437`): `Overlap`. Both are listed as hazards, and both show when the
instances are changed accordingly. The same overlap breaks `SnapshotHonoured`, and
`VolumesInHand`: the late provisioning publishes the object of a volume that its
node has already dealt with as `Released`, and nothing queues it until the object's
own event arrives. The theorems say that there is no further way, for any driver and
any number of workers, and that the claim of an overlap no longer exists
(`OverlapOnlyOfTheGone`): storage or an object may be left that nobody removes, but
no live claim is concerned. `nodes` and `one_worker` have one
worker per node and directories, where neither happens.

On Btrfs nothing makes the directories above a subvolume (`btrfs.go:110`). Even the
default template needs the namespace's directory. A claim whose parent is missing is
refused at every retry, event and resync until somebody makes it; then
`EventuallyProvisioned` promises nothing (`Parentless`), and the Btrfs instances
start with the parents there. It is listed as a hazard.

`SnapshotHonoured` is about the annotation on the volume, and about behaviours
in which nothing has failed: after a failed rename or snapshot the drivers warn
and destroy (`zfs.go:409`, `btrfs.go:174`). README.md:73 lists
`subvol.io/snapshot-before-delete` under "PVC Annotations"; the code reads it
from the PV (`controller.go:712`), and `BuildPersistentVolume` does not copy it
there, so on a claim it has no effect.

`GrantSettled` says that the authorisation goes, not that it was used: the patch
that removes it is unconditional (`controller.go:941`), so one given between the
pass's read and its patch is removed unused. Nothing in the code promises
otherwise.

### Bounds

- `MaxRetries` is 0 to 2 for the code's 5: what matters is whether retries are
  left, and with 1 both cases occur. 0 in `one_worker` and `volume_state` makes one
  failure enough to run out of retries, and in `shared_path` one refused create.
- `MaxFaults` and `MaxRestarts` bound failures in a whole behaviour. One failure
  (two in `one_worker`) is placed by TLC at every command and API call, before or
  after it took effect, and a restart between any two steps. The runs with
  `MaxFaults = 0` ask about the order of steps alone; commands that the code makes
  fail by themselves (a create on an existing target, `zfs inherit`) still do.
- Two workers are enough for a race on one object or path (a third worker can
  only take a third item); the code's default is 4. Two claims are enough for a
  name, a path, a parent directory or a class to be shared. Workers of one node are
  symmetric, and so are the two nodes of `nodes`. Runs with liveness use no
  symmetry.
- In `volume_state` one claim has one worker at a time by the queue's exclusion,
  so a single worker loses nothing; three files give the walk a root, a link and a
  last file to miss; two bits of UID let a declared 5 be cut to 1 and -1 to 3, the
  number `chown` ignores. One edit, authorisation, failure, restart and absence of the
  mount path (`MaxAbsences`) each can fall into any step of any pass. The three
  declarations are one of everything, one of an owner `chown` ignores with a mode, and
  one whose quota does not parse; the edit leads from any to any other. Each of the two
  violations has two declarations of its own.
- Deadlock is not checked in `MCProvisioner` and `MCVolumeState`: once every claim
  has been deleted, or nothing is left to change, the system rests. `MCWorkQueue`
  checks it.

### Fairness

`QueueFairness` and `Fairness`: every call of a reconcile returns and its worker
goes on (weak); a back-off ends (weak); watches deliver, resyncs recur, the
binder and the scheduler act (weak); an item that waits is taken by some worker
in the end (strong, per item, because the queue is FIFO and every worker comes
back for more). Users, failures and restarts are never obliged to happen.
`shared_path` has no resync, so it shows that events alone suffice there. In
`VolumeState` the resync is what `EventuallyApplied` and `GrantSettled` rest on: a
claim whose volume is not in the cache yet is dropped, and the event of the volume
does not bring it back; nor does anything report that a mount path is back. The mount
path is not obliged to come back (`Reappear`): `EventuallyApplied` is about claims
whose path is there and stays.

## Proofs

For every value of the constants that satisfies the modules' assumptions:

| Theorem | Says |
| :-- | :-- |
| `QueueTypeCorrect`, `ExclusionHolds`, `FailureIsRetriedHolds`, `EventNeverAbsorbedHolds` (`WorkQueueProofs`) | the queue's safety |
| `TypeCorrect` (`ProvisionerProofs`) | `Spec => []TypeOK` |
| `OneWorkerPerObject` | exclusion, also across restarts, for all nodes' queues together |
| `GuardNeverRefusesHolds` | the in-progress guard never refuses a reconcile |
| `FailedReconcileIsRetried` | an item with failures counted is backing off, waiting or with a worker, also across restarts |
| `LiveObjectKeptHolds` (`LiveDataProofs`) | no step removes the volume object of a claim that exists, with no proviso at all |
| `ClaimsInHandHolds` | with no proviso: while nothing has failed, a claim that a node has to provision is in its queue or with one of its workers |
| `LiveClaimBackedHolds` | under `DedicatedPaths`, a live claim's published volume has its storage |
| `LiveDataKeptHolds` | under `DedicatedPaths`, no step takes a live claim's data away |
| `NoSilentAdoptionHolds`, `NoLiveAdoptionHolds` | under `Guarded` and `Retained` no claim that does not adopt is published with data that is not its own; under `Guarded` and `DedicatedPaths` none that still exists is |
| `SingleHomeHolds` | under `OneTarget`, no two nodes hold a volume made for one claim |
| `GeneratedNameParsed`, `ExamplePathShared`, `ExamplePathNested` (`PathTemplateProofs`) | what parsing gives back, and which claims the shipped template puts on or below one another |
| `DefaultTemplateKeepsData`, `ExampleTemplateKeepsData` | the conditions on claim names under which the two templates keep live data |
| `VolumesInHandHolds` (`VolumeRefinementProofs`) | under `OneTarget` and `[]Apart`, while nothing has failed, a released directory that a node has to delete is in its queue or with a worker |
| `SnapshotHonouredHolds` | under `OneTarget`, `DedicatedPaths` and `[]Apart`, with any driver: while nothing has failed, annotated data is preserved before it is destroyed |
| `LifecycleKept`, `RemovedVolumeIsGoneHolds` | under `OneTarget`, `DedicatedPaths`, `[]Apart` and `NeverBlind`, with any driver and any number of workers: the provisioner implements `VolumeLifecycle` for every claim on every node, and an object goes only after its storage |
| `OverlapOnlyOfTheGone` | with no proviso: a claim whose deletion overlaps its provisioning no longer exists |
| `OneWorkerApart` | under `OneTarget`, one worker per node gives `[]Apart` |
| `DirectoriesNeverBlind` | directories give `NeverBlind` |
| `LinksKept`, `WalkConverges`, `NoChangesNoEffect` (`OwnerModeProofs`) | no walk touches a link; a complete one leaves nothing to do; one that reports nothing does nothing |
| `StateTypeCorrect`, `UpToDateWhenCleanHolds`, `NothingUnauthorisedHolds`, `LinksUntouchedHolds` (`VolumeStateProofs`) | the safety of the live reconcile; `UpToDateWhenClean` excepts owner and mode of a volume whose mount path was missing |
| `OneShotUndisturbedHolds` | an authorisation is used once while nobody edits the claim, nothing fails and the mount path is there, whatever restarts and however stale the copies of the claim are |

So every invariant and action property of the passing runs is also a theorem; only
liveness is not. The hypotheses are not assumptions of the modules:

- `DedicatedPaths`: no two claims evaluate to one path, or to one below the
  other's. `reuse` and `nested` show that both parts are needed.
- `Guarded(u)`: the claim's class is a Btrfs one, whose create command refuses what
  exists, or nothing was at the claim's path and no other claim has that path or
  one below it. `two_claims` shows what happens otherwise. `Retained(u)`: no class
  that deletes has a claim whose path is at or above this one, so that what was
  made is not taken away, and made by another, before it is published.
- `OneTarget`: every class names its node or waits for the scheduler, and not
  both, as README.md:40-41 describes.
- `Apart`, a condition on the behaviour: no provisioning of a claim is under way
  while a worker deletes its volume. In the default configuration, with 4 workers
  (`main.go:63`), the code does not ensure it: the guards of the two have different
  keys (`reconcileKey`). What it excludes is just that race. It needs a claim that was
  deleted while a provisioning of it, begun before its object was in the cache, is
  still running (`OverlapOnlyOfTheGone`); one worker per node (`--workers 1`) rules it
  out (`OneWorkerApart`).
- `NeverBlind`, a condition on the behaviour: no deletion's check for existence fails
  and is taken for "gone" while the storage is there. The ZFS and Btrfs drivers do
  not ensure it, the directory driver does (`DirectoriesNeverBlind`). Every other
  failure, of destroys, renames and API calls, before or after they took effect, is
  allowed.

The inductive invariants:

- `Inv` is `TypeOK` and `WorkOK`: a worker that is not idle holds an item of its
  own node, and one past the guard works for a claim. `TypeOK` alone is not
  inductive, since what a worker publishes is looked up through what it holds.
- `GuardOK` says that a key in `inProgress` belongs to a worker that is past the
  guard and holds that key. With `Exclusion`, no other worker can be about to
  reconcile it: that is `GuardNeverRefuses`. So the queue already excludes what
  the guard excludes, and its silent `return nil` loses nothing.
- `LifeInv` needs no hypothesis. `BornOK`: only created claims are known to caches,
  workers or volumes. `DoomedOK`: only claims that are gone for good are
  `Released`, in the API or in any cache, or are being deleted. The argument is
  that a UID is never used twice: however old a cached `Released` is, its claim is
  dead. `LiveObjectKept` follows at once. Under `DedicatedPaths` a delete
  therefore works at a dead claim's path only, `ReconcileStorage` bounds what its
  commands reach, and `BackedOK` is inductive: what is published, or about to be,
  has its storage unless its claim is gone.
- `MadeInv`: at a path that only one claim uses is that claim's data or none; who is
  about to publish has its claim's data before it, unless a deletion can reach it.
- `CachedOK` and `ClaimsHeld`: a volume that a cache holds exists or its claim is
  gone, so no reconcile passes over a claim that has none; and what is due is
  queued, or with a worker that has yet to look or is already at it (`Held`), which
  is what a step preserves. `InHand` by itself is not inductive: a worker that
  holds the item may be working for an earlier claim of that name, or be about to
  return. `NewsQueued` says that all a cache learns is queued, `HeldKept` that
  nothing but its own worker or a restart takes an item out of hand. `VolumesHeld`
  is the same for deletions, and rests on `CacheInv`.
- `HomeInv` ties a claim to one node (`Tied`, `Marked`): the scheduler's choice in
  the API, that choice in any cache, a worker on its way, the storage, the object
  and its cached copies all name the same one, and none of them is there before
  the scheduler has chosen.
- `TiedOK` is its consequence for what touches a claim's volume, and `KeyOK` says that
  who provisions a claim holds its key and who deletes it the volume's: with the
  queue's exclusion two provisionings, or two deletions, of one claim are never under
  way at once. With `Apart`, at most one worker is at a claim at all (`Sole`), and
  `CacheInv` holds: a node that takes a volume for `Released` is right or the object
  is gone (`CacheTrue`), and then nobody provisions it (`NoRevival`); a deletion goes
  by an annotation that is true (`DeletesTrue`). `PreservedFirst` adds that what is
  about to be destroyed and was to be preserved has been.
- `Order` (`J1` to `J6`) relates storage and object: storage is missing under an
  object only while its node's cache calls the volume `Released`; a deletion
  removes the object only when the storage has gone, and a provisioning publishes
  only when it is there. With it every step maps to one of `VolumeLifecycle` or to
  a stutter.
- `StateInv` follows a pass: what its steps have found in place
  (`QuotaFound`, `OwnerFound` unless it was skipped, `PropsFound`) stays so until it
  reports, because no other pass can run (the queue's exclusion) and users do not
  touch the volume.
- `OneShotOK`: while nothing disturbs, every copy of the claim, cached or in a pass,
  differs from the API's at most in the annotation; a pass that applies leaves
  behind it what is settled (`PassOK`); and if an authorisation has been used, all
  is settled (`UsedOK`), so that a pass which still shows it finds no change.

Each was checked with TLC on small instances, or the property it is for was, before
it was proved. That is how the overlap was found; with two workers on a node, and
behaviours cut where `Apart` or `NeverBlind` fails, TLC finds the four properties
kept for each of the drivers.

Only model-checked: liveness (`EventuallyReconciled`, `RetriesEnd`,
`EventuallyProvisioned`, `EventuallyRemoved`, `EventuallyApplied`, `GrantSettled`).
It needs fairness and `ENABLED`, which are out of the provers' reach.

The operators marked as faults in the modules are not part of the
specifications: each turns one operation into what a plausible mistake would
make of it, and makes a checked property fail.

## Not modelled

- Quarantine names and their resolution of one second (`zfs.go:407`): time is not
  modelled; a rename that fails is.
- Values of properties, and their comparison as text (`zfs.go:333`); the formats of
  `zfs get`; Btrfs quota groups, whose failures are only logged; `hostPrefix`.
- Malformed owner and mode annotations, which a live reconcile takes for none
  (`controller.go:876`): the declarations of `VolumeState` are parsed ones.
- The controller without a node name (`controller.go:394`): the DaemonSet sets
  it, and the code mentions the mode for tests. `reconcileClaims`
  (`controller.go:358`) is called by tests only.
- A class that binds immediately and names no node, or names one and waits for the
  scheduler as well: README.md:53 excludes both, no property promises anything for
  them, and `OneTarget` leaves them out.
- Deletion of StorageClasses, see above.
- The files of a volume changed by others during a walk: a file replaced by a link
  between the walk's look at it and its `chown`, which follows links.
- Commands that never return: fairness assumes that they do.
- Templates other than the two that are shipped.

What could follow: a theorem that `Provisioner` implements `QueueSpec` with
restarts added, and what the in-hand invariants become once something has failed
(an item that was given up waits for the next event or resync).

Configuration parsing, the command line and the mock driver stay out: they hold
no state a property could be about.
