# TLA+ specifications of the NexentaStor CSI driver

This directory holds TLA+ modules that model the driver's core logic, the TLC
configurations that check them, and TLAPS proofs about them. `PROJECT.json`
lists, for each definition, the source lines it stands for. Line numbers below
are of `pkg/driver/controllerServer.go` unless another file is named.

## 1. The system

The driver is one Go process that runs in a controller pod (once) and in a pod
on every node. It serves the Container Storage Interface (CSI) over gRPC to
Kubernetes' sidecars and the kubelet, the container orchestrator (CO) below, and
carries out each request with REST calls to a NexentaStor appliance through the
library `go-nexentastor`.

| Component | Source | State it keeps | Operations that matter | Modelled in |
|---|---|---|---|---|
| Controller service | `pkg/driver/controllerServer.go` | nothing but `nsResolverMap`; the appliance is its database | CreateVolume (new, from a snapshot, from a volume), DeleteVolume, CreateSnapshot, DeleteSnapshot, ControllerExpandVolume | `ControllerServer` |
| Choice of the appliance | `resolveNS*` in the same file, `utils.go` | none | resolveNS with zones, named appliances, volume IDs of version 1.3 | `ResolveNS`, `Placement` |
| Lists and queries | the same file | none | ListVolumes, ListSnapshots; GetCapacity, ValidateVolumeCapabilities | `Lists`; the queries are not |
| Node service | `pkg/driver/nodeServer.go` | `nsResolverMap`; the node's mount table | NodePublishVolume (share, ACL, mount, chmod), NodeUnpublishVolume | `NodeServer`, `Driver` |
| Identity service | `pkg/driver/identityServer.go` | none | Probe | `Config` |
| Configuration | `pkg/config/config.go` | one `Config` object that all services of the process share | New, Refresh, Validate | `Config` |
| Helpers | `pkg/arrays`, `utils.go` | none | mount options, ParseVolumeID | `NodeServer`, `ResolveNS` |
| Start-up | `driver.go`, `role.go`, `cmd/main.go` | none after the start | once, in sequence | not |
| NexentaStor (not in the repository) | | filesystems, snapshots, shares | | `NexentaStor` |

How they interact. Every request of the controller and the node service first
calls `refreshConfig`, which calls `Config.Refresh` and, when that reports a
change, makes new resolvers; Probe calls `Config.Refresh` only. Then the request
is resolved to an appliance, and its handler makes a handful of calls to it, one
after the other. gRPC runs every request in a goroutine of its own. There is no
lock anywhere, handlers do not look at their context, and nothing is stored
between requests: whatever a failed request left on the appliance, its retry has
to recognise.

What is hard here, and the properties that make each component correct:

* Controller service. Retries of requests that half succeeded; requests about
  related objects at once (three sidecars that do not know of each other);
  promotions, by which deleting a volume moves its snapshots to a clone; crashes;
  handlers that outlive their deadline. It is correct when what it answered OK
  stays true until the CO asks for something else (existence, size, share,
  contents, deletion), and when retries succeed in the end.
* Configuration. A shared object that is read and written by concurrent
  requests; files that are changed, broken and repaired; the configurations that
  StorageClass secrets carry. It is correct when each request is served with the
  configuration that was meant for it, and with resolvers made from it.
* Choice of the appliance. Maps iterated in any order; retries that may reach
  another appliance. Correct when all requests about a volume go where it is.
* Lists. Pages while objects come and go. Correct when an object that is there
  throughout is listed exactly once.
* Node service. Sharing and mounting in several steps. Correct when OK means
  that the volume that was asked for is mounted, with the access asked for.

`PROJECT.json` lists the hazards one by one, each with its line and the
properties about it.

## 2. The modules

| Module | What it is |
|---|---|
| `NexentaStor` | the appliance: a record of filesystems, snapshots, quotas, origins, contents and shares, and one operator per call. External: written from how the driver uses the calls |
| `VolumeLifecycle` | abstract: what volumes and snapshots a CO may see come and go |
| `ControllerServer` | the controller service, its handlers and the CO; instantiates `NexentaStor` and `VolumeLifecycle` |
| `ControllerServer_proofs` | types and existence: theorems that need no hypotheses |
| `TimelyController_proofs` | deletion, shares and sizes, without expired deadlines; extends the former |
| `VolumeLifecycle_proofs` | `ControllerServer` implements `VolumeLifecycle`; extends the former |
| `SourceData_proofs` | the contents of copies and snapshots; extends `TimelyController_proofs` |
| `ResolveNS` | volume IDs and the choice of the appliance, as operators |
| `Placement` | creations and deletions over several appliances; extends `ResolveNS` |
| `Placement_proofs` | the theorems about `Placement` |
| `Lists` | ListVolumes and ListSnapshots, page by page; extends `ResolveNS` |
| `Lists_proofs` | the theorems about `Lists` |
| `NodeServer` | the node service on every node, and the kubelets |
| `Driver` | extends `ControllerServer` and instantiates `NodeServer`: both on one appliance |
| `Driver_proofs` | the theorems about `Driver`; extends `TimelyController_proofs` |
| `Config` | the configuration, its refresh, and the resolvers of the services |
| `Config_proofs` | the theorems about `Config` |
| `MC...` | the requests, configurations and parameters of the instances for TLC |

### ControllerServer

`nef` is the appliance, `call[h]` what the handler h is doing, `answer[r]` what
the CO knows of the request r, `asked[r]` a history variable that holds what the
source of r contained when r was first made, and `faults` a counter.

A handler's `pc` names the next call it will make to the appliance. Each action
is one such call together with all the code up to the next one; these are the
points where handlers interleave, as they share nothing else. So
`CreateFilesystem` is lines 570-588, the call and the choice made on its
result; `GetFilesystem` goes on from there. `Resolve` stands for `resolveNS`
and for how each handler reads its error. `FailWith`, used by `Applied` and
`NefFails`, is a call that fails: before it has an effect, or after it (the
reply is lost). `ErrorCode` is the code each handler answers then. The
constructors `CreateVolumeReq`, `RestoreReq`, ... make the requests;
`SnapshotOf` is the snapshot path a handler computes.

The CO is modelled by what its sidecars do: a request is first made when the
objects it names are known (`Prerequisite`), is repeated until it is answered
OK, and is dropped when a later one replaces it (`Superseded`): a creation once
the deletion of the volume is asked for, an expansion once a larger one is.
Each sidecar has at most one call in progress for an object (`SameObject`), as
the provisioner, snapshotter and resizer do; different sidecars do not wait for
each other. Pods write to volumes that are known and not yet being deleted.

Failures: lost calls, lost replies, a destroy that stops after the promotion, a
restart of the driver (`Crash`), and, if `CallsTimeOut`, an expired deadline
(`Timeout`), after which the CO retries while the old handler runs on.
`MaxFaults` bounds their number and is the only bound of the module.

A promotion (`NexentaStor!AfterPromotion`) hands the snapshots up to the
clone's origin to the clone. The model has no creation times: the set that moves
is any that contains every snapshot with clones, which includes what the
appliance does and more. A promotion is refused (`PromotionRefused`) when the
clone has a snapshot of a name that would move to it; DeleteVolume answers
Internal then and nothing changes (796-801). That takes two snapshots of one name,
which `SameSnapshotName` shows to be possible: `Copies` asks for none, so no run
of section 3 fires the refusal (with such requests it does fire), but it is a step
in all of the proofs.

### VolumeLifecycle, and that ControllerServer implements it

A request is asked for, has its effects, and is answered. The abstract
specification has one action per effect: a volume is made (`Make`) or destroyed
(`Destroy`), a snapshot taken (`Take`) or discarded (`Discard`), each only while
a request that accounts for it is waiting for its answer, and only when that
request has not failed in the meantime. OK is answered only when what was asked
for is achieved (`AnswerOK`), and an error may be answered at any time, with or
without the effect (`Fail`). `Destroy` may hand snapshots to another volume
(`HandedOver`), with or without the destruction: that is the promotion. Retries,
handlers, shares, quotas and calls to the appliance do not occur.

`ControllerServer!Lifecycle` maps the variables: `vols` and `snaps` are those of
the appliance, `status` is `answer`; the constants `Makes`, `Takes`, `Destroys`
and `Discards` say which effects a request accounts for. A step of a handler is
one effect or a stutter; `Send`, `Reply`, `Timeout` and `Crash` change statuses
only. `ImplementsLifecycle` is checked by `OneVolume` and `Copies`. It says that
no cleaning up, no retry and no promotion has an effect on an object that its
request does not concern, and that no handler acts for a request that was
answered. With expired deadlines it is false, because late handlers do just that.

### ResolveNS and Placement

Go iterates over maps in any order, and appliances may not answer. So
`resolveNS(cfg, fs, down, p)` is the set of outcomes that are possible for the
parameters p, and `resolveNSNoZone`, `resolveNSWithZone`,
`resolveCompatibilityConfig` and `pickAvailabilityZone` keep the names of the
code. `"panic"` is an outcome: with no appliance to ask, the error that is
examined (205, 260) is nil. `Lookup` stands for the library's `Resolve`.

`Placement` repeats creations and deletions over several appliances: `Resolve` is
the choice, made anew by each try, `CreateVolume` and `DeleteVolume` what follows,
`id` the volume ID that was answered. A panic cuts off every call of the process
(`CutOff`), as a restart does. Only the presence of filesystems is kept of what
`ControllerServer` models. The module assumes what the README of the driver asks
for: one entry with `v13Compatibility`, and none of its volumes in a zone.

### Lists

`list` is a listing in progress: the entries of the configuration that the page
still has to visit, the entries collected, the token. `VisitVolumes`,
`VisitSnapshots` and `VisitSnapshot` are one turn of a loop each: a lookup
through `resolveNS` and one list. `SnapshotPage` is the driver's own cutting of a
list (1124-1148), `FilesystemPage` the library's. Other callers add and remove
objects at any time between the steps (`Add`, `Remove`); `steady` is the set of
those that were there all along. A `Failing` step has appliances that do not
answer, or a list that breaks off. The filters of ListSnapshots are IDs of the
current version; those of version 1.3 are in `ResolveNS` and `Placement`. Every entry has
a default dataset (`ConfigsOK`):
without one, ListSnapshots asks for the list of an empty path, and what comes of
that is up to the library.

### NodeServer

`work[w]` is a call in progress and its `pc` the next thing it asks of the
appliance or the operating system; `mounts[t]` is the stack of mounts at a target
path and `dirs` the paths that exist; `smb`, `acl` and `mode` are what the
appliance knows of a volume beside `nef`; `status[t]` is what the kubelet knows.
`GetFilesystem` reads whether the volume is shared, and the worker acts on that
later. An existing mount counts as success (274-279), so `CheckTarget` goes on to
`Chmod`. A target path belongs to one pod: it is published, with retries, then
unpublished, with retries, and not used again. The kubelet may give up publishing
whenever a call has failed. `late` remembers the target paths with an expired
publication. `RemoveUnmounted` answers OK although os.Remove may have failed
(`nodeServer.go:516-519` only log that), so the directory of an unpublished path
may stay behind, and `UnpublishedIsGone` is about mounts. An access list may let a
node read only (`Readers`); chmod through such an NFS share fails with a
"read-only" error, which the code tolerates (`nodeServer.go:290-293`): OK is
answered and the permissions are not set, so `PublishedIsUsable` claims them only
where the share is not read-only for the node (`ReadOnlyShare`). Mount options are sets,
and a regular expression is the set of
options it matches; of mounting errors only success and failure are kept.

### Driver

The two services share the appliance (`nef`) and `faults`. What passes from one
to the other is `usable`, the volumes whose creation was answered OK and whose
deletion was not asked for, and `Context`, computed by `VolumeContext` from the
parameters of the StorageClass as CreateVolume does (465-484). The CO first asks
for a deletion when no target path uses the volume. A filesystem that is destroyed
takes its SMB share, its ACL and its directory with it.

### Config

`file` is the config file and its modification time; `nsMap`, `lastModTime` and
`temporary` are the fields of the `Config` object; `resolvers[s]` are the data
each service last made its resolvers from (`FirstResolvers` at the start, 1417-1443);
`call[h]` is a request in progress. `reload` is a history variable: the requests
that took part in the last reload, with those it overlapped with, and the
service whose resolvers it makes.
`Stat`, `Compare`, `ReadFile`, `Load` are the steps of `Refresh`
(`config.go:62-96`) and `Rebuild` the loop of `refreshConfig` (73-97,
`nodeServer.go:47-68`). `Merged` is what `yaml.Unmarshal` does to a map that is
there: it replaces the entries it reads and keeps the others. `BadData` are the
entries `Validate` refuses. The caller `identity` is Probe, which skips
`Rebuild`. An error of os.Stat refuses the request (68). One of NewResolver is
looked at only after its result, which is nil then, was used (83-92), so the process
stops and starts again in `Init`. The assignments of a step are taken as one; concurrent writes of a
map, which the Go runtime may answer by stopping the process, are taken to
happen one after the other. `MaxEdits` bounds the changes of the file.

## 3. The runs

| Run | Module | What it asks | Result |
|---|---|---|---|
| `OneVolume` | `MCControllerServer` | one volume from creation (asked for with two sizes) over two expansions to deletion; 3 handlers, 3 faults | `GrantedVolumeExists`, `AckedCapacity`, `GrantedShare`, `DeletionIsFinal`, `ImplementsLifecycle` hold |
| `Copies` | `MCControllerServer` | snapshot, restore and clone of one volume against the deletion of both, with a pod that writes; 3 handlers, 1 fault | `TypeOK`, `GrantedSnapshotExists`, `SourceDataKept`, `GrantedVolumeExists`, `GrantedShare`, `DeletionIsFinal`, `ImplementsLifecycle` hold |
| `Retries` | `MCControllerServer` | requests that do not exclude each other, with expired deadlines and fairness; 2 faults | `GrantedVolumeExists`, `GrantedSnapshotExists`, `SourceDataKept`, `RetriesConverge` hold |
| `Placement` | `MCPlacement` | three appliances, two in one zone, one of version 1.3; 2 handlers, 2 faults | `IDLeadsToVolume`, `PlacedAsAsked`, `TypeOK`, `NoStrayCopies` hold |
| `Lists` | `MCLists` | every listing, with and without limits, while objects come and go; 1 fault | `TypeOK`, `ListedOnce`, `ListingComplete`, `ListingEnds` hold |
| `Nodes` | `MCDriver` | one volume on two nodes over SMB; one that is created with an access list by which its node may only read, published over NFS and deleted; 2 workers, 1 fault, expired deadlines | `NodeTypeOK`, `PublishedIsUsable`, `UnpublishedIsGone`, `CallsConverge` hold |
| `Refreshes` | `MCConfig` | two requests at once of the controller service and of Probe; secrets, 2 changes of the file | `TypeOK`, `ServedFromSecret`, `UnchangedMeansCurrent` hold |
| `SameSnapshotName` | `MCControllerServer` | two snapshots of one name | violates `SnapshotNamesUnique` |
| `ConfigProbe` | `MCConfig` | the identity service beside the controller service | violates `ServedFromFile` |
| `ListAll` | `MCLists` | ListSnapshots without a filter, over several appliances | violates `AllSnapshotsListed` |
| `NodeACL` | `MCDriver` | one target path over NFS, one worker, 1 fault | violates `ACLApplied` |
| `DataAddress` | `MCDriver` | the volumes of `Nodes`, both over NFS, without faults | violates `MountedFromDataIp` |

The passing runs say what the driver gives: as long as handlers end before their
callers give up and names are not shared between requests of different kinds,
what was answered OK stays true, through lost replies, crashes and promotions at
any point. `Retries` and `Nodes` say how much of this does not even need the
deadlines.

The violations are disagreements of the code with what its comments and
documents say; `PROJECT.json` quotes them under `findings`. In short: the check
that a snapshot name is free and its creation are two calls (823, 841); Probe
swallows changes of the configuration (`identityServer.go:42`); a page token is
sent to every appliance (1126); a SetFilesystemACL that failed, or was cut
off by a restart, is not made up for by the publication that is repeated, as it
finds the volume shared (`nodeServer.go:326`); and the node looks for `dataIP` where
CreateVolume wrote
`dataIp` (`nodeServer.go:246`).

The models show further consequences that have no run of their own:

* A handler that outlives its deadline creates a volume after it was deleted
  (578): `OneVolume` with `CallsTimeOut = TRUE` violates `DeletionIsFinal`, and
  likewise `GrantedShare` (a late handler deletes the share its successor made,
  555) and `AckedCapacity` (1385).
* A CreateSnapshot of a clone, under a name that the clone inherited from its
  source by a promotion, is answered OK with the old contents (844). A volume
  restored under the name of an ordinary new volume is answered OK without the
  data (646).
* In a chain v1, v2, v3 of clones, when the deletion of v1 and that of v2 are
  both under way and one is cut off after its promotion, a snapshot of v1 that was
  answered deleted can move to v2 and back (796, 973): `DeletionIsFinal` fails
  for it. `Copies` has one level of copies.
* A file that Validate refuses fails one request, and the next, which finds the
  modification time unchanged, is served with its entries in memory
  (`config.go:79`). Two requests that reload at once can leave the data of an old
  file behind under the modification time of the new one, until the file is changed
  again or a secret comes (`config.go:72-79`); this is why `UnchangedMeansCurrent`
  speaks of a last reload that overlapped with no other, whatever happened before.
  Entries that were removed from the file stay in the map. If Validate refuses one of
  them, it refuses the repaired file as well
  (86), and as the modification time is recorded by then, the requests after that
  are served with the resolvers of the old file: `ServedFromFile` is violated
  with the files {n1: d1}, {n1: d2, n2: bad}, {n1: d2} in turn.
* After two snapshots of one name were taken of a volume and of its clone, the
  volume cannot be deleted while its promotion would meet that name (796-801).
* A StorageClass with a zone that no appliance has stops the controller on every
  retry (260), and with it every other call in progress.
* A listing answers an empty list without an error for any failure of resolveNS
  (1113), and ListVolumes for a list that broke off (300).
* A publication that timed out can mount a volume after it was unpublished
  (`nodeServer.go:418-450`); `UnpublishedIsGone` excepts the target paths in
  `late`. A first publication that is read-only leaves a read-only ACL for the
  read-write ones that follow (319).

Bounds. `ControllerServer`: three volumes let a promotion move an origin while
another copy exists. Three handlers are one per request that can be in progress
on a volume and its snapshot at once. One fault reaches every single lost call,
lost reply or crash; two and three reach a failure of the retry. One write tells a
source before it from a source after it. `Placement`: two appliances in one zone
and one outside of it are the least that tell a choice from a rule; two datasets of
one name on two appliances make IDs ambiguous but for their entry; two handlers
let a panic or restart cut off another call. `Lists`: pages of one and two
entries, and unlimited ones, over up to three objects of a dataset give a first, a
middle and a last page; the configurations have one entry, two, and two with one dataset
in common. `Nodes`: two target paths of one volume on two nodes are what sharing at
once needs, and two workers a late call beside its retry; the third path brings
NFS, a read-only share, the parameters of a StorageClass and the deletion. A node
that makes an NFS share itself is reached by `NodeACL` only, as v1 of `Nodes` is shared
over SMB. In `Config` two entries tell a change from an addition or a removal; two
requests overlap in every way, and two changes put a broken file, or one that is
refused, between two good ones. `HandlerSymmetry` is used where only safety is
checked: handlers are interchangeable and no constant names one. Liveness is
checked without symmetry. The runs have between 10^4 and 2.4 * 10^6 distinct
states and take up to three minutes each with two workers.

The instances set `CHECK_DEADLOCK FALSE`: once every request of the instance was
answered, neither the CO nor the driver has anything to do.

Fairness. `ControllerServer!Fairness`: weak fairness of each handler, because
goroutines are scheduled, and a call to the appliance returns or fails; weak
fairness of the repetition of a request that was made, because the sidecars retry
with a backoff. `Lists!FairSpec`: a handler runs to its end and the caller asks
for the next page; nothing is assumed of those who add and remove. `Driver`: as
long as a worker can move or a failed call can be repeated, one of them does
(`NodeProgress`), which is weaker than fairness of each; the controller may stop.
No fairness is assumed of failures and crashes, whose number is bounded so that a
request meets finitely many, of the first making of a request, or of pods.
`RetriesConverge` is false if requests contradict each other for good (a volume
asked for with another size, say), so `Retries` uses requests that do not;
`CallsConverge` speaks of target paths with valid parameters (`Servable`).

Every property of a passing run has a mutant in `PROJECT.json`: a definition
marked "Mistake:" in the module, put in the place of the one after it, makes TLC
find the property violated.

## 4. The proofs

A theorem holds for every value of the constants that satisfies the named
assumptions of its module (`ConstantsOK`, `RequestsOK`, ...): any sets of
volumes, requests, handlers, nodes and appliances, any number of faults. What it
needs beyond these is a hypothesis, an ASSUME of the theorem, and is there
because the property is false without it.

| Theorem | States | Hypotheses |
|---|---|---|
| `ControllerServer_proofs!TypeCorrect` | `TypeOK` | |
| `!NoVolumeLost`, `!NoSnapshotLost` | `GrantedVolumeExists`, `GrantedSnapshotExists` | |
| `TimelyController_proofs!VolumeDeletionHolds` | the half of `DeletionIsFinal` about volumes | `~CallsTimeOut` |
| `!DeletionHolds` | `DeletionIsFinal` | `~CallsTimeOut`, `OriginalsOnly`, `NamesApart` |
| `!ShareHolds` | `GrantedShare` | `~CallsTimeOut`, `OneCreation` |
| `!CapacityHolds` | `AckedCapacity` | `~CallsTimeOut`, `SizesAgree` |
| `SourceData_proofs!SnapshotDataHolds` | the half of `SourceDataKept` about snapshots | `OneCreation`, `NamesApart`, `OneTaking` |
| `!SourceDataHolds` | `SourceDataKept` | the same, and `SourcesStay` |
| `VolumeLifecycle_proofs!Refinement` | `ImplementsLifecycle` | `~CallsTimeOut`, `OriginalsOnly`, `NamesApart` |
| `Driver_proofs!DriverTypeCorrect` | `NodeTypeOK` | |
| `!UnpublishedHolds` | `UnpublishedIsGone` | |
| `!DriverShareHolds`, `!PublishedHolds` | `GrantedShare`, `PublishedIsUsable` | `~CallsTimeOut`, `OneCreation` |
| `Placement_proofs!PlacementTypeCorrect` | `TypeOK` | |
| `!IDHolds`, `!PlacementHolds`, `!CopiesHold` | `IDLeadsToVolume`, `PlacedAsAsked`, `NoStrayCopies` | |
| `Lists_proofs!ListTypeCorrect` | `TypeOK` | |
| `!OnceHolds`, `!CompletenessHolds` | `ListedOnce`, `ListingComplete` | |
| `Config_proofs!ConfigTypeCorrect` | `TypeOK` | |
| `!SecretHolds`, `!UnchangedHolds` | `ServedFromSecret`, `UnchangedMeansCurrent` | |

### The hypotheses

* `~CallsTimeOut`: the CO waits until a handler answers. Handlers do not look at
  their context, so one that outlives its deadline acts for a request that was
  replaced; section 3 names the violations. Crashes, lost calls and lost replies
  are all allowed.
* `OneCreation`: a volume is asked for in one way only. A second creation of
  the name with another ACL finds the share there, deletes it and makes its own
  (555), and in between the volume whose creation was answered OK is not shared.
* `SizesAgree`: a creation that copies, or that asks for no size, asks for the
  size of the other creations of its volume. It takes a filesystem that is there
  as it is, without comparing sizes (646), and an ordinary creation does compare
  (583). A provisioner derives a volume's name from its claim, which has one size.
* `OriginalsOnly`: no copy is deleted, nor a snapshot of one. A counterexample
  needs one clone only: the deletion of v1 promotes the clone v2, which receives
  the snapshots of v1, and then fails to destroy v1. The deletion of v1@s finds
  no such snapshot and is answered OK; the deletion of v2 promotes v1, and v1@s is
  back. The code has no means to tell these.
* `NamesApart`: no user names a snapshot `k8s-clone-snapshot-<volume>` (700).
* `OneTaking`: a snapshot name is asked for by one request. A second one, for the
  same volume or a clone that inherited the snapshot, is answered OK with the
  contents of the first (844). A snapshotter makes names of its own that are unique.
* `SourcesStay`: no deadline expires, or no volume is deleted that others are made
  from. With both, a late creation makes the deleted source again, empty, and a
  clone of it that is still being retried copies that; three requests and one
  expired deadline are enough.

Each hypothesis holds in the instance of a passing run that checks the property,
so that none is vacuous: `OriginalsOnly`, `NamesApart` and `SizesAgree` in
`OneVolume` and `Copies`, `OneCreation` in `Copies`, `Retries` and `Nodes`,
`OneTaking` and `SourcesStay` in `Copies` (where no deadline expires) and in
`Retries` (where some do). (`OneVolume` checks `GrantedShare` although its two
creations break `OneCreation`: they ask for the same ACL. `Nodes` checks `PublishedIsUsable` with
expired deadlines of publications. `DriverShareHolds` carries what `OneVolume` and
`Copies` check of `GrantedShare` over to a driver with both services.) The theorems about
`Config` hold for any number of requests at once, of any of the services.

### The arguments

`ControllerServer_proofs`. None of the invariants is inductive: that a volume
exists when the request is answered follows from what its handler found several
calls earlier, while others ran. `IInv` adds to `TypeOK` that each handler's
request was made and that its `pc` is one its operation can be at (`Fits`), and
that what a handler past the creation (`Done`) will answer, or has answered, is
`Secured`: the object is there, or its deletion has been asked for by now.
`HandlerStep` says what a handler's step does: it moves the handler to a fitting
place, secures what it must, and takes nothing from the appliance but what its
own request deletes (`Keeps`). There is one lemma per call, and the one about
promotions (`PromotionKeeps`) shows that only snapshots of the volume that is being
destroyed move away. `SecuredStays` says that such a step leaves everything
secured that was, as whoever deletes has been asked to.

`TimelyController_proofs`. Without deadlines that expire, `Attended` is
invariant: a request that waits has exactly one handler on its object, and every
handler works for a request that waits and that nothing has replaced. This turns
the sidecars' rule of one call per object into a rule about handlers. `Proceeds`
says more about a handler's step than `HandlerStep`: it has one of six effects on
the appliance (`Effect`), an answer OK is true when the handler decides on it
(`Truthful`), and a creation goes on with a volume of its size (`Sound`). From
these follow, layer by layer, `VolumesGone` (nobody is left to bring a volume
back), `Lineage` and `SnapshotsGone` (origins lead from copies, so a promotion
hands an original's snapshots to a copy and never to an original), `Shared`, and
`Capacity`. The last is the conjunction of three: where a quota comes from
(`QuotaKnown`), that it is as large as all that was promised (`QuotaEnough`), and
that an expansion in progress does not shrink its volume (`Growing`), since the
resizer expands only what is smaller.

`SourceData_proofs`. `asked` is fixed when a request is first made; the copy is made
by some later try, from a snapshot that an earlier try, another request or a
promotion left. `DataInv` follows the writes along that way. The source holds them as
long as it is there, and so does every snapshot with the name of the request's,
wherever promotions have put it (`Held`); until the request is made there is no such
snapshot, unless it is a restore, and then it is still at the source (`Handed`), which
is why the right one is copied; and so does the copy (`CopyOK`). A step either
inherits all contents (`Inherits`: promotions, deletions and everything that touches
no contents), or fills a volume, or takes a snapshot (`CallData`). A source is not
made again since its creation was answered (`NotAgain`): there is no handler for it
that anybody waits for (`Heard`). Deadlines may expire in all of this.

`VolumeLifecycle_proofs`. One lemma per action: each effect of `Effect` is a
step of `VolumeLifecycle` or a stutter, which needs `Attended` (the request waits)
and `CloneHasSource` (a clone that goes on has made its snapshot).

`Driver_proofs`. `Turn` summarises a step of a worker: one of eight effects on the
shares, ACLs, mounts and directories, and an `Honest` answer; `Passes`
summarises the steps that only concern workers and kubelets.
`WorkersOK` is the part of the invariant that makes `UnpublishedIsGone` hold: for a
path that is not in `late`, no publication is left when the unpublication runs. For
`PublishedIsUsable` the controller has to keep what the node relies on:
`ControllerKeeps` takes `IInv` and `Shared` of the controller over to the steps of
`Driver`, `UsedOK` says that no volume in use is to be deleted, `MountsOK` that
only shared volumes are mounted and that a worker which takes a path for mounted is
right, and `ProvidedOK` that a path that was published, or will be, by an answer OK
has its permissions if it is `Writable`; the share of a volume in use stays as it is,
so a path does not become writable later.

`Placement_proofs`. `Serves` and `Placed` say, from the request alone, which
entries and paths may serve a creation. Everything `resolveNS` can answer to a
creation is `Placed`, whichever appliances are silent (one lemma per function of
the code), and everything it can answer to the ID is the one place in the ID. Two
creations are never placed at one path of one appliance (`Paths`, `DatasetsOK`),
so a deletion removes no volume but its own.

`Lists_proofs`. `IsPage` says what the two ways of cutting a page have in common:
it takes everything from its token up to the next one and nothing before, and
nothing at all if the token is not there; the proof that `Lowest` and `Highest`
exist uses that the order of the naturals is well-founded. Three properties of a
listing follow. What was shown of the dataset of a token lies before the token
(`OnceOK`), so the page that starts there repeats nothing, which holds however
objects come and go. A token names an object that is there, unless it is lost
(`TokensOK`). An object that was there all the time and lies before the token was
shown (`CompleteOK`). The first and the last need that a token can only be one of
a single appliance (`Orderly`, `Covered`); without that they are false, as
`ListAll` shows of the last.

`Config_proofs`. A request that loads is part of the last reload and carries what its
service and its secret call for (`LoadersOK`), so a reload with one member is the
only one in progress. `SecretsOK` follows the data of such a request's secret to
the resolvers. `FileOK` does so for a file whose modification time is recorded: the
one request that loads carries it, or it is in memory and in the resolvers
(`Current`). Both hold without a word about earlier reloads, as `Merged` puts what is
read before what was there, and an edit changes the modification time, by which the
file is unknown again.

### Model-checked only

* Liveness, which is out of the prover's reach, as is ENABLED: `RetriesConverge`,
  `CallsConverge`, `ListingEnds`.
* What the properties say with expired deadlines (`Retries`, `Nodes`), beyond
  the theorems that do not assume `~CallsTimeOut`.

## 5. What is not modelled, and the plan

Left out for good: logging, argument checks that only refuse a request, the
wording of errors, TLS, start-up (`driver.go`, `role.go`, `cmd/main.go` run once
and in sequence; `Driver.Validate` only logs), manifests. GetCapacity,
ValidateVolumeCapabilities and NodeGetVolumeStats read one value and change
nothing; staging, ControllerPublishVolume and NodeExpandVolume are Unimplemented.
Concurrent writes of a Go map (89) are taken to happen one after the other; that
the runtime may stop the process instead is covered by `Crash`. What the library
`go-nexentastor` does within a call, such as its choice between the two nodes of a
cluster, is outside of the repository.

Left for proofs:

1. What an expired deadline leaves of the theorems that exclude it (`~CallsTimeOut`):
   `Retries` and `Nodes` check some of it.
2. Theorems about `Driver` with more than the shares of the controller, such as the
   capacity and contents of published volumes.
