# A TLA+ model of the T Cloud Public CSI driver

The driver (`src/`) implements the CSI controller and node services for Elastic
Volume Service (EVS) volumes. It keeps no state and takes no locks: a handler
reads the cloud, the mount table or the device, decides, and acts, while other
handlers, the cloud and the caller's retries go on. What makes it correct is
therefore the order of its reads and effects, and that is what the modules here
model and check with TLC. Every safety property of the passing runs is also proved
with TLAPS, for every value of the constants.

## Parts of the system

| Part | State | Operations | What is hard |
|---|---|---|---|
| Controller provisioning (`controller.go`, `evs/volume.go`) | none; the cloud's volumes and jobs | `CreateVolume`, `DeleteVolume` | list-then-create, lost replies, retries, jobs, deletions seen half way |
| Controller attachment (`controller.go`, `evs/attachment.go`) | none; the volume's status, the compute listing, the volume record | `ControllerPublishVolume`, `ControllerUnpublishVolume` | two views that disagree while an attachment moves; servers that compete |
| EVS client (`evs/client.go`, `evs/transport.go`) | none | requests, error classes, deadlines | no automatic retry of an effect; what ends a poll loop |
| Node service and mounter (`node.go`, `mount/mount.go`) | none; the mount table, the paths, the device | stage, publish, unpublish, unstage | two-step bind, rollback, killed commands, overlapping retries, formatting |
| Device discovery (`mount/mount.go`) | none; `/dev/disk/by-id` | `DiscoverDevice` | names reused between attach and stage, truncated serials |
| Plugin process (`main.go`) | the endpoint socket, signals, calls in flight | start, serve, stop | leftover sockets, a second signal, a call that never returns |
| Configuration, node metadata (`config/`) | none | parse, validate, fetch with retries | the overall deadline, documents that lack a fact |
| Identity, logging, version | none | constant answers, redaction | (strings only) |
| Conformance suite (`test/e2e`) | none of the driver's | | (not part of the driver) |

The container orchestrator (CO: the sidecars and the kubelet) calls the
services over gRPC. `CreateVolume` hands a volume ID to `ControllerPublishVolume`,
whose device path the CO hands to `NodeStageVolume`; nothing else connects the
parts, and every part finds out for itself what the others have done.

## Modules

| Module | Models |
|---|---|
| `Sizing` | `resolveSizeGiB`, `limitSizeGiB` as operators on int64 byte counts |
| `Provisioning` (extends `Sizing`) | `CreateVolume`, `DeleteVolume`, and EVS behind them |
| `NameStore` | abstract: a store with at most one volume per name, which `Provisioning` implements |
| `Listing` | the page walk of `ListVolumes` under one `DiscoverVolume`, and the project that changes meanwhile |
| `Attachment` | `AttachVolume`, `DetachVolume` with their controller handlers, and ECS behind them |
| `NodeContract` | abstract: when a volume may be mounted on a node, and what an unstage says |
| `NodeHost` | the four node calls over the mounter's commands; implements `NodeContract` |
| `Custody` (extends `Attachment`) | the controller and one `NodeContract` per server, joined by the CO |
| `DeviceIdentity` | `discoverDevice`, `DiscoverDevice`, and the use of the device it found |
| `Configuration` | `Parse`, `Validate`, `resolveEndpoint`, the node facts, as operators |
| `Lifecycle` (extends `Configuration`) | the plugin process and its endpoint |
| `SizingProofs`, `ProvisioningProofs`, `ListingProofs`, `AttachmentProofs`, `CustodyProofs`, `NodeHostProofs`, `DeviceIdentityProofs`, `LifecycleProofs` | theorems |
| `MC*` | the instances TLC runs, with their `.cfg` files |

`PROJECT.json` maps every definition to its lines. Definitions marked *Mutant* are
plausible mistakes in the code; each makes TLC find the property that is meant to
catch it violated.

### Provisioning

A *call* is one RPC; a retry is another call. `pc` says where its handler stands:
`list`, `decide`, `posted`, `job`, `fetch` for `CreateVolume`; `check`, `delete`,
`deleted`, `absence` for `DeleteVolume`. `seen`, `polls`, `observed` are the
handler's local variables, `wire` the fate of its one effect request (`sent`,
`applied`, `lost`). Every request to the cloud is a step of its own and the
cloud moves between them: jobs end well or badly, deletions end or fail, volumes
are attached, and other users of the project create volumes with the same names
and without the marker. A request carries its capacity range in bytes, which
`Sizing` turns into whole GiB as the code does, wrap-around of int64 included; a
place stands for a zone together with a volume type. The listing is one step:
`Listing` opens the page walk up. The error classes are `Transient` and `Terminal`, as the poll loops
distinguish them; a 404 is assumed to be given only for what does not exist.

Two constants say what is assumed of the surroundings. `SerialCO`: the CO has at
most one call per volume name in flight, as the CSI specification asks of it.
`LateEffects`: a request whose sender has given up may still reach the cloud.

`ImplementsNameStore` is the refinement: under a serial CO and without late
effects, with the driver's own live volume of a name as the store's entry, every
step is a step of `NameStore` or leaves it alone. Calls, jobs, polls and lost
replies have no place there; what is left is that a name holds one volume, an OK
to a create names the one it holds, and an OK to a delete names one that has been
there and is not any more.

### Listing

One walk: `res` is what has been fetched, `pages` the loop variable, and the offset
of a page is `Len(res)`. Between two pages volumes arrive anywhere in the listing,
leave it, or change their status. An entry is kept as far as `DiscoverVolume` tells it
apart: a near miss of the name, a volume that can never be adopted, or one of the
driver's own that is being made, ready, or leaving.

### Attachment

One volume, several servers, one call in flight per server. `phase`, `holder` and
`device` are the volume's state; the compute listing (`Listed`) omits an attach
that is accepted but not settled and shows one that is being detached, and the
volume record (`RecordedServers`) may not name the server of an attach under way.
A handler looks at the listing, sends its request, and then waits for its job and
for the state, or probes the record when it was refused with 400; a 409 is the
answer at once, `FailedPrecondition` to an attach and `Aborted` to a detach, and says
nothing of who holds the volume. `fallback` is what it
answers when a wait fails. Failures are counted in `faults` and bounded by
`MaxFaults`. A request that its sender gives up has its effect by then or never:
unlike `Provisioning`, the module has no requests that arrive late. `PatientCO`: the CO detaches only what it was told is attached.
`SteadyCO`: it repeats a detach until it is answered OK.

### Custody

`Attachment`, and for every server a node that keeps `NodeContract`: the volume is
mounted there (`using`) only between the call of a stage and an OK to an unstage
(`known`). The CO stages where the controller has answered OK to the attach, and
wants a detach only where it knows the volume unstaged; the two halves of the
driver share no state. `MountedWhereAttached` is what the composition is for: the
volume is mounted only on the server it is attached to. `NodeHost` is shown to keep
the contract by `KeepsNodeContract`, with the two mounts of its volume as `using`.

### NodeHost

One volume, used as a filesystem or as a raw block device, one staging path, one
target. A handler's `pc` is the host command that runs; the step that ends the
command has its effect. When the context ends, a running command is sent a kill and
the handler waits for it (`KillEnds`), with or without its effect; no other command is
started, but `os.Remove` and `rollBackBind` go on, while a retry may have started on
the other handler. `mkfs` opens the device exclusively, and a format that is cut
short leaves something that `blkid` does not know. A `blkid` that fails is followed by
`lsblk`, and what either shows is taken as it is: a tool in `Blind` may, as one of the
injected failures, show nothing of a filesystem that is there, and `misread` records,
for the properties, that it has. The remount of a bind takes the
flags of the source, of the publication and of the storage class in that order.
`staged` and `published` are what the CO knows; it repeats its calls until it has
what it wants, and changes its mind while no command of a call it has given up is
left.

### DeviceIdentity

`disk` is the volume behind each kernel name, `link` the serial of the by-id link
udev keeps to it, `path` the device path of the publish context. A stage looks at the
path, then looks for each link, then resolves each link it found, one step each,
while disks come and go, names are reused and udev catches up; afterwards the name
is used for whatever is behind it by then. The path reported by the cloud may be
any name. A link that dangles resolves to itself and does not agree. `misled` records, for the properties, that a link this call looked at did
not lead to the volume.

### Configuration and Lifecycle

`Configuration` keeps an endpoint by its parts, the environment by the variables
that are fit for use and the flags by the facts they give, since that is all `Parse`
distinguishes. A run of the plugin parses a setting and goes through `resolve` (with `backoff`
while the metadata service is retried), `register`, `clear`, `bind`, `serve`,
`stopping`, `armed` and is `dead`. A metadata document may lack either fact; a controller
authenticates at `register`; `tcp` has no path to clear; an error of the look at the path or of its removal ends the
start as a failing listen does, and is one with it. `path` is what the endpoint
path holds. A signal cancels the context; a later one is heard only once the second
`Notify` is `armed`. A process's memory is forgotten when it ends.

## Runs

| Run | Shows | Instance |
|---|---|---|
| `serial` | with a serial CO and no late effects: `OneVolumePerName`, `CreateIdempotent`, `CreatedFits`, `OthersUntouched`, `DeletedIsGone`, `AnswersUsableVolume`, and `NameStore` is implemented | 3 calls, 2 IDs, 1 name, 2 requests; 858 thousand states |
| `free` | without any assumption: `CreatedFits`, `OthersUntouched`, `DeletedIsGone`; and every call is answered | 2 calls, 2 IDs, 7 requests at the edges of the arithmetic; 589 thousand states |
| `race` | *violated*: two overlapping creates answer with two volumes | 2 calls |
| `listing` | `QuietWalkIsExact` and, while nothing leaves, `NothingSkipped` | pages of 2, bound 2, up to 5 volumes, 2 changes; 2 million states |
| `skip` | *violated*: a volume that leaves between two pages hides another | the same, 1 change |
| `custody` | `PublishedIsAttached`, `UnpublishedIsFree`, `MountedWhereAttached`, `AnswersMatchListing`, `RefusalIsReal`, and both wishes of the CO are met in the end | 2 servers with their nodes, 2 faults, also unusable device names and conflicts; 143 thousand states |
| `impatient` | *violated*: a detach answers OK while the attach is still settling | 2 servers, 1 fault |
| `device` | `StagedIsOwn`, `UsesOwnDisk`, `RefusedIsDoubtful`, `StageConverges` | 2 names, 3 volumes of which two share the cut serial; 213 thousand states |
| `overlap` | `ReleasedIsUnmounted`, `PublishHolds`, `DataKept`, `Converges`, and `NodeContract` is implemented, with overlapping retries | 2 handlers, 4 faults, both access types, both tools blind; 92 thousand states |
| `rollback` | *violated*: a late rollback unmounts what the retry has published | 2 handlers, 3 faults |
| `writable` | *violated*: the mount flag `rw` makes a read-only publication writable | 1 handler, 1 fault |
| `restart` | `FailedStartLeavesNoSocket`, `EndpointIsRecovered`, `ServesIdentified`, `NodeStartsAlone`, `StartDecides`, `SignalledEnds` | 2 processes, 2 calls, 2 signals each, 95 settings; 69 thousand states |

The bounds are the smallest at which the disputes happen. Three calls on one name
are a call, a retry and a deletion (or a second retry) between them; two IDs are
a duplicate; two absence polls are one that is not the last and one that is. A GiB
of 4 bytes, a minimum of 2 GiB and an int64 that ends at 31 leave ranges below the
minimum, between two whole GiB, at the largest size and beyond it. Five volumes in
pages of two, at most two of them, end within a page, on the bound and beyond it.
Two servers are a winner and a loser. Two names are one that is reused and one that
is not; of three volumes one is staged, one shares its cut serial and one does not.
Four faults interrupt a stage, a publish and two repeats of them. Deadlock is not
checked for `Provisioning` and `Listing`, whose calls are used up, and `Lifecycle`,
whose processes are.

The five violated runs are findings, described in `PROJECT.json`: each is a
disagreement between what the code does and what one of its own comments or
tests says. Three more behaviours of the kind need only a property or a value of a
constant that no run has. With `SerialCO` and `LateEffects` both true,
`CreateIdempotent` fails: the POST of an abandoned call reaches the cloud after the
retry has listed the name. With `SteadyCO` false,
`PublishedIsAttached` fails: an attach after an abandoned detach answers OK from a
listing that still shows what is being detached. With `lsblk` in `Blind`,
`FormatsUnformatted` (in `NodeHostProofs`) fails: `blkid` fails with a status other than
2, `lsblk` exits 0 and shows nothing of the filesystem that is there (it prints what
udev's record of the device says), and `GetFilesystemType` returns the empty string
without an error, of which mount.go:301 says "Empty string + nil err means unformatted;
detection failure is an error"; `mkfs -F` follows. `mount_test.go:850` covers only an
`lsblk` that fails too.

### What the properties leave out, and why

- `StagedIsOwn` and `UsesOwnDisk` except a call in which the path and a link are
  both wrong (`Deceived`): `DiscoverDevice` has no third witness.
- `StageConverges` excepts a volume whose cut serial another attached disk shares:
  udev keeps one link, and if it leads to the other disk the stage is refused for as
  long as both are there.
- `RefusalIsReal` is about refusals with 400. It lets a refusal stand when the probe
  itself fails or the window closes early, as the code does, and a 409 is answered
  without a probe.
- `DataKept` excepts the call whose own reading showed nothing of the filesystem: it
  has no other witness (see above). A reading that was right is
  still right when `mkfs` uses it.
- `OthersUntouched` takes the markers of a volume as they were made: nobody adds or
  removes one between the check and the DELETE.
- `PublishHolds` says of an answer that it is true when given, and that only a step
  of a call that was given up can undo it; `rollback` shows that this happens.
- `NothingSkipped` is about walks during which nothing leaves the listing; `skip`
  shows the rest.
- In `NodeHost` the CO does not turn around while an `umount` that was sent a kill is
  still running: a stage would find the path mounted, answer OK, and lose the mount.

### Fairness

`Provisioning`: a handler that runs takes another step, since every wait ends with
`maxOperationTimeout` at the latest; nothing is assumed of the cloud.
`Attachment`, `Custody`: handlers go on, the CO repeats a call that was not answered OK (the
attacher does), and the cloud finishes what it has accepted; injected failures are
finitely many. `NodeHost`: handlers go on, a command that was sent a kill ends, and
the kubelet repeats its calls. `DeviceIdentity`: udev handles every event in the end,
a call goes on and the kubelet repeats a stage.
`Lifecycle`: the process goes on and its timers fire, but a call need not return.
Liveness is claimed only of calls that the CO keeps wanting.

## Theorems

`ProvisioningProofs` proves, for every set of calls, IDs, names and requests, and
every `MinSize` and `MaxAttempts`:

- `TypeCorrect`: `TypeOK` always.
- `OthersUntouchedAlways`, `CreatedFitsAlways`, `DeletedIsGoneAlways`: with no
  assumption on the CO or on late requests. None of the three is inductive.
  `SafetyInv` adds what the handlers rely on: a volume's status, job and marker
  agree (`CloudOK`); a handler's place, request and answer agree (`ControlOK`); a
  create that is past its POST has a volume that fits (`CreateOK`, `Fits`); a delete that
  is past its check has a volume with the marker, and a marker never changes
  (`DeleteOK`); what a handler has listed is still true but for the status
  (`SeenOK`). The proof has one step per action.
- `OneVolumePerNameAlways`: assuming `SerialCO` and no `LateEffects`. The
  invariant `UniqueInv` adds that two calls on one name are never in flight
  together, and that while a handler relies on a free name (it has listed
  nothing, or its POST is under way) there is no volume of the driver's of that
  name.
- `CreateIdempotentAlways`, under the same assumptions: a volume that was answered
  and is not on its way out is the driver's one volume of its name.
- `AnswersUsableVolumeAlways`, under the same assumptions. `UsableInv` adds that what
  a handler has listed as adoptable, and what a create has made, stays usable while
  that handler runs: only a deletion of the same name could take it away, and a
  serial CO has none in flight.
- `ImplementsNameStoreAlways`, under the same assumptions: `Provisioning` refines
  `NameStore`. A step that makes a volume of the driver's is `Appear`, the end of a
  deletion or of a failed job is `Vanish`, an OK is an answer of the store
  (`AnswerIsTrue`, from `UsableInv`), and everything else leaves the store alone
  (`CloudIsSilent` for what the cloud does by itself).

`SizingProofs` proves of the arithmetic, for every width and every minimum (the
width a multiple of a GiB, as powers of two are):

- `AcceptedSizeIsLeast`: an accepted range is served by the size returned, and by
  no smaller one. `CreatedFitsAlways` rests on it for what it says in bytes.
- `RefusedSizeIsImpossible`: a range of non-negative bounds that is refused is
  served by no size.

`ListingProofs` proves, for every listing without an ID twice, every page size and
bound, and any number of changes during the walk:

- `ListingTypes`, from `Types`, which adds that no volume is listed twice.
- `QuietWalkIsExactAlways`. `QuietWalk` says that what has been fetched is a prefix
  of the listing and ends either with a full page or with the listing.
- `NothingSkippedAlways`. `Covered` says of a volume that was there when the walk
  began that it is beyond the offset or has been fetched, and `Later` how a volume
  may have changed between the two looks. An arrival moves a volume only away from the start of the
  listing; a departure, which breaks this, is the run `skip`.

They rest on lemmas about `InsertAt`, `RemoveAt`, `SubSeq` and concatenation
(`Inserted`, `Removed`, `PageOf`, `Fetched`) and on every set of IDs having a least
one (`LeastId`).

`AttachmentProofs` proves, for every set of servers and any number of failures:

- `TypeCorrect`, `AnswersAreListed` and `RefusalsAreReal` (of refusals with 400) for any CO, from `AnyCOInv`: a
  call in flight is one the CO wants (`CallIsWanted`), and the volume has a holder
  exactly while it is not free (`HolderKnown`).
- `PublishedStaysAttached` and `UnpublishedStaysFree` for a CO that is patient and
  steady (`OrderlyCO`). Each needs the other and two facts about the CO
  (`OrderlyInv`): a volume moves to or from a server only while the CO wants that
  (`MovesAreWanted`), and nothing published is wanted detached
  (`PublishedIsWanted`). The run `impatient` shows that the assumption is needed.

`CustodyProofs` extends them to the composition: every step of `Custody` is a step of
`Attachment` or leaves it alone (`CustodyImplementsAttachment`), so that `IInv` carries over, and
with it `MountedOnlyWhereAttached` follows from two facts: a volume is mounted
only where the CO knows it may be (`UsingIsKnown`), and that is where it is
attached (`StagedIsAttached`).

`NodeHostProofs` proves, for every finite set of handlers, any mount flags and any
number of failures:

- `ReleasedIsUnmountedAlways`. `WishInv` adds that at most one handler is one the CO
  still listens to (`OneHeard`), that a command, of a call given up or not, fits the
  present wish of the CO, which does not turn around while one is left over
  (`CallFitsWish`), that what the CO believes is ordered (`Belief`: published only
  when staged), and what the mounts then are (`StagingFits`, `TargetShowsVolume`).
- `DataKeptAlways`, for any `Blind`. `DiskOK` adds that a device without a filesystem
  carries no data and is not mounted, that one held by `mkfs` is not mounted either, and
  that a format runs on data, or `mkfs` is about to be started on a filesystem by a call
  the CO listens to, only where that call has misread the device.
- `FormatsUnformattedOnly`, where `Blind` is empty, from the same invariant: `mkfs` is
  started only on a device that carries no filesystem. The assumption is needed, as said above.
- `PublishHoldsAlways`, where no storage class has the mount flag `rw`; the run
  `writable` shows that the assumption is needed.
- `KeepsNodeContractAlways`: `NodeHost` refines `NodeContract`, from `WishInv`.
  With `MountedOnlyWhereAttached` this joins both ends of the driver.
- `NodeTypes`. That the stack of mounts on the target is bounded needs a count: the
  mounts there and the handlers about to bind are together no more than the
  handlers (`StackOK`).

`LifecycleProofs` proves, for every set of processes and settings:

- `FailedStartLeavesNoSocketAlways` and `ServesIdentifiedAlways`, from `LifeInv`: a
  socket is of a process that has bound it (`SocketIsOfServer`), a process ends
  once (`EndsOnce`), and services are built after the facts are there
  (`FactsBeforeServices`).
- `NodeStartsAloneAlways`, by cases on the step.
- `EndpointIsRecoveredAlways`, assuming that processes do not overlap: `SerialInv`
  adds that one process is alive at a time (`OneAlive`), that the path is clear
  when it is bound (`PathIsReady`), and that no run has found it taken (`NeverInUse`).

`DeviceIdentityProofs` proves `TypeCorrect`, `StagedOwnDisk` and `UsedOwnDisk` for any
names, volumes and serials. The invariant says that the volume's disk stays while a
call is running or staged (`Present`), what a call that runs has established
(`Calling`, `Compared`: a link that agreed led to the path, or misled it), and what may be mounted
(`Mounts`). `RefusalsAreDoubtful` adds that a disk has one name (`OneName`) and that a
link that was found and led to the volume does so until the call ends (`LinksLead`):
the volume's disk stays, and udev leaves the link of a disk that is there alone.

The proofs use the named assumptions of the modules on their constants, which TLC
evaluates in the runs.

Model-checked only: liveness (`EveryCallAnswered`, `AttachConverges`,
`DetachConverges`, `Converges`, `StageConverges`, `StartDecides`, `SignalledEnds`),
since fairness and `ENABLED` are out of the prover's reach. The violated runs are
counterexamples, and `NotFoundIsFree` and `PublishedIsMounted`, which they refute, have no theorem.

## Plan

What is left, in this order.

1. Proofs about single steps that liveness rests on: a handler's measure that every
   step of it decreases, in `Provisioning` and `Lifecycle`.
2. `Lifecycle` with overlapping processes (`Overlap`), for hosts that start a new
   plugin before the old one has ended.
3. The walk of `Listing` inside `Provisioning`, as a second refinement.

## Not modelled

Redirects, redaction, identity, version, access modes and parameters of a request:
text processing, field by field comparison and constant answers without an order of events. The
conformance suite: it is not part of the driver. The contents of errors and logs. A node
reboot: it clears the mount table and the kubelet's knowledge together. Several targets of one staged volume: each is
bound, remounted and unmounted by itself.
