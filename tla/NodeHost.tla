------------------------------ MODULE NodeHost ------------------------------
(***************************************************************************)
(* NodeStageVolume, NodePublishVolume, NodeUnpublishVolume and             *)
(* NodeUnstageVolume (internal/driver/node.go) over the mounter            *)
(* (internal/mount/mount.go), for one volume on one node, used as a        *)
(* filesystem or as a raw block device: a staging path, a target path and  *)
(* the device, which is the right one (module DeviceIdentity).  It keeps no*)
(* state and takes no lock; what it knows it reads from the mount table    *)
(* and from blkid or lsblk.  The end of a call's context kills the host command     *)
(* that is running, whose effect may have happened by then, and starts no  *)
(* other; but directories are made and removed, and a bind is rolled back, *)
(* regardless, while the CO may already be repeating the call.             *)
(***************************************************************************)
EXTENDS Integers, Sequences, FiniteSets

CONSTANTS
  Handlers,      \* handler goroutines: with one, a retry waits for the call it repeats
  FsType,        \* the filesystem the storage class asks for
  OtherFsType,   \* a filesystem the device may already carry
  MountFlags,    \* the mount flag of the storage class: "none", "ro" or "rw"
  Blind,         \* the tools that may show nothing of a filesystem that is there
  MaxFaults      \* bound on the failures injected in one behaviour

ASSUME HandlersAssumption == IsFiniteSet(Handlers) /\ Handlers # {}
ASSUME FsAssumption == FsType # OtherFsType /\ {FsType, OtherFsType} \cap {"none", "blank", "partial"} = {}
ASSUME FlagsAssumption == MountFlags \subseteq {"none", "ro", "rw"} /\ "none" \in MountFlags
ASSUME BlindAssumption == Blind \subseteq {"blkid", "lsblk"}
ASSUME FaultsAssumption == MaxFaults \in Nat

VARIABLES
  disk,       \* what the device carries: "blank", "partial" (a format cut short) or a filesystem
  data,       \* the workload has written to the filesystem
  staging,    \* the mount at the staging path: "none", "rw" or "ro"
  target,     \* the mounts at the target path, topmost first
  dirs,       \* which of the two paths exist
  pc,         \* where each handler stands; a command name while the command runs
  ended,      \* the call's context has ended
  own,        \* the bind at the target is this call's
  misread,    \* the call was shown nothing of a filesystem that is there
  want,       \* the CO wants the volume "up" (published) or "down" (unstaged)
  staged,     \* what the CO knows: "no", "maybe" or "yes"
  published,  \* likewise
  readonly,   \* the publication is read-only
  block,      \* the volume is used as a raw block device
  flag,       \* the mount flag
  faults      \* failures injected so far

vars == <<disk, data, staging, target, dirs, pc, ended, own, misread, want, staged,
          published, readonly, block, flag, faults>>
diskVars == <<disk, data>>
mountVars == <<staging, target, dirs>>
volumeVars == <<block, flag>>
callVars == <<ended, own, misread>>
coVars == <<want, staged, published, readonly, volumeVars>>

(***************************************************************************)
(* The host.                                                               *)
(***************************************************************************)
Mounted(path) == IF path = "staging" THEN staging # "none" ELSE target # <<>>

\* Mutant: the device number of the path is compared with its parent's, which is no
\* different for a bind.
IsMountPointByDevice(path) == path = "staging" /\ Mounted(path)

\* What the plugin reads of a path, from the mount table: binds are found too.
IsMountPoint(path) == Mounted(path)

\* mkfs opens the device exclusively: no mount then, and no second mkfs.
Held == \E h \in Handlers : pc[h] = "format"

\* What a mount of the device or of the staging path yields.
StagingMode == IF flag = "ro" THEN "ro" ELSE "rw"
BindSource == IF block \/ staging # "none" THEN "volume" ELSE "directory"

(***************************************************************************)
(* The steps by which commands take effect.                                *)
(***************************************************************************)
\* mount of the device; the kernel refuses a second one, and anything that is no filesystem.
CanMount == staging = "none" /\ "staging" \in dirs /\ disk = FsType /\ ~Held

MountsDevice ==
  /\ CanMount
  /\ staging' = StagingMode
  /\ UNCHANGED <<target, dirs>>

\* mount --bind inherits the source's flags and hides what was at the target.  The source is
\* the staging path, or the device itself.
CanBind == "target" \in dirs /\ (block \/ "staging" \in dirs)

BindsTarget ==
  /\ CanBind
  /\ target' = <<[source |-> BindSource, ro |-> staging = "ro"]>> \o target
  /\ UNCHANGED <<staging, dirs>>

\* Mutant: the remount restates the source's flags only.
RemountFlagsOfSource == staging = "ro"

\* The flags of the remount: the source's, then "ro" for a read-only publication, then the
\* mount flags.  The last of conflicting ones wins; only a read-only source drops "rw".
RemountFlags == staging = "ro" \/ (readonly /\ flag # "rw")

\* mount -o bind,remount sets the flags of the topmost mount.
RemountsTarget ==
  /\ Mounted("target")
  /\ target' = <<[target[1] EXCEPT !.ro = RemountFlags]>> \o Tail(target)
  /\ UNCHANGED <<staging, dirs>>

Unmounts(path) ==
  /\ Mounted(path)
  /\ staging' = IF path = "staging" THEN "none" ELSE staging
  /\ target' = IF path = "target" THEN Tail(target) ELSE target
  /\ UNCHANGED dirs

Init ==
  /\ disk \in {"blank", FsType, OtherFsType}
  /\ data = (disk # "blank")
  /\ staging = "none" /\ target = <<>> /\ dirs = {}
  /\ pc = [h \in Handlers |-> "idle"]
  /\ ended = [h \in Handlers |-> FALSE]
  /\ own = [h \in Handlers |-> FALSE]
  /\ misread = [h \in Handlers |-> FALSE]
  /\ want = "up" /\ staged = "no" /\ published = "no" /\ readonly = FALSE
  /\ block \in BOOLEAN
  /\ flag \in IF block THEN {"none"} ELSE MountFlags
  /\ faults = 0

Fault ==
  /\ faults < MaxFaults
  /\ faults' = faults + 1

\* The command runs and has not been killed.
Runs(h, command) == pc[h] = command /\ ~ended[h]

Goto(h, place) == pc' = [pc EXCEPT ![h] = place]

\* The handler returns; a caller that has given up does not hear of it.
Return(h) == pc' = [pc EXCEPT ![h] = "idle"] /\ UNCHANGED <<staged, published>>

ReturnOK(h, what, belief) ==
  /\ pc' = [pc EXCEPT ![h] = "idle"]
  /\ staged' = IF what = "staging" /\ ~ended[h] THEN belief ELSE staged
  /\ published' = IF what = "target" /\ ~ended[h] THEN belief ELSE published

\* The CO has one call at a time that it has not given up.
MayStart(h) ==
  /\ pc[h] = "idle"
  /\ \A g \in Handlers : pc[g] # "idle" => ended[g]
  /\ ended' = [ended EXCEPT ![h] = FALSE]
  /\ own' = [own EXCEPT ![h] = FALSE]
  /\ misread' = [misread EXCEPT ![h] = FALSE]

(***************************************************************************)
(* NodeStageVolume: FormatAndMount.                                        *)
(***************************************************************************)
\* The staging path is made; a raw block device needs no more, and if something is mounted
\* there the volume counts as staged.
StartStage(h) ==
  /\ want = "up" /\ staged # "yes"
  /\ MayStart(h)
  /\ dirs' = dirs \cup {"staging"}
  /\ IF block \/ IsMountPoint("staging")
     THEN ReturnOK(h, "staging", "yes")
     ELSE Goto(h, "blkid") /\ staged' = "maybe" /\ UNCHANGED published
  /\ UNCHANGED <<diskVars, staging, target, want, readonly, volumeVars, faults>>

\* Mutant: whatever is not the filesystem asked for is formatted.
AfterDetectionForce(found) == IF found = FsType THEN "fsck" ELSE "mkfs"

\* The command that follows the filesystem found, or "idle" when the call fails.
AfterDetection(found) ==
  CASE found = "none" -> IF flag = "ro" THEN "idle" ELSE "mkfs"
    [] found = FsType -> IF flag = "ro" THEN "mount" ELSE "fsck"
    [] OTHER -> "idle"

\* The filesystem on the device: a format cut short leaves none.
Carried == IF disk \in {"blank", "partial"} THEN "none" ELSE disk

\* A tool shows the filesystem on the device, or nothing; what it shows is taken as it is.
Detects(h, tool) ==
  /\ Runs(h, tool)
  /\ \/ /\ Goto(h, AfterDetection(Carried))
        /\ UNCHANGED <<misread, faults>>
     \/ /\ tool \in Blind /\ Carried # "none"
        /\ Fault
        /\ Goto(h, AfterDetection("none"))
        /\ misread' = [misread EXCEPT ![h] = TRUE]
  /\ UNCHANGED <<diskVars, mountVars, ended, own, coVars>>

\* GetFilesystemType: an empty output, and the exit status 2, of blkid mean unformatted; after
\* any other failure (AfterFailure) an empty output of lsblk does.
Blkid(h) == Detects(h, "blkid")
Lsblk(h) == Detects(h, "lsblk")

\* mkfs refuses a device in use, and otherwise holds it until it is done.
MkfsOpens(h) ==
  /\ Runs(h, "mkfs")
  /\ Goto(h, IF Held \/ staging # "none" \/ target # <<>> THEN "idle" ELSE "format")
  /\ UNCHANGED <<diskVars, mountVars, callVars, coVars, faults>>

MkfsEnds(h) ==
  /\ Runs(h, "format")
  /\ disk' = FsType /\ data' = FALSE
  /\ Goto(h, "mount")
  /\ UNCHANGED <<mountVars, callVars, coVars, faults>>

Fsck(h) ==
  /\ Runs(h, "fsck")
  /\ Goto(h, "mount")
  /\ UNCHANGED <<diskVars, mountVars, callVars, coVars, faults>>

MountEnds(h) ==
  /\ Runs(h, "mount")
  /\ IF CanMount
     THEN MountsDevice /\ ReturnOK(h, "staging", "yes")
     ELSE UNCHANGED mountVars /\ Return(h)
  /\ UNCHANGED <<diskVars, callVars, want, readonly, volumeVars, faults>>

(***************************************************************************)
(* NodePublishVolume: Mount with "bind".                                   *)
(***************************************************************************)
\* The target is made: a directory, or an empty file for a raw block device.
CreatedTarget == dirs \cup {"target"}

\* Mutant: a target that is already mounted is bound again.
StartPublishAgain(h) ==
  /\ want = "up" /\ staged = "yes" /\ published # "yes"
  /\ MayStart(h)
  /\ readonly' \in IF published = "no" THEN BOOLEAN ELSE {readonly}
  /\ IF block \/ IsMountPoint("staging")
     THEN dirs' = CreatedTarget /\ Goto(h, "bind")
     ELSE UNCHANGED <<dirs, pc>>
  /\ published' = "maybe"
  /\ UNCHANGED <<diskVars, staging, target, want, staged, volumeVars, faults>>

\* The staging path must be a mount point, except for a raw block device; the target is made,
\* and one that is already mounted is only remounted.
StartPublish(h) ==
  /\ want = "up" /\ staged = "yes" /\ published # "yes"
  /\ MayStart(h)
  /\ readonly' \in IF published = "no" THEN BOOLEAN ELSE {readonly}
  /\ IF block \/ IsMountPoint("staging")
     THEN /\ dirs' = CreatedTarget
          /\ Goto(h, IF IsMountPoint("target") THEN "remount" ELSE "bind")
     ELSE UNCHANGED <<dirs, pc>>
  /\ published' = "maybe"
  /\ UNCHANGED <<diskVars, staging, target, want, staged, volumeVars, faults>>

BindEnds(h) ==
  /\ Runs(h, "bind")
  /\ IF CanBind
     THEN BindsTarget /\ Goto(h, "bound") /\ own' = [own EXCEPT ![h] = TRUE]
     ELSE UNCHANGED <<mountVars, own>> /\ Goto(h, "idle")
  /\ UNCHANGED <<diskVars, ended, misread, coVars, faults>>

\* The second command of the bind is started, or not any more.
StartRemount(h) ==
  /\ pc[h] = "bound"
  /\ Goto(h, IF ended[h] THEN "rollback" ELSE "remount")
  /\ UNCHANGED <<diskVars, mountVars, callVars, coVars, faults>>

RemountEnds(h) ==
  /\ Runs(h, "remount")
  /\ IF Mounted("target")
     THEN RemountsTarget /\ ReturnOK(h, "target", "yes")
     ELSE UNCHANGED mountVars /\ Return(h)
  /\ UNCHANGED <<diskVars, callVars, want, readonly, volumeVars, faults>>

\* rollBackBind unmounts the target, under a context of its own, and ignores a failure.
RollBack(h) ==
  /\ pc[h] = "rollback"
  /\ \/ Unmounts("target") /\ UNCHANGED faults
     \/ ~IsMountPoint("target") /\ UNCHANGED <<mountVars, faults>>
     \/ Fault /\ UNCHANGED mountVars
  /\ Goto(h, "idle")
  /\ UNCHANGED <<diskVars, callVars, coVars>>

(***************************************************************************)
(* NodeUnpublishVolume and NodeUnstageVolume: Unmount and removeMountPath.  *)
(***************************************************************************)
Path(h) == IF pc[h] \in {"umount target", "remove target"} THEN "target" ELSE "staging"

StartUnpublish(h) ==
  /\ want = "down" /\ published # "no"
  /\ MayStart(h)
  /\ Goto(h, IF IsMountPoint("target") THEN "umount target" ELSE "remove target")
  /\ published' = "maybe"
  /\ UNCHANGED <<diskVars, mountVars, want, staged, readonly, volumeVars, faults>>

StartUnstage(h) ==
  /\ want = "down" /\ published = "no" /\ staged # "no"
  /\ MayStart(h)
  /\ Goto(h, IF IsMountPoint("staging") THEN "umount staging" ELSE "remove staging")
  /\ staged' = "maybe"
  /\ UNCHANGED <<diskVars, mountVars, want, published, readonly, volumeVars, faults>>

\* A target that is not mounted any more is what the call wanted.
UmountEnds(h) ==
  /\ Runs(h, "umount target") \/ Runs(h, "umount staging")
  /\ Unmounts(Path(h)) \/ (~Mounted(Path(h)) /\ UNCHANGED mountVars)
  /\ Goto(h, IF Path(h) = "target" THEN "remove target" ELSE "remove staging")
  /\ UNCHANGED <<diskVars, callVars, coVars, faults>>

\* os.Remove refuses a path that is still a mount point.
RemoveRefused(h) == Mounted(Path(h))

Remove(h) ==
  /\ pc[h] \in {"remove target", "remove staging"}
  /\ IF RemoveRefused(h)
     THEN Return(h) /\ UNCHANGED dirs
     ELSE ReturnOK(h, Path(h), "no") /\ dirs' = dirs \ {Path(h)}
  /\ UNCHANGED <<diskVars, staging, target, callVars, want, readonly, volumeVars, faults>>

(***************************************************************************)
(* Failures.                                                               *)
(***************************************************************************)
Commands == {"blkid", "lsblk", "mkfs", "format", "fsck", "mount", "bind", "remount",
             "umount target", "umount staging"}

\* Where a handler goes when its command fails: only a bind of its own is rolled back, and
\* lsblk is asked after blkid unless the context has ended.
AfterFailure(h) ==
  CASE pc[h] = "remount" /\ own[h] -> "rollback"
    [] pc[h] = "blkid" /\ ~ended[h] -> "lsblk"
    [] OTHER -> "idle"

\* A format cut short has destroyed what was on the device.
CutShort(h) ==
  IF pc[h] = "format" THEN disk' = "partial" /\ data' = FALSE ELSE UNCHANGED diskVars

\* Mutant: an unmount that fails counts as one that found nothing mounted.
CommandFailsQuietly(h) ==
  /\ pc[h] \in Commands /\ ~ended[h]
  /\ Fault
  /\ CutShort(h)
  /\ IF pc[h] \in {"umount target", "umount staging"}
     THEN ReturnOK(h, Path(h), "no")
     ELSE Goto(h, AfterFailure(h)) /\ UNCHANGED <<staged, published>>
  /\ UNCHANGED <<mountVars, callVars, want, readonly, volumeVars>>

\* A command exits with an error and no other effect.
CommandFails(h) ==
  /\ pc[h] \in Commands /\ ~ended[h]
  /\ Fault
  /\ CutShort(h)
  /\ Goto(h, AfterFailure(h))
  /\ UNCHANGED <<mountVars, callVars, coVars>>

\* The effect a command that is killed may have had by then.
KilledWithEffect(h) ==
  \/ pc[h] = "mount" /\ MountsDevice
  \/ pc[h] = "bind" /\ BindsTarget
  \/ pc[h] = "remount" /\ RemountsTarget
  \/ pc[h] \in {"umount target", "umount staging"} /\ Unmounts(Path(h))

\* The context ends: a running command is sent a kill, and other steps go on.
ContextEnds(h) ==
  /\ pc[h] # "idle" /\ ~ended[h]
  /\ Fault
  /\ ended' = [ended EXCEPT ![h] = TRUE]
  /\ UNCHANGED <<diskVars, mountVars, pc, own, misread, coVars>>

\* The handler waits for the process that was killed, however long the kernel keeps it.
KillEnds(h) ==
  /\ pc[h] \in Commands /\ ended[h]
  /\ KilledWithEffect(h) \/ UNCHANGED mountVars
  /\ CutShort(h)
  /\ Goto(h, AfterFailure(h))
  /\ UNCHANGED <<callVars, coVars, faults>>

\* The plugin is killed, with its commands: nothing is rolled back.
Crash ==
  /\ \E h \in Handlers : pc[h] # "idle"
  /\ Fault
  /\ UNCHANGED mountVars \/ \E h \in Handlers : KilledWithEffect(h)
  /\ pc' = [h \in Handlers |-> "idle"]
  /\ IF Held THEN disk' = "partial" /\ data' = FALSE ELSE UNCHANGED diskVars
  /\ UNCHANGED <<callVars, coVars>>

(***************************************************************************)
(* The CO and the workload.                                                *)
(***************************************************************************)
\* The CO turns around while no command of a call it has given up is left: an unmount that
\* outlives its kill would undo a stage that found the path still mounted.
ChangeMind ==
  /\ \A h \in Handlers : pc[h] # "idle" => ended[h] /\ pc[h] \notin Commands
  /\ want' = IF want = "up" THEN "down" ELSE "up"
  /\ want = "down" => published = "no"
  /\ UNCHANGED <<diskVars, mountVars, pc, callVars, staged, published, readonly, volumeVars, faults>>

WorkloadWrites ==
  /\ published = "yes" /\ target # <<>>
  /\ target[1].source = "volume" /\ ~target[1].ro
  /\ ~data
  /\ data' = TRUE
  /\ UNCHANGED <<disk, mountVars, pc, callVars, coVars, faults>>

StartCall(h) == StartStage(h) \/ StartPublish(h) \/ StartUnpublish(h) \/ StartUnstage(h)

HandlerStep(h) ==
  \/ Blkid(h) \/ Lsblk(h) \/ MkfsOpens(h) \/ MkfsEnds(h) \/ Fsck(h) \/ MountEnds(h)
  \/ BindEnds(h) \/ StartRemount(h) \/ RemountEnds(h) \/ RollBack(h)
  \/ UmountEnds(h) \/ Remove(h) \/ KillEnds(h)

Next ==
  \/ \E h \in Handlers : StartCall(h) \/ HandlerStep(h) \/ CommandFails(h) \/ ContextEnds(h)
  \/ Crash
  \/ ChangeMind
  \/ WorkloadWrites

\* A handler goes on, and the CO repeats its calls until it has what it wants.
Fairness ==
  /\ \A h \in Handlers : WF_vars(HandlerStep(h))
  /\ WF_vars(\E h \in Handlers : StartCall(h))

Spec == Init /\ [][Next]_vars
FairSpec == Spec /\ Fairness

-----------------------------------------------------------------------------
(* Type invariant.                                                           *)
TypeOK ==
  /\ disk \in {"blank", "partial", FsType, OtherFsType}
  /\ data \in BOOLEAN
  /\ staging \in {"none", "rw", "ro"}
  /\ target \in Seq([source: {"volume", "directory"}, ro: BOOLEAN]) /\ Len(target) <= Cardinality(Handlers)
  /\ dirs \subseteq {"staging", "target"}
  /\ pc \in [Handlers -> Commands \cup {"idle", "bound", "rollback", "remove target", "remove staging"}]
  /\ ended \in [Handlers -> BOOLEAN]
  /\ own \in [Handlers -> BOOLEAN]
  /\ misread \in [Handlers -> BOOLEAN]
  /\ want \in {"up", "down"}
  /\ staged \in {"no", "maybe", "yes"}
  /\ published \in {"no", "maybe", "yes"}
  /\ readonly \in BOOLEAN
  /\ block \in BOOLEAN
  /\ flag \in MountFlags
  /\ faults \in 0 .. MaxFaults

\* What a workload has written is lost only to the mkfs of a call that was itself shown nothing of
\* the filesystem: whatever is cut short, repeated or overlaps between the detection and the mkfs
\* that follows it, a reading that was right when it was taken still is when mkfs uses it.
DataKept == [][data => data' \/ \E h \in Handlers : pc[h] = "format" /\ misread[h]]_vars

\* A published target shows the volume, read-only exactly if the publication or the staging mount
\* is: a retry of an interrupted publish finishes what the first attempt left (Mount repeats
\* the remount of a target that is already mounted).
PublishedIsMounted ==
  published = "yes" =>
    /\ target # <<>>
    /\ target[1].source = "volume"
    /\ target[1].ro = (readonly \/ flag = "ro")

\* The same when a retry overlaps the call it repeats: an answer OK to NodePublishVolume is true
\* when it is given, and only a step of a call that was given up, its rollback or the late end of
\* its command, makes it untrue.
GivenUpStep == \E h \in Handlers : ended[h] /\ ended'[h] /\ pc'[h] # pc[h]
PublishHolds == [][PublishedIsMounted => PublishedIsMounted' \/ GivenUpStep]_vars

\* After an OK to NodeUnpublishVolume the target is free, and after an OK to NodeUnstageVolume
\* nothing of the volume is mounted: the device may be detached.
ReleasedIsUnmounted ==
  /\ published = "no" => target = <<>>
  /\ staged = "no" => staging = "none" /\ target = <<>>

\* A device the mounter accepts, whatever a raw one carries: it refuses a foreign filesystem, and
\* a read-only stage formats nothing.
Usable == block \/ (disk # OtherFsType /\ (flag = "ro" => disk = FsType))

\* A volume that is wanted up on a usable device is published in the end, and one wanted down is
\* unstaged in the end, whatever was interrupted before.
Converges ==
  /\ want = "up" ~> published = "yes" \/ want = "down" \/ ~Usable
  /\ want = "down" ~> staged = "no" \/ want = "up"

\* To the attach side the node keeps the contract of NodeContract: the volume is mounted, at
\* either path, only between the start of a NodeStageVolume and an OK to NodeUnstageVolume.
Contract == INSTANCE NodeContract WITH
  using <- staging # "none" \/ target # <<>>,
  known <- staged
KeepsNodeContract == Contract!ContractSpec
=============================================================================
