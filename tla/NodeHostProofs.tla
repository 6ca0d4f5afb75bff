--------------------------- MODULE NodeHostProofs ---------------------------
(***************************************************************************)
(* What holds of the node service for one volume, for every number of      *)
(* overlapping calls and of failures.                                      *)
(***************************************************************************)
EXTENDS NodeHost, FiniteSetTheorems, SequenceTheorems, TLAPS

StagePcs == {"blkid", "lsblk", "mkfs", "format", "fsck", "mount"}
PublishPcs == {"bind", "bound", "remount", "rollback"}
UnpublishPcs == {"umount target", "remove target"}
UnstagePcs == {"umount staging", "remove staging"}
Pcs == Commands \cup {"idle", "bound", "rollback", "remove target", "remove staging"}
Mount == [source: {"volume", "directory"}, ro: BOOLEAN]

\* TypeOK without the bound on the stack of mounts.
Types ==
  /\ disk \in {"blank", "partial", FsType, OtherFsType}
  /\ data \in BOOLEAN
  /\ staging \in {"none", "rw", "ro"}
  /\ target \in Seq(Mount)
  /\ dirs \subseteq {"staging", "target"}
  /\ pc \in [Handlers -> Pcs]
  /\ ended \in [Handlers -> BOOLEAN]
  /\ own \in [Handlers -> BOOLEAN]
  /\ misread \in [Handlers -> BOOLEAN]
  /\ want \in {"up", "down"}
  /\ staged \in {"no", "maybe", "yes"}
  /\ published \in {"no", "maybe", "yes"}
  /\ readonly \in BOOLEAN
  /\ block \in BOOLEAN
  /\ flag \in MountFlags
  /\ faults \in 0 .. MaxFaults

\* The call is one the CO has not given up.
Heard(h) == pc[h] # "idle" /\ ~ended[h]

\* There is one such call at most.
OneHeard == \A g, h \in Handlers : Heard(g) /\ Heard(h) => g = h

\* What a call does is what the CO wanted when it started it; what is left of a call that was
\* given up may outlive that wish, but none of its commands does.
CallFitsWish(h) ==
  /\ pc[h] \in StagePcs => want = "up" /\ staged # "no" /\ ~block
  /\ pc[h] \in {"bind", "remount"} =>
       want = "up" /\ published # "no" /\ (block \/ staging # "none")
  /\ pc[h] \in {"umount target", "umount staging"} => want = "down"
  /\ Heard(h) /\ pc[h] \in PublishPcs =>
       want = "up" /\ published = "maybe" /\ (block \/ staging # "none")
  /\ Heard(h) /\ pc[h] \in UnpublishPcs => want = "down" /\ published = "maybe"
  /\ Heard(h) /\ pc[h] \in UnstagePcs => want = "down" /\ published = "no" /\ staged = "maybe"
  /\ Heard(h) /\ pc[h] \in StagePcs => staged = "maybe"

\* What the CO believes is ordered: it publishes what is staged and unstages what is released.
Belief == published # "no" => staged = "yes"

\* A staging mount has the mode of the storage class, and a raw block device has none.
StagingFits ==
  /\ block => staging = "none" /\ flag = "none"
  /\ staging # "none" => staging = StagingMode

\* Whatever is bound at the target is the volume.
TargetShowsVolume == \A i \in 1 .. Len(target) : target[i].source = "volume"

WishInv ==
  /\ Types
  /\ OneHeard
  /\ \A h \in Handlers : CallFitsWish(h)
  /\ Belief
  /\ StagingFits
  /\ TargetShowsVolume
  /\ ReleasedIsUnmounted

\* A device without a filesystem carries no data and is not mounted; nor is one that mkfs holds.
\* A format runs on data, and mkfs is about to be started on a filesystem, only where the call was
\* shown nothing of it, and without blind tools no call is.
DiskOK ==
  /\ ~block /\ Carried = "none" => ~data /\ staging = "none" /\ target = <<>>
  /\ Held => staging = "none" /\ target = <<>>
  /\ data => \A h \in Handlers : pc[h] = "format" => misread[h]
  /\ \A h \in Handlers : Heard(h) /\ pc[h] = "mkfs" => Carried = "none" \/ misread[h]
  /\ Blind = {} => \A h \in Handlers : ~misread[h]

DataInv == WishInv /\ DiskOK

\* Every mount at the target has taken the place of a call that was about to bind.
Binding == {h \in Handlers : pc[h] = "bind"}
StackOK == Len(target) + Cardinality(Binding) <= Cardinality(Handlers)

-----------------------------------------------------------------------------
(* Lemmas about the stack of mounts at the target.                           *)

\* A mount on top of what is there (mount --bind).
LEMMA Pushed ==
  ASSUME NEW s \in Seq(Mount), NEW m \in Mount
  PROVE  /\ <<m>> \o s \in Seq(Mount) /\ Len(<<m>> \o s) = Len(s) + 1
         /\ (<<m>> \o s)[1] = m /\ <<m>> \o s # <<>>
         /\ \A i \in 2 .. Len(s) + 1 : (<<m>> \o s)[i] = s[i - 1]
  <1>1. <<m>> \in Seq(Mount) /\ Len(<<m>>) = 1 /\ <<m>>[1] = m OBVIOUS
  <1>2. Len(s) \in Nat BY LenProperties
  <1> QED BY <1>1, <1>2, ConcatProperties, EmptySeq

\* The topmost mount is taken away (umount).
LEMMA Popped ==
  ASSUME NEW s \in Seq(Mount), s # <<>>
  PROVE  /\ Tail(s) \in Seq(Mount) /\ Len(s) \in Nat \ {0} /\ Len(Tail(s)) = Len(s) - 1
         /\ \A i \in 1 .. Len(s) - 1 : Tail(s)[i] = s[i + 1]
  <1>1. Len(s) \in Nat \ {0} BY EmptySeq
  <1> QED BY <1>1, HeadTailProperties, TailIsSubSeq

\* The flags of the topmost mount are set (mount -o bind,remount).
LEMMA Retopped ==
  ASSUME NEW s \in Seq(Mount), s # <<>>, NEW b \in BOOLEAN
  PROVE  LET t == <<[s[1] EXCEPT !.ro = b]>> \o Tail(s) IN
         /\ t \in Seq(Mount) /\ Len(t) = Len(s) /\ t # <<>>
         /\ t[1] = [s[1] EXCEPT !.ro = b] /\ t[1].ro = b /\ t[1].source = s[1].source
         /\ \A i \in 2 .. Len(s) : t[i] = s[i]
  <1>1. Len(s) \in Nat \ {0} /\ Len(Tail(s)) = Len(s) - 1 /\ Tail(s) \in Seq(Mount) BY Popped
  <1>2. s[1] \in Mount BY <1>1, ElementOfSeq
  <1>3. LET m == [s[1] EXCEPT !.ro = b] IN m \in Mount /\ m.ro = b /\ m.source = s[1].source
    BY <1>2 DEF Mount
  <1> DEFINE m == [s[1] EXCEPT !.ro = b]
  <1>4. /\ <<m>> \o Tail(s) \in Seq(Mount) /\ Len(<<m>> \o Tail(s)) = Len(Tail(s)) + 1
        /\ (<<m>> \o Tail(s))[1] = m /\ <<m>> \o Tail(s) # <<>>
        /\ \A i \in 2 .. Len(Tail(s)) + 1 : (<<m>> \o Tail(s))[i] = Tail(s)[i - 1]
    <2>1. m \in Mount BY <1>3
    <2> HIDE DEF m
    <2> QED BY <1>1, <2>1, Pushed
  <1>5. m.ro = b /\ m.source = s[1].source BY <1>3
  <1> HIDE DEF m
  <1>6. \A i \in 2 .. Len(s) : (<<m>> \o Tail(s))[i] = s[i]
    <2> SUFFICES ASSUME NEW i \in 2 .. Len(s) PROVE (<<m>> \o Tail(s))[i] = s[i] OBVIOUS
    <2>1. i - 1 \in 1 .. Len(s) - 1 /\ i \in 2 .. Len(Tail(s)) + 1 /\ (i - 1) + 1 = i BY <1>1
    <2>2. Tail(s)[i - 1] = s[(i - 1) + 1] BY <2>1, Popped
    <2> QED BY <1>4, <2>1, <2>2
  <1>7. Len(<<m>> \o Tail(s)) = Len(s) BY <1>1, <1>4
  <1> QED BY <1>4, <1>5, <1>6, <1>7, Zenon DEF m

-----------------------------------------------------------------------------
(* The commands keep the mounts in order.                                    *)
MountsOK ==
  /\ staging \in {"none", "rw", "ro"} /\ target \in Seq(Mount) /\ dirs \subseteq {"staging", "target"}
  /\ StagingFits /\ TargetShowsVolume

\* mount of the device: only where a filesystem is wanted.
LEMMA MountKeeps ==
  ASSUME MountsOK, MountsDevice, UNCHANGED volumeVars, ~block
  PROVE  MountsOK' /\ target' = target /\ staging' # "none"
  BY DEF MountsOK, MountsDevice, StagingFits, StagingMode, TargetShowsVolume, volumeVars

\* mount --bind of the volume.
LEMMA BindKeeps ==
  ASSUME MountsOK, BindsTarget, UNCHANGED volumeVars, block \/ staging # "none"
  PROVE  MountsOK' /\ staging' = staging /\ target' # <<>> /\ Len(target') = Len(target) + 1
  <1> DEFINE m == [source |-> BindSource, ro |-> staging = "ro"]
  <1>1. m \in Mount /\ m.source = "volume" BY DEF Mount, BindSource
  <1>2. target' = <<m>> \o target /\ UNCHANGED <<staging, dirs>> BY DEF BindsTarget
  <1> HIDE DEF m
  <1>3. target \in Seq(Mount) /\ Len(target) \in Nat BY LenProperties DEF MountsOK
  <1>4. target' \in Seq(Mount) /\ target' # <<>> /\ Len(target') = Len(target) + 1
    BY <1>1, <1>2, <1>3, Pushed
  <1>5. TargetShowsVolume'
    <2> SUFFICES ASSUME NEW i \in 1 .. Len(target') PROVE target'[i].source = "volume"
      BY DEF TargetShowsVolume
    <2>1. CASE i = 1 BY <1>1, <1>2, <1>3, <2>1, Pushed
    <2>2. CASE i # 1
      <3>1. i \in 2 .. Len(target) + 1 /\ i - 1 \in 1 .. Len(target) BY <1>3, <1>4, <2>2
      <3>2. target'[i] = target[i - 1] BY <1>1, <1>2, <1>3, <3>1, Pushed
      <3> QED BY <3>1, <3>2 DEF MountsOK, TargetShowsVolume
    <2> QED BY <2>1, <2>2
  <1> QED BY <1>2, <1>4, <1>5 DEF MountsOK, StagingFits, StagingMode, volumeVars

\* mount -o bind,remount of the target.
LEMMA RemountKeeps ==
  ASSUME MountsOK, RemountsTarget, UNCHANGED volumeVars
  PROVE  /\ MountsOK' /\ staging' = staging /\ target # <<>> /\ target' # <<>> /\ Len(target') = Len(target)
         /\ target'[1].ro = RemountFlags /\ target'[1].source = "volume"
  <1>1. /\ target # <<>> /\ UNCHANGED <<staging, dirs>>
        /\ target' = <<[target[1] EXCEPT !.ro = RemountFlags]>> \o Tail(target)
    BY DEF RemountsTarget, Mounted
  <1>2. RemountFlags \in BOOLEAN /\ target \in Seq(Mount) BY DEF RemountFlags, MountsOK
  <1>3. /\ target' \in Seq(Mount) /\ Len(target') = Len(target) /\ target' # <<>>
        /\ target'[1].ro = RemountFlags /\ target'[1].source = target[1].source
        /\ \A i \in 2 .. Len(target) : target'[i] = target[i]
    BY <1>1, <1>2, Retopped
  <1>4. Len(target) \in Nat \ {0} BY <1>1, <1>2, Popped
  <1>5. TargetShowsVolume' BY <1>3, <1>4 DEF MountsOK, TargetShowsVolume
  <1>6. target[1].source = "volume" BY <1>4 DEF MountsOK, TargetShowsVolume
  <1>7. MountsOK' BY <1>1, <1>3, <1>5 DEF MountsOK, StagingFits, StagingMode, volumeVars
  <1> QED BY <1>1, <1>3, <1>6, <1>7

\* umount of either path.
LEMMA UnmountKeeps ==
  ASSUME MountsOK, NEW path \in {"staging", "target"}, Unmounts(path), UNCHANGED volumeVars
  PROVE  /\ MountsOK' /\ Len(target') <= Len(target) /\ (target = <<>> => target' = <<>>)
         /\ (staging = "none" => staging' = "none")
         /\ (path = "target" => staging' = staging) /\ (path = "staging" => target' = target)
  <1>1. target \in Seq(Mount) /\ Len(target) \in Nat BY LenProperties DEF MountsOK
  <1>2. CASE path = "staging"
    BY <1>1, <1>2 DEF Unmounts, Mounted, MountsOK, StagingFits, StagingMode, TargetShowsVolume, volumeVars
  <1>3. CASE path = "target"
    <2>1. target # <<>> /\ target' = Tail(target) /\ UNCHANGED <<staging, dirs>>
      BY <1>3 DEF Unmounts, Mounted
    <2>2. /\ target' \in Seq(Mount) /\ Len(target') = Len(target) - 1
          /\ \A i \in 1 .. Len(target) - 1 : target'[i] = target[i + 1]
      BY <1>1, <2>1, Popped
    <2>3. TargetShowsVolume'
      <3> SUFFICES ASSUME NEW i \in 1 .. Len(target') PROVE target'[i].source = "volume"
        BY DEF TargetShowsVolume
      <3>1. i + 1 \in 1 .. Len(target) /\ target'[i] = target[i + 1] BY <1>1, <2>2
      <3> QED BY <3>1 DEF MountsOK, TargetShowsVolume
    <2> QED BY <1>1, <1>3, <2>1, <2>2, <2>3 DEF MountsOK, StagingFits, StagingMode, volumeVars
  <1> QED BY <1>2, <1>3

\* What a step of one handler may do to the mounts: each kind of change has its command.
MountStep(h) ==
  /\ staging # "none" /\ staging' = "none" => pc[h] = "umount staging"
  /\ staging = "none" /\ staging' # "none" => pc[h] = "mount" /\ disk = FsType /\ ~Held
  /\ target = <<>> /\ target' # <<>> => pc[h] = "bind"
  /\ target' # target => pc[h] \in {"bind", "remount", "umount target", "rollback"}
  /\ Len(target') <= Len(target) + 1
  /\ pc[h] # "bind" => Len(target') <= Len(target)

\* A step that leaves both paths as they are.
LEMMA MountsKept ==
  ASSUME MountsOK, UNCHANGED <<staging, target, volumeVars>>, dirs' \subseteq {"staging", "target"},
         NEW h \in Handlers
  PROVE  MountsOK' /\ MountStep(h)
  <1>1. Len(target) \in Nat BY LenProperties DEF MountsOK
  <1>2. MountsOK' BY DEF MountsOK, StagingFits, StagingMode, TargetShowsVolume, volumeVars
  <1>3. Len(target') <= Len(target) + 1 /\ Len(target') <= Len(target) BY <1>1
  <1>4. MountStep(h) BY <1>3 DEF MountStep
  <1> QED BY <1>2, <1>4

\* A command takes effect, in time or as it is killed.
LEMMA EffectKeeps ==
  ASSUME WishInv, MountsOK, NEW h \in Handlers, UNCHANGED volumeVars,
         \/ KilledWithEffect(h)
         \/ pc[h] = "rollback" /\ Unmounts("target")
  PROVE  MountsOK' /\ MountStep(h)
  <1>1. Len(target) \in Nat BY LenProperties DEF MountsOK
  <1>2. CallFitsWish(h) BY DEF WishInv
  <1>3. CASE pc[h] = "mount" /\ MountsDevice
    <2>1. ~block BY <1>2, <1>3 DEF CallFitsWish, StagePcs
    <2> QED BY <1>1, <1>3, <2>1, MountKeeps DEF MountStep, MountsDevice, CanMount
  <1>4. CASE pc[h] = "bind" /\ BindsTarget
    <2>1. block \/ staging # "none" BY <1>2, <1>4 DEF CallFitsWish
    <2> QED BY <1>1, <1>4, <2>1, BindKeeps DEF MountStep
  <1>5. CASE pc[h] = "remount" /\ RemountsTarget
    BY <1>1, <1>5, RemountKeeps DEF MountStep
  <1>6. CASE pc[h] \in {"umount target", "rollback"} /\ Unmounts("target")
    <2>1. /\ MountsOK' /\ Len(target') <= Len(target) /\ (target = <<>> => target' = <<>>)
          /\ staging' = staging
      BY <1>6, UnmountKeeps
    <2>2. Len(target') \in Nat BY <2>1, LenProperties DEF MountsOK
    <2>3. Len(target') <= Len(target) + 1 BY <1>1, <2>1, <2>2
    <2> QED BY <1>6, <2>1, <2>3 DEF MountStep
  <1>7. CASE pc[h] = "umount staging" /\ Unmounts("staging")
    <2>1. MountsOK' /\ target' = target /\ (staging = "none" => staging' = "none")
      BY <1>7, UnmountKeeps
    <2>2. Len(target') <= Len(target) + 1 /\ Len(target') <= Len(target) BY <1>1, <2>1
    <2> QED BY <1>7, <2>1, <2>2 DEF MountStep
  <1> QED BY <1>3, <1>4, <1>5, <1>6, <1>7 DEF KilledWithEffect, Path

\* Whatever happens, the mounts stay in order; what changes them is a command of one handler,
\* which moves on with it.
LEMMA StepMounts ==
  ASSUME WishInv, [Next]_vars
  PROVE  /\ UNCHANGED volumeVars /\ MountsOK'
         /\ \E h \in Handlers :
              MountStep(h) /\ (UNCHANGED <<staging, target>> \/ (pc'[h] # pc[h] /\ ended' = ended))
  <1>1. UNCHANGED volumeVars
    BY DEF Next, StartCall, HandlerStep, StartStage, StartPublish, StartUnpublish, StartUnstage, Blkid, Lsblk,
           Detects, MkfsOpens, MkfsEnds, Fsck, MountEnds, BindEnds, StartRemount, RemountEnds, RollBack,
           UmountEnds, Remove, KillEnds, CommandFails, ContextEnds, Crash, ChangeMind,
           WorkloadWrites, coVars, vars, volumeVars
  <1>2. MountsOK BY DEF WishInv, Types, MountsOK
  <1>3. ASSUME UNCHANGED <<staging, target>>, dirs' \subseteq {"staging", "target"}
        PROVE  MountsOK' /\ \E h \in Handlers : MountStep(h) /\ UNCHANGED <<staging, target>>
    <2>1. PICK h \in Handlers : TRUE BY HandlersAssumption
    <2> QED BY <1>1, <1>2, <1>3, <2>1, MountsKept
  <1>4. ASSUME NEW h \in Handlers,
               KilledWithEffect(h) \/ (pc[h] = "rollback" /\ Unmounts("target")),
               pc'[h] # pc[h], ended' = ended
        PROVE  /\ MountsOK'
               /\ \E g \in Handlers : MountStep(g) /\ pc'[g] # pc[g] /\ ended' = ended
    BY <1>1, <1>2, <1>4, EffectKeeps
  <1> USE DEF WishInv, Types, mountVars, callVars
  <1>5. ASSUME NEW h \in Handlers,
               \/ StartCall(h) \/ Blkid(h) \/ Lsblk(h) \/ MkfsOpens(h) \/ MkfsEnds(h) \/ Fsck(h)
               \/ StartRemount(h) \/ Remove(h) \/ CommandFails(h) \/ ContextEnds(h)
        PROVE  UNCHANGED <<staging, target>> /\ dirs' \subseteq {"staging", "target"}
    BY <1>5 DEF StartCall, StartStage, StartPublish, CreatedTarget, StartUnpublish, StartUnstage, Blkid,
           Lsblk, Detects, MkfsOpens, MkfsEnds, Fsck, StartRemount, Remove, CommandFails, ContextEnds
  <1>6. ASSUME NEW h \in Handlers,
               MountEnds(h) \/ BindEnds(h) \/ RemountEnds(h) \/ RollBack(h) \/ UmountEnds(h) \/ KillEnds(h)
        PROVE  \/ UNCHANGED <<staging, target, dirs>>
               \/ /\ KilledWithEffect(h) \/ (pc[h] = "rollback" /\ Unmounts("target"))
                  /\ pc'[h] # pc[h] /\ ended' = ended
    <2>1. CASE MountEnds(h)
      BY <2>1 DEF MountEnds, Runs, KilledWithEffect, ReturnOK
    <2>2. CASE BindEnds(h)
      BY <2>2 DEF BindEnds, Runs, KilledWithEffect, Goto
    <2>3. CASE RemountEnds(h)
      BY <2>3 DEF RemountEnds, Runs, KilledWithEffect, ReturnOK
    <2>4. CASE RollBack(h)
      BY <2>4 DEF RollBack, Goto
    <2>5. CASE UmountEnds(h)
      BY <2>5 DEF UmountEnds, Runs, KilledWithEffect, Goto
    <2>6. CASE KillEnds(h)
      <3>1. pc'[h] # pc[h] /\ ended' = ended BY <2>6 DEF KillEnds, Goto, AfterFailure, Commands
      <3> QED BY <2>6, <3>1 DEF KillEnds
    <2> QED BY <1>6, <2>1, <2>2, <2>3, <2>4, <2>5, <2>6
  <1>7. CASE Crash
    <2>1. CASE UNCHANGED mountVars BY <1>1, <1>3, <2>1
    <2>2. ASSUME NEW h \in Handlers, KilledWithEffect(h)
          PROVE  pc'[h] # pc[h] /\ ended' = ended
      BY <1>7, <2>2 DEF Crash, KilledWithEffect
    <2> QED BY <1>1, <1>4, <1>7, <2>1, <2>2 DEF Crash
  <1>8. CASE ChangeMind \/ WorkloadWrites \/ UNCHANGED vars
    BY <1>1, <1>3, <1>8 DEF ChangeMind, WorkloadWrites, vars
  <1> QED BY <1>1, <1>3, <1>4, <1>5, <1>6, <1>7, <1>8 DEF Next, HandlerStep

-----------------------------------------------------------------------------
(* Types.                                                                    *)

\* The bound on failures holds.
LEMMA FaultCounted ==
  ASSUME faults \in 0 .. MaxFaults, Fault PROVE faults' \in 0 .. MaxFaults
  BY FaultsAssumption DEF Fault

\* No step leaves the types.
LEMMA TypesStep == ASSUME WishInv, [Next]_vars PROVE Types'
  <1> DEFINE Rest ==
        /\ disk \in {"blank", "partial", FsType, OtherFsType}
        /\ data \in BOOLEAN
        /\ pc \in [Handlers -> Pcs]
        /\ ended \in [Handlers -> BOOLEAN]
        /\ own \in [Handlers -> BOOLEAN]
        /\ misread \in [Handlers -> BOOLEAN]
        /\ want \in {"up", "down"}
        /\ staged \in {"no", "maybe", "yes"}
        /\ published \in {"no", "maybe", "yes"}
        /\ readonly \in BOOLEAN
        /\ faults \in 0 .. MaxFaults
  <1>1. MountsOK' /\ UNCHANGED volumeVars BY StepMounts
  <1>2. Rest BY DEF WishInv, Types
  <1> USE <1>2 DEF Pcs, Commands, Goto, coVars, callVars, diskVars, mountVars, volumeVars, MayStart
  <1>3. ASSUME NEW h \in Handlers, StartStage(h) \/ StartUnpublish(h) \/ StartUnstage(h)
        PROVE  Rest'
    BY <1>3 DEF StartStage, StartUnpublish, StartUnstage, ReturnOK
  <1>4. ASSUME NEW h \in Handlers, StartPublish(h) PROVE Rest'
    BY <1>4 DEF StartPublish
  <1>5. ASSUME NEW h \in Handlers, Blkid(h) \/ Lsblk(h) PROVE Rest'
    <2>1. \A found : AfterDetection(found) \in {"idle", "mkfs", "mount", "fsck"} BY DEF AfterDetection
    <2>2. faults' \in 0 .. MaxFaults BY <1>5, FaultCounted DEF Blkid, Lsblk, Detects, WishInv, Types
    <2>3. misread' \in [Handlers -> BOOLEAN] BY <1>5 DEF Blkid, Lsblk, Detects
    <2>4. \E found : pc' = [pc EXCEPT ![h] = AfterDetection(found)] BY <1>5 DEF Blkid, Lsblk, Detects
    <2>5. pc' \in [Handlers -> Pcs] BY <2>1, <2>4
    <2>6. UNCHANGED <<disk, data, ended, own, want, staged, published, readonly>>
      BY <1>5 DEF Blkid, Lsblk, Detects
    <2> QED BY <2>2, <2>3, <2>5, <2>6
  <1>6. ASSUME NEW h \in Handlers, MkfsOpens(h) \/ MkfsEnds(h) \/ Fsck(h) \/ StartRemount(h) PROVE Rest'
    BY <1>6 DEF MkfsOpens, MkfsEnds, Fsck, StartRemount
  <1>7. ASSUME NEW h \in Handlers, MountEnds(h) \/ RemountEnds(h) PROVE Rest'
    BY <1>7 DEF MountEnds, RemountEnds, ReturnOK, Return
  <1>8. ASSUME NEW h \in Handlers, BindEnds(h) \/ RollBack(h) \/ UmountEnds(h) PROVE Rest'
    <2>1. CASE BindEnds(h) \/ UmountEnds(h) BY <1>8, <2>1 DEF BindEnds, UmountEnds
    <2>2. CASE RollBack(h)
      <3>1. faults' \in 0 .. MaxFaults BY <2>2, FaultCounted DEF RollBack, WishInv, Types
      <3> QED BY <2>2, <3>1 DEF RollBack
    <2> QED BY <1>8, <2>1, <2>2
  <1>9. ASSUME NEW h \in Handlers, Remove(h) PROVE Rest'
    BY <1>9 DEF Remove, ReturnOK, Return
  <1>10. ASSUME Fault PROVE faults' \in 0 .. MaxFaults
    BY <1>10, FaultCounted DEF WishInv, Types
  <1>11. ASSUME NEW h \in Handlers, KillEnds(h) PROVE Rest'
    BY <1>11 DEF KillEnds, CutShort, AfterFailure
  <1>12. ASSUME NEW h \in Handlers, CommandFails(h) PROVE Rest'
    BY <1>10, <1>12 DEF CommandFails, CutShort, AfterFailure
  <1>13. ASSUME NEW h \in Handlers, ContextEnds(h) PROVE Rest'
    BY <1>10, <1>13 DEF ContextEnds
  <1>14. ASSUME Crash PROVE Rest'
    BY <1>10, <1>14 DEF Crash
  <1>15. ASSUME ChangeMind \/ WorkloadWrites \/ UNCHANGED vars PROVE Rest'
    BY <1>15 DEF ChangeMind, WorkloadWrites, vars
  <1>16. Rest'
    BY <1>3, <1>4, <1>5, <1>6, <1>7, <1>8, <1>9, <1>11, <1>12, <1>13, <1>14, <1>15
       DEF Next, StartCall, HandlerStep
  <1> QED BY <1>1, <1>16 DEF Types, MountsOK, WishInv

-----------------------------------------------------------------------------
(* What the calls do is what the CO wants.                                   *)
CallsFit == \A h \in Handlers : CallFitsWish(h)

\* Before the first call nothing is mounted, and the CO knows it.
LEMMA WishInit == Init => WishInv
  <1> SUFFICES ASSUME Init PROVE WishInv OBVIOUS
  <1>1. target \in Seq(Mount) /\ Len(target) = 0 BY EmptySeq DEF Init
  <1>2. Types
    <2>1. faults \in 0 .. MaxFaults BY FaultsAssumption DEF Init
    <2>2. flag \in MountFlags BY FlagsAssumption DEF Init
    <2>3. data \in BOOLEAN /\ disk \in {"blank", "partial", FsType, OtherFsType} BY DEF Init
    <2>4. /\ pc \in [Handlers -> Pcs] /\ ended \in [Handlers -> BOOLEAN]
          /\ own \in [Handlers -> BOOLEAN] /\ misread \in [Handlers -> BOOLEAN]
      BY DEF Init, Pcs
    <2> QED BY <1>1, <2>1, <2>2, <2>3, <2>4 DEF Init, Types
  <1>3. OneHeard /\ \A h \in Handlers : CallFitsWish(h)
    BY DEF Init, OneHeard, CallFitsWish, Heard, StagePcs, PublishPcs, UnpublishPcs, UnstagePcs
  <1>4. Belief /\ StagingFits /\ ReleasedIsUnmounted
    BY DEF Init, Belief, StagingFits, ReleasedIsUnmounted
  <1>5. TargetShowsVolume BY <1>1 DEF TargetShowsVolume
  <1> QED BY <1>2, <1>3, <1>4, <1>5 DEF WishInv

\* A mount disappears only while the CO wants the volume down, and appears only while it knows
\* that the volume may be staged or published.
LEMMA MountsFitWish ==
  ASSUME WishInv, [Next]_vars
  PROVE  /\ staging # "none" /\ staging' = "none" => want = "down"
         /\ staging = "none" /\ staging' # "none" => want = "up" /\ staged # "no"
         /\ target = <<>> /\ target' # <<>> => published # "no" /\ staged = "yes"
  <1>1. PICK h \in Handlers : MountStep(h) BY StepMounts
  <1>2. CallFitsWish(h) /\ Belief BY DEF WishInv
  <1> QED BY <1>1, <1>2 DEF MountStep, CallFitsWish, StagePcs, Belief

\* The CO starts a call: every other one has been given up.
LEMMA StartFits ==
  ASSUME WishInv, NEW h \in Handlers, StartCall(h)
  PROVE  OneHeard' /\ CallsFit' /\ Belief' /\ ReleasedIsUnmounted'
  <1> USE DEF WishInv, Types, CallFitsWish, Heard, StagePcs, PublishPcs, UnpublishPcs, UnstagePcs, Belief,
              MayStart, Goto, mountVars, coVars, volumeVars
  <1>1. pc[h] = "idle" /\ (\A g \in Handlers : ~Heard(g)) /\ ended' = [ended EXCEPT ![h] = FALSE]
    BY DEF StartCall, StartStage, StartPublish, StartUnpublish, StartUnstage
  <1>2. OneHeard'
    <2>1. \A g \in Handlers : g # h => pc'[g] = pc[g]
      BY DEF StartCall, StartStage, StartPublish, StartUnpublish, StartUnstage, ReturnOK
    <2> QED BY <1>1, <2>1 DEF OneHeard
  <1>3. CASE StartStage(h)
    <2> USE <1>1, <1>3 DEF StartStage, ReturnOK
    <2>1. published = "no" OBVIOUS
    <2>2. CallsFit' BY <2>1 DEF CallsFit
    <2>3. Belief' /\ ReleasedIsUnmounted' BY <2>1 DEF ReleasedIsUnmounted
    <2> QED BY <1>2, <2>2, <2>3
  <1>4. CASE StartPublish(h)
    <2> USE <1>1, <1>4 DEF StartPublish, IsMountPoint, Mounted
    <2>1. CallsFit' BY DEF CallsFit
    <2>2. Belief' /\ ReleasedIsUnmounted' BY DEF ReleasedIsUnmounted
    <2> QED BY <1>2, <2>1, <2>2
  <1>5. CASE StartUnpublish(h)
    <2> USE <1>1, <1>5 DEF StartUnpublish
    <2>1. CallsFit' BY DEF CallsFit
    <2>2. Belief' /\ ReleasedIsUnmounted' BY DEF ReleasedIsUnmounted
    <2> QED BY <1>2, <2>1, <2>2
  <1>6. CASE StartUnstage(h)
    <2> USE <1>1, <1>6 DEF StartUnstage
    <2>1. CallsFit' BY DEF CallsFit
    <2>2. Belief' /\ ReleasedIsUnmounted' BY DEF ReleasedIsUnmounted
    <2> QED BY <1>2, <2>1, <2>2
  <1> QED BY <1>3, <1>4, <1>5, <1>6 DEF StartCall

\* The handlers that only move on, or return with an error, leave the CO's view alone.
LEMMA MoveFits ==
  ASSUME WishInv, [Next]_vars, NEW h \in Handlers, NEW place \in Pcs,
         pc' = [pc EXCEPT ![h] = place],
         UNCHANGED <<ended, want, staged, published, block>>,
         pc[h] # "idle",
         place \in StagePcs => pc[h] \in StagePcs,
         place \in PublishPcs => pc[h] \in PublishPcs,
         place \in UnpublishPcs => pc[h] \in UnpublishPcs,
         place \in UnstagePcs => pc[h] \in UnstagePcs,
         place \in {"bind", "remount"} =>
           want = "up" /\ published # "no" /\ (block \/ staging # "none"),
         place \notin {"umount target", "umount staging"}
  PROVE  OneHeard' /\ CallsFit' /\ Belief' /\ ReleasedIsUnmounted'
  <1> USE MountsFitWish DEF WishInv, Types, Heard
  <1>1. OneHeard' BY DEF OneHeard
  <1>2. CallsFit'
    <2> SUFFICES ASSUME NEW g \in Handlers PROVE CallFitsWish(g)' BY DEF CallsFit
    <2> USE DEF CallFitsWish, StagePcs, PublishPcs, UnpublishPcs, UnstagePcs
    <2>1. CASE g = h BY <2>1
    <2>2. CASE g # h BY <2>2
    <2> QED BY <2>1, <2>2
  <1>3. Belief' /\ ReleasedIsUnmounted' BY DEF Belief, ReleasedIsUnmounted
  <1> QED BY <1>1, <1>2, <1>3

\* A handler that returns OK tells the CO what is so.
LEMMA ReturnFits ==
  ASSUME WishInv, [Next]_vars, NEW h \in Handlers, NEW what \in {"staging", "target"},
         NEW belief \in {"no", "yes"}, ReturnOK(h, what, belief),
         UNCHANGED <<ended, want, block>>,
         belief = "yes" => /\ what = "staging" => pc[h] \in StagePcs
                           /\ what = "target" => pc[h] = "remount",
         belief = "no" => /\ what = "staging" => pc[h] = "remove staging" /\ staging' = "none" /\ target' = target
                          /\ what = "target" => pc[h] = "remove target" /\ target' = <<>>
  PROVE  OneHeard' /\ CallsFit' /\ Belief' /\ ReleasedIsUnmounted'
  <1> USE MountsFitWish DEF WishInv, Types, Heard, ReturnOK
  <1>1. OneHeard' BY DEF OneHeard
  <1>2. pc[h] # "idle" /\ CallFitsWish(h) BY DEF StagePcs
  <1>3. \A g \in Handlers : g # h => pc'[g] = pc[g] /\ (~ended[h] => ~Heard(g))
    BY <1>2 DEF OneHeard
  <1>4. CASE ended[h]
    <2>1. pc' = [pc EXCEPT ![h] = "idle"] /\ UNCHANGED <<staged, published>> BY <1>4
    <2> QED BY <1>2, <2>1, MoveFits DEF Pcs, StagePcs, PublishPcs, UnpublishPcs, UnstagePcs
  <1>5. CASE ~ended[h]
    <2>1. CallsFit'
      <3> SUFFICES ASSUME NEW g \in Handlers PROVE CallFitsWish(g)' BY DEF CallsFit
      <3> USE DEF CallFitsWish, StagePcs, PublishPcs, UnpublishPcs, UnstagePcs
      <3>1. CASE g = h BY <3>1
      <3>2. CASE g # h BY <1>2, <1>3, <1>5, <3>2
      <3> QED BY <3>1, <3>2
    <2>2. Belief' /\ ReleasedIsUnmounted'
      BY <1>2, <1>5 DEF Belief, ReleasedIsUnmounted, CallFitsWish, StagePcs, PublishPcs, UnpublishPcs, UnstagePcs
    <2> QED BY <1>1, <2>1, <2>2
  <1> QED BY <1>4, <1>5

\* A call that stands where it stood, and is not taken up again, still fits.
LEMMA CallKept ==
  ASSUME block \in BOOLEAN, UNCHANGED <<want, staged, published, block, staging>>,
         NEW h \in Handlers, CallFitsWish(h), pc'[h] = pc[h], ~ended'[h] => ~ended[h]
  PROVE  CallFitsWish(h)'
  <1>1. want' = want /\ staged' = staged /\ published' = published /\ block' = block /\ staging' = staging
    OBVIOUS
  <1>2. Heard(h)' => Heard(h) BY DEF Heard
  <1>0. (block' => block) /\ (block => block')
    <2>1. block' = block BY <1>1
    <2>2. CASE block = TRUE BY <2>1, <2>2
    <2>3. CASE block = FALSE BY <2>1, <2>3
    <2> QED BY <2>2, <2>3
  <1>3. pc'[h] \in StagePcs => want' = "up" /\ staged' # "no" /\ ~block'
    BY <1>0, <1>1 DEF CallFitsWish
  <1>4. pc'[h] \in {"bind", "remount"} => want' = "up" /\ published' # "no"
    BY <1>1 DEF CallFitsWish
  <1>5. pc'[h] \in {"bind", "remount"} => block' \/ staging' # "none"
    BY <1>0, <1>1 DEF CallFitsWish
  <1>6. pc'[h] \in {"umount target", "umount staging"} => want' = "down"
    BY <1>1 DEF CallFitsWish
  <1>7. Heard(h)' /\ pc'[h] \in PublishPcs => want' = "up" /\ published' = "maybe"
    BY <1>1, <1>2 DEF CallFitsWish
  <1>8. Heard(h)' /\ pc'[h] \in PublishPcs => block' \/ staging' # "none"
    BY <1>0, <1>1, <1>2 DEF CallFitsWish
  <1>9. Heard(h)' /\ pc'[h] \in UnpublishPcs => want' = "down" /\ published' = "maybe"
    BY <1>1, <1>2 DEF CallFitsWish
  <1>10. Heard(h)' /\ pc'[h] \in UnstagePcs => want' = "down" /\ published' = "no" /\ staged' = "maybe"
    BY <1>1, <1>2 DEF CallFitsWish
  <1>11. Heard(h)' /\ pc'[h] \in StagePcs => staged' = "maybe"
    BY <1>1, <1>2 DEF CallFitsWish
  <1> QED
    BY <1>3, <1>4, <1>5, <1>6, <1>7, <1>8, <1>9, <1>10, <1>11 DEF CallFitsWish

\* The inductive step: a call that was given up may go on undoing, but starts nothing.
LEMMA WishStep == ASSUME WishInv, [Next]_vars PROVE WishInv'
  <1>1. Types' /\ MountsOK' /\ block' = block BY TypesStep, StepMounts DEF volumeVars
  <1> SUFFICES OneHeard' /\ CallsFit' /\ Belief' /\ ReleasedIsUnmounted'
    BY <1>1 DEF WishInv, CallsFit, MountsOK
  <1> USE <1>1 DEF Goto, coVars, callVars, mountVars, volumeVars, Pcs, Commands, StagePcs, PublishPcs, UnpublishPcs,
          UnstagePcs
  <1>2. ASSUME NEW h \in Handlers, Blkid(h) \/ Lsblk(h) \/ MkfsOpens(h) \/ MkfsEnds(h) \/ Fsck(h)
        PROVE  OneHeard' /\ CallsFit' /\ Belief' /\ ReleasedIsUnmounted'
    <2>1. /\ pc[h] \in {"blkid", "lsblk", "mkfs", "format", "fsck"}
          /\ \E place \in {"idle", "mkfs", "fsck", "mount", "format"} : pc' = [pc EXCEPT ![h] = place]
          /\ UNCHANGED <<ended, want, staged, published, block>>
      BY <1>2 DEF Blkid, Lsblk, Detects, AfterDetection, MkfsOpens, MkfsEnds, Fsck, Runs
    <2> QED BY <2>1, MoveFits
  <1>3. ASSUME NEW h \in Handlers, MountEnds(h)
        PROVE  OneHeard' /\ CallsFit' /\ Belief' /\ ReleasedIsUnmounted'
    <2>1. CASE ReturnOK(h, "staging", "yes") BY <1>3, <2>1, ReturnFits DEF MountEnds, Runs
    <2>2. CASE Return(h) BY <1>3, <2>2, MoveFits DEF MountEnds, Runs, Return
    <2> QED BY <1>3, <2>1, <2>2 DEF MountEnds
  <1>4. ASSUME NEW h \in Handlers, BindEnds(h) \/ StartRemount(h) \/ RollBack(h)
        PROVE  OneHeard' /\ CallsFit' /\ Belief' /\ ReleasedIsUnmounted'
    <2>1. /\ pc[h] \in PublishPcs
          /\ UNCHANGED <<ended, want, staged, published, block>>
          /\ \E place \in {"idle", "bound", "rollback", "remount"} :
               /\ pc' = [pc EXCEPT ![h] = place]
               /\ place = "remount" => pc[h] = "bound" /\ ~ended[h]
      BY <1>4 DEF BindEnds, StartRemount, RollBack, Runs
    <2>2. pc[h] = "bound" /\ ~ended[h] =>
            want = "up" /\ published # "no" /\ (block \/ staging # "none")
      BY DEF WishInv, CallFitsWish, Heard
    <2> QED BY <2>1, <2>2, MoveFits
  <1>5. ASSUME NEW h \in Handlers, RemountEnds(h)
        PROVE  OneHeard' /\ CallsFit' /\ Belief' /\ ReleasedIsUnmounted'
    <2>1. CASE ReturnOK(h, "target", "yes") BY <1>5, <2>1, ReturnFits DEF RemountEnds, Runs
    <2>2. CASE Return(h) BY <1>5, <2>2, MoveFits DEF RemountEnds, Runs, Return
    <2> QED BY <1>5, <2>1, <2>2 DEF RemountEnds
  <1>6. ASSUME NEW h \in Handlers, UmountEnds(h)
        PROVE  OneHeard' /\ CallsFit' /\ Belief' /\ ReleasedIsUnmounted'
    <2>1. /\ UNCHANGED <<ended, want, staged, published, block>>
          /\ \/ pc[h] = "umount target" /\ pc' = [pc EXCEPT ![h] = "remove target"]
             \/ pc[h] = "umount staging" /\ pc' = [pc EXCEPT ![h] = "remove staging"]
      BY <1>6 DEF UmountEnds, Runs, Path
    <2>2. CASE pc[h] = "umount target" BY <2>1, <2>2, MoveFits
    <2>3. CASE pc[h] = "umount staging" BY <2>1, <2>3, MoveFits
    <2> QED BY <2>1, <2>2, <2>3
  <1>7. ASSUME NEW h \in Handlers, Remove(h)
        PROVE  OneHeard' /\ CallsFit' /\ Belief' /\ ReleasedIsUnmounted'
    <2>1. CASE RemoveRefused(h) BY <1>7, <2>1, MoveFits DEF Remove, Return
    <2>2. CASE ~RemoveRefused(h) /\ pc[h] = "remove target"
      BY <1>7, <2>2, ReturnFits DEF Remove, RemoveRefused, Mounted, Path
    <2>3. CASE ~RemoveRefused(h) /\ pc[h] = "remove staging"
      BY <1>7, <2>3, ReturnFits DEF Remove, RemoveRefused, Mounted, Path
    <2> QED BY <1>7, <2>1, <2>2, <2>3 DEF Remove
  <1>8. ASSUME NEW h \in Handlers, CommandFails(h) \/ KillEnds(h)
        PROVE  OneHeard' /\ CallsFit' /\ Belief' /\ ReleasedIsUnmounted'
    <2>1. /\ pc[h] \in Commands /\ UNCHANGED <<ended, want, staged, published, block>>
          /\ pc' = [pc EXCEPT ![h] = AfterFailure(h)]
      BY <1>8 DEF CommandFails, KillEnds
    <2>2. CASE AfterFailure(h) = "idle" BY <2>1, <2>2, MoveFits
    <2>3. CASE AfterFailure(h) = "rollback" /\ pc[h] = "remount" BY <2>1, <2>3, MoveFits
    <2>4. CASE AfterFailure(h) = "lsblk" /\ pc[h] = "blkid" BY <2>1, <2>4, MoveFits
    <2> QED BY <2>2, <2>3, <2>4 DEF AfterFailure
  <1>9. ASSUME NEW h \in Handlers, ContextEnds(h)
        PROVE  OneHeard' /\ CallsFit' /\ Belief' /\ ReleasedIsUnmounted'
    <2> USE <1>9 DEF ContextEnds, WishInv, Types, Heard
    <2>1. OneHeard' BY DEF OneHeard
    <2>2. CallsFit'
      <3> SUFFICES ASSUME NEW g \in Handlers PROVE CallFitsWish(g)' BY DEF CallsFit
      <3>1. CallFitsWish(g) /\ pc'[g] = pc[g] /\ (~ended'[g] => ~ended[g]) OBVIOUS
      <3> QED BY <3>1, CallKept
    <2>3. Belief' /\ ReleasedIsUnmounted' BY DEF Belief, ReleasedIsUnmounted
    <2> QED BY <2>1, <2>2, <2>3
  <1>10. ASSUME Crash PROVE OneHeard' /\ CallsFit' /\ Belief' /\ ReleasedIsUnmounted'
    <2> USE <1>10, MountsFitWish DEF Crash, WishInv, Types, Heard
    <2>1. OneHeard' /\ CallsFit' BY DEF OneHeard, CallsFit, CallFitsWish
    <2>2. Belief' /\ ReleasedIsUnmounted' BY DEF Belief, ReleasedIsUnmounted
    <2> QED BY <2>1, <2>2
  <1>11. ASSUME ChangeMind PROVE OneHeard' /\ CallsFit' /\ Belief' /\ ReleasedIsUnmounted'
    <2> USE <1>11 DEF ChangeMind, WishInv, Types, Heard
    <2>1. OneHeard' BY DEF OneHeard
    <2>2. CallsFit' BY DEF CallsFit, CallFitsWish
    <2>3. Belief' /\ ReleasedIsUnmounted' BY DEF Belief, ReleasedIsUnmounted
    <2> QED BY <2>1, <2>2, <2>3
  <1>12. ASSUME WorkloadWrites \/ UNCHANGED vars
         PROVE  OneHeard' /\ CallsFit' /\ Belief' /\ ReleasedIsUnmounted'
    <2>1. UNCHANGED <<staging, target, pc, ended, want, staged, published, block>>
      BY <1>12 DEF WorkloadWrites, vars
    <2>2. OneHeard' BY <2>1 DEF WishInv, OneHeard, Heard
    <2>3. CallsFit' BY <2>1, CallKept DEF WishInv, Types, CallsFit
    <2>4. Belief' /\ ReleasedIsUnmounted' BY <2>1 DEF WishInv, Belief, ReleasedIsUnmounted
    <2> QED BY <2>2, <2>3, <2>4
  <1> QED
    BY <1>2, <1>3, <1>4, <1>5, <1>6, <1>7, <1>8, <1>9, <1>10, <1>11, <1>12, StartFits
       DEF Next, HandlerStep

\* After an OK to NodeUnpublishVolume the target is free, and after an OK to NodeUnstageVolume
\* nothing of the volume is mounted, however many calls overlap and whatever they leave behind.
THEOREM ReleasedIsUnmountedAlways == Spec => []ReleasedIsUnmounted
  <1>1. WishInv => ReleasedIsUnmounted BY DEF WishInv
  <1>2. WishInv /\ [Next]_vars => WishInv' BY WishStep
  <1> QED BY WishInit, <1>1, <1>2, PTL DEF Spec

-----------------------------------------------------------------------------
(* Nothing that carries data is formatted, unless the call was shown nothing. *)

\* A device that shows nothing to a tool that is not blind carries nothing, or half a format.
LEMMA CarriedNone ==
  ASSUME Types PROVE Carried = "none" <=> disk \in {"blank", "partial"}
  BY FsAssumption DEF Types, Carried

\* What is not mounted and carries no filesystem, or is held by mkfs, stays unmounted in a step.
LEMMA CleanStays ==
  ASSUME DataInv, [Next]_vars, Held \/ (~block /\ Carried = "none")
  PROVE  staging' = "none" /\ target' = <<>> /\ staging = "none" /\ target = <<>> /\ ~block
  <1>1. PICK h \in Handlers : MountStep(h) BY StepMounts DEF DataInv
  <1>2. CallFitsWish(h) /\ Types BY DEF DataInv, WishInv
  <1>3. Held => ~block BY DEF Held, DataInv, WishInv, CallFitsWish, StagePcs
  <1>4. staging = "none" /\ target = <<>> /\ ~block BY <1>3 DEF DataInv, DiskOK
  <1>5. Held \/ disk # FsType BY <1>2, CarriedNone, FsAssumption
  <1>6. staging' = "none" BY <1>1, <1>4, <1>5 DEF MountStep
  <1>7. target' = <<>> BY <1>1, <1>2, <1>4 DEF MountStep, CallFitsWish
  <1> QED BY <1>4, <1>6, <1>7

\* A step that touches neither the device nor a call that formats it.
LEMMA DiskStill ==
  ASSUME DataInv, [Next]_vars, UNCHANGED diskVars,
         \A h \in Handlers :
           /\ pc'[h] = "format" => pc[h] = "format" /\ (misread[h] => misread'[h])
           /\ Heard(h)' /\ pc'[h] = "mkfs" => Heard(h) /\ pc[h] = "mkfs" /\ (misread[h] => misread'[h])
           /\ misread'[h] => misread[h]
  PROVE  DiskOK'
  <1>1. disk' = disk /\ data' = data /\ Carried' = Carried BY DEF diskVars, Carried
  <1>2. ~block' => ~block
    <2>1. block \in BOOLEAN BY DEF DataInv, WishInv, Types
    <2>2. block' = block BY StepMounts DEF DataInv, volumeVars
    <2> QED BY <2>1, <2>2
  <1>3. (data' => data) /\ (~data => ~data')
    <2>1. data \in BOOLEAN BY DEF DataInv, WishInv, Types
    <2> QED BY <1>1, <2>1
  <1>4. ~block' /\ Carried' = "none" => ~data' /\ staging' = "none" /\ target' = <<>>
    BY <1>1, <1>2, <1>3, CleanStays DEF DataInv, DiskOK
  <1>5. Held' => staging' = "none" /\ target' = <<>> BY CleanStays DEF Held
  <1>6. data' => \A h \in Handlers : pc'[h] = "format" => misread'[h] BY <1>3 DEF DataInv, DiskOK
  <1>7. \A h \in Handlers : Heard(h)' /\ pc'[h] = "mkfs" => Carried' = "none" \/ misread'[h]
    BY <1>1 DEF DataInv, DiskOK
  <1>8. Blind = {} => \A h \in Handlers : ~misread'[h] BY DEF DataInv, DiskOK
  <1> QED BY <1>4, <1>5, <1>6, <1>7, <1>8 DEF DiskOK

\* One handler moves to a place that has nothing to do with formatting.
LEMMA DiskStillMove ==
  ASSUME DataInv, [Next]_vars, UNCHANGED diskVars, NEW h \in Handlers, NEW place \in Pcs \ {"mkfs", "format"},
         pc' = [pc EXCEPT ![h] = place], \A g \in Handlers : g # h => ended'[g] = ended[g],
         misread' = misread \/ misread' = [misread EXCEPT ![h] = FALSE]
  PROVE  DiskOK'
  <1>1. pc \in [Handlers -> Pcs] /\ misread \in [Handlers -> BOOLEAN] BY DEF DataInv, WishInv, Types
  <1>2. \A g \in Handlers : misread'[g] => misread[g] BY <1>1
  <1>3. \A g \in Handlers : g # h => (misread[g] => misread'[g]) BY <1>1
  <1>4. ASSUME NEW g \in Handlers, pc'[g] \in {"mkfs", "format"} PROVE g # h /\ pc'[g] = pc[g]
    BY <1>1, <1>4
  <1>5. \A g \in Handlers : Heard(g)' /\ pc'[g] = "mkfs" => Heard(g) /\ pc[g] = "mkfs"
    BY <1>4 DEF Heard
  <1> QED BY <1>2, <1>3, <1>4, <1>5, DiskStill

\* A step that ends a format leaves a device that is not mounted and carries no data, and no other
\* call was about to start mkfs on the strength of what was there before.
LEMMA FormatOver ==
  ASSUME DataInv, [Next]_vars, Held, data' = FALSE,
         \A h \in Handlers : Heard(h)' /\ pc'[h] = "mkfs" => Carried' = "none" \/ misread'[h],
         \A h \in Handlers : misread'[h] => misread[h]
  PROVE  DiskOK'
  <1>1. staging' = "none" /\ target' = <<>> BY CleanStays
  <1>2. Blind = {} => \A h \in Handlers : ~misread'[h] BY DEF DataInv, DiskOK
  <1> QED BY <1>1, <1>2 DEF DiskOK

\* A format is running that was started on a reading that showed nothing of a filesystem.
FormatsMisread == \E h \in Handlers : pc[h] = "format" /\ misread[h]

\* The inductive step: between the answer of a tool and the end of mkfs nobody else writes.
LEMMA DiskStep == ASSUME DataInv, [Next]_vars PROVE DiskOK' /\ (data => data' \/ FormatsMisread)
  <1> USE DEF Goto, diskVars, callVars
  <1>1. Types /\ OneHeard /\ DiskOK /\ (\A h \in Handlers : CallFitsWish(h)) BY DEF DataInv, WishInv
  <1>2. pc \in [Handlers -> Pcs] /\ block \in BOOLEAN /\ block' = block /\ data \in BOOLEAN
    BY <1>1, StepMounts DEF Types, DataInv, volumeVars
  <1>3. ASSUME NEW h \in Handlers, pc[h] = "format" PROVE Held /\ (data => FormatsMisread)
    BY <1>1, <1>3 DEF DiskOK, Held, FormatsMisread
  <1>4. ASSUME UNCHANGED <<disk, data>> PROVE data => data'
    BY <1>2, <1>4
  <1>5. ASSUME NEW h \in Handlers, StartCall(h) PROVE UNCHANGED diskVars /\ DiskOK'
    <2>1. /\ UNCHANGED diskVars /\ ended' = [ended EXCEPT ![h] = FALSE]
          /\ misread' = [misread EXCEPT ![h] = FALSE]
          /\ \/ pc' = pc
             \/ \E place \in Pcs \ {"mkfs", "format"} : pc' = [pc EXCEPT ![h] = place]
          /\ pc[h] = "idle"
      BY <1>5 DEF StartCall, StartStage, StartPublish, StartUnpublish, StartUnstage, MayStart, ReturnOK,
                  Pcs, Commands
    <2>2. pc' = pc => pc' = [pc EXCEPT ![h] = "idle"] BY <1>2, <2>1
    <2>3. \E place \in Pcs \ {"mkfs", "format"} : pc' = [pc EXCEPT ![h] = place]
      BY <2>1, <2>2 DEF Pcs
    <2>4. \A g \in Handlers : g # h => ended'[g] = ended[g] BY <1>1, <2>1 DEF Types
    <2> QED BY <2>1, <2>3, <2>4, DiskStillMove
  <1>6. ASSUME NEW h \in Handlers, Blkid(h) \/ Lsblk(h) PROVE UNCHANGED diskVars /\ DiskOK'
    <2>1. PICK tool \in {"blkid", "lsblk"} : Detects(h, tool) BY <1>6 DEF Blkid, Lsblk
    <2>2. UNCHANGED <<disk, data, ended>> /\ pc[h] = tool /\ ~ended[h] BY <2>1 DEF Detects, Runs
    <2>3. ~block /\ ~block' BY <1>1, <1>2, <2>2 DEF CallFitsWish, StagePcs
    <2>4. \A g \in Handlers \ {h} : pc'[g] = pc[g]
      BY <1>2, <2>1 DEF Detects
    <2>5. pc'[h] # "format" /\ Carried' = Carried
      BY <1>2, <2>1, <2>2 DEF Detects, AfterDetection, Carried
    <2>6. Held' => Held BY <2>4, <2>5 DEF Held
    <2>7. \A g \in Handlers \ {h} : ~(Heard(g)' /\ pc'[g] = "mkfs")
      BY <1>1, <2>2, <2>4 DEF OneHeard, Heard
    <2>8. Held' => staging' = "none" /\ target' = <<>> BY <2>6, CleanStays
    <2>9. ~block' /\ Carried' = "none" => ~data' /\ staging' = "none" /\ target' = <<>>
      <3>1. Carried = "none" => ~data BY <1>1, <2>3 DEF DiskOK
      <3> QED BY <1>2, <2>2, <2>3, <2>5, <3>1, CleanStays
    <2>10. misread \in [Handlers -> BOOLEAN] BY <1>1 DEF Types
    <2>11. CASE Goto(h, AfterDetection(Carried)) /\ misread' = misread
      <3>1. pc'[h] = "mkfs" => Carried = "none"
        BY <1>2, <2>11 DEF AfterDetection
      <3>2. data' => \A g \in Handlers : pc'[g] = "format" => misread'[g]
        BY <1>1, <1>2, <2>2, <2>4, <2>5, <2>11 DEF DiskOK
      <3>3. Blind = {} => \A g \in Handlers : ~misread'[g] BY <1>1, <2>11 DEF DiskOK
      <3>4. \A g \in Handlers : Heard(g)' /\ pc'[g] = "mkfs" => Carried' = "none" \/ misread'[g]
        BY <2>5, <2>7, <3>1
      <3> QED BY <2>2, <2>8, <2>9, <3>2, <3>3, <3>4 DEF DiskOK
    <2>12. CASE tool \in Blind /\ misread' = [misread EXCEPT ![h] = TRUE]
      <3>1. misread'[h] /\ \A g \in Handlers \ {h} : misread[g] => misread'[g] BY <2>10, <2>12
      <3>2. data' => \A g \in Handlers : pc'[g] = "format" => misread'[g]
        BY <1>1, <1>2, <2>2, <2>4, <2>5, <3>1 DEF DiskOK
      <3>3. \A g \in Handlers : Heard(g)' /\ pc'[g] = "mkfs" => Carried' = "none" \/ misread'[g]
        BY <2>7, <3>1
      <3>4. Blind # {} BY <2>12
      <3> QED BY <2>2, <2>8, <2>9, <3>2, <3>3, <3>4 DEF DiskOK
    <2> QED BY <2>1, <2>11, <2>12 DEF Detects
  <1>7. ASSUME NEW h \in Handlers, MkfsOpens(h) PROVE UNCHANGED diskVars /\ DiskOK'
    <2>1. UNCHANGED <<disk, data, ended, misread>> /\ pc[h] = "mkfs" /\ ~ended[h]
      BY <1>7 DEF MkfsOpens, Runs
    <2>2. CASE Held \/ staging # "none" \/ target # <<>>
      <3>1. pc' = [pc EXCEPT ![h] = "idle"] BY <1>7, <2>2 DEF MkfsOpens
      <3> QED BY <2>1, <3>1, DiskStillMove DEF Pcs
    <2>3. CASE ~Held /\ staging = "none" /\ target = <<>>
      <3>1. pc' = [pc EXCEPT ![h] = "format"] /\ UNCHANGED <<staging, target>>
        BY <1>7, <2>3 DEF MkfsOpens, mountVars
      <3>2. ~block /\ ~block' BY <1>1, <1>2, <2>1 DEF CallFitsWish, StagePcs
      <3>3. \A g \in Handlers : g # h => pc'[g] # "format" /\ ~Heard(g)'
        BY <1>1, <1>2, <2>1, <2>3, <3>1 DEF OneHeard, Heard, Held
      <3>4. pc'[h] = "format" /\ Carried' = Carried BY <1>2, <2>1, <3>1 DEF Carried
      <3>5. data => misread[h] BY <1>1, <2>1, <3>2 DEF DiskOK, Heard
      <3>6. misread' = misread /\ (data' => data) BY <1>2, <2>1
      <3>7. data' => \A g \in Handlers : pc'[g] = "format" => misread'[g] BY <3>3, <3>5, <3>6
      <3>8. \A g \in Handlers : Heard(g)' /\ pc'[g] = "mkfs" => FALSE BY <3>3, <3>4
      <3>9. ~block' /\ Carried' = "none" => ~data' BY <1>1, <3>2, <3>4, <3>6 DEF DiskOK
      <3>10. Blind = {} => \A g \in Handlers : ~misread'[g] BY <1>1, <3>6 DEF DiskOK
      <3> QED BY <2>1, <2>3, <3>1, <3>7, <3>8, <3>9, <3>10 DEF DiskOK
    <2> QED BY <2>2, <2>3
  <1>8. ASSUME NEW h \in Handlers, MkfsEnds(h) PROVE (data => FormatsMisread) /\ DiskOK'
    <2>1. /\ UNCHANGED <<ended, misread>> /\ pc[h] = "format" /\ ~ended[h] /\ data' = FALSE
          /\ pc' = [pc EXCEPT ![h] = "mount"]
      BY <1>8 DEF MkfsEnds, Runs
    <2>2. \A g \in Handlers : ~(Heard(g)' /\ pc'[g] = "mkfs")
      BY <1>1, <1>2, <2>1 DEF OneHeard, Heard
    <2> QED BY <1>3, <2>1, <2>2, FormatOver
  <1>9. ASSUME NEW h \in Handlers,
               \/ Fsck(h) \/ MountEnds(h) \/ BindEnds(h) \/ StartRemount(h) \/ RemountEnds(h)
               \/ RollBack(h) \/ UmountEnds(h) \/ Remove(h)
        PROVE  UNCHANGED diskVars /\ DiskOK'
    <2>1. UNCHANGED <<disk, data, ended, misread>>
      BY <1>9 DEF Fsck, MountEnds, BindEnds, StartRemount, RemountEnds, RollBack, UmountEnds, Remove
    <2>2. \E place \in {"idle", "mount", "bound", "rollback", "remount", "remove target", "remove staging"} :
            pc' = [pc EXCEPT ![h] = place]
      BY <1>9 DEF Fsck, MountEnds, BindEnds, StartRemount, RemountEnds, RollBack, UmountEnds, Remove,
                  ReturnOK, Return
    <2> QED BY <2>1, <2>2, DiskStillMove DEF Pcs, Commands
  <1>10. ASSUME NEW h \in Handlers, CommandFails(h) \/ KillEnds(h)
         PROVE  (data => data' \/ FormatsMisread) /\ DiskOK'
    <2>1. CutShort(h) /\ UNCHANGED <<ended, misread>> /\ pc' = [pc EXCEPT ![h] = AfterFailure(h)]
      BY <1>10 DEF CommandFails, KillEnds
    <2>2. CASE pc[h] = "format"
      <3>1. disk' = "partial" /\ data' = FALSE BY <2>1, <2>2 DEF CutShort
      <3>2. Carried' = "none" BY <3>1 DEF Carried
      <3> QED BY <1>3, <2>1, <2>2, <3>1, <3>2, FormatOver
    <2>3. CASE pc[h] # "format"
      <3>1. UNCHANGED <<disk, data>> BY <2>1, <2>3 DEF CutShort
      <3>2. AfterFailure(h) \in {"idle", "rollback", "lsblk"} BY DEF AfterFailure
      <3>3. DiskOK' BY <2>1, <3>1, <3>2, DiskStillMove DEF Pcs, Commands
      <3> QED BY <1>4, <3>1, <3>3
    <2> QED BY <2>2, <2>3
  <1>11. ASSUME Crash PROVE (data => data' \/ FormatsMisread) /\ DiskOK'
    <2>1. pc' = [h \in Handlers |-> "idle"] /\ misread' = misread BY <1>11 DEF Crash
    <2>2. CASE Held
      <3>1. disk' = "partial" /\ data' = FALSE BY <1>11, <2>2 DEF Crash
      <3>2. Carried' = "none" BY <3>1 DEF Carried
      <3>3. data => FormatsMisread BY <1>3, <2>2 DEF Held
      <3> QED BY <2>1, <2>2, <3>1, <3>2, <3>3, FormatOver
    <2>3. CASE ~Held
      <3>1. UNCHANGED <<disk, data>> BY <1>11, <2>3 DEF Crash
      <3>2. \A h \in Handlers : pc'[h] = "idle" /\ (misread'[h] => misread[h]) BY <2>1
      <3>3. DiskOK' BY <3>1, <3>2, DiskStill
      <3> QED BY <1>4, <3>1, <3>3
    <2> QED BY <2>2, <2>3
  <1>12. ASSUME ChangeMind \/ UNCHANGED vars \/ \E h \in Handlers : ContextEnds(h)
         PROVE  UNCHANGED diskVars /\ DiskOK'
    <2>1. UNCHANGED <<disk, data, pc, misread>> /\ \A h \in Handlers : ~ended'[h] => ~ended[h]
      BY <1>1, <1>12 DEF ChangeMind, ContextEnds, vars, Types
    <2>2. \A h \in Handlers : Heard(h)' => Heard(h) BY <2>1 DEF Heard
    <2>3. \A h \in Handlers : (misread'[h] => misread[h]) /\ (misread[h] => misread'[h])
      BY <1>1, <2>1 DEF Types
    <2> QED BY <2>1, <2>2, <2>3, DiskStill
  <1>13. ASSUME WorkloadWrites PROVE ~data /\ DiskOK'
    <2>1. ~data /\ target # <<>> /\ UNCHANGED <<disk, pc, ended, misread>> BY <1>13 DEF WorkloadWrites
    <2>2. ~Held /\ (block \/ Carried # "none") BY <1>1, <2>1 DEF DiskOK
    <2>3. Carried' = Carried BY <2>1 DEF Carried
    <2>4. block' \/ Carried' # "none" BY <1>2, <2>2, <2>3
    <2>5. \A h \in Handlers : pc'[h] # "format" BY <2>1, <2>2 DEF Held
    <2>6. \A h \in Handlers : (misread'[h] => misread[h]) /\ (misread[h] => misread'[h])
      BY <1>1, <2>1 DEF Types
    <2>7. \A h \in Handlers : Heard(h)' /\ pc'[h] = "mkfs" => Carried' = "none" \/ misread'[h]
      BY <1>1, <2>1, <2>3, <2>6 DEF DiskOK, Heard
    <2>8. Blind = {} => \A h \in Handlers : ~misread'[h] BY <1>1, <2>6 DEF DiskOK
    <2> QED BY <2>1, <2>4, <2>5, <2>7, <2>8 DEF DiskOK, Held
  <1> QED
    BY <1>4, <1>5, <1>6, <1>7, <1>8, <1>9, <1>10, <1>11, <1>12, <1>13 DEF Next, HandlerStep

LEMMA DataInit == Init => DataInv
  <1>1. ASSUME Init PROVE DiskOK
    <2>1. data = (disk # "blank") /\ staging = "none" /\ target = <<>> BY <1>1 DEF Init
    <2>2. Carried = "none" => disk = "blank" BY <1>1, FsAssumption DEF Init, Carried
    <2>3. \A h \in Handlers : pc[h] = "idle" /\ misread[h] = FALSE BY <1>1 DEF Init
    <2> QED BY <2>1, <2>2, <2>3 DEF DiskOK, Held
  <1> QED BY <1>1, WishInit DEF DataInv

LEMMA DataAlways == Spec => []DataInv
  <1>1. DataInv /\ [Next]_vars => DataInv'
    <2>1. ASSUME DataInv, [Next]_vars PROVE DataInv'
      BY <2>1, WishStep, DiskStep DEF DataInv
    <2> QED BY <2>1
  <1> QED BY DataInit, <1>1, PTL DEF Spec

\* Whichever tools may be blind: data is lost only to the mkfs of a call that was itself shown
\* nothing of the filesystem, whatever is cut short, repeated or overlaps (GetFilesystemType, then
\* mkfs, in FormatAndMount).
THEOREM DataKeptAlways == Spec => DataKept
  <1>1. DataInv /\ [Next]_vars =>
          [data => data' \/ \E h \in Handlers : pc[h] = "format" /\ misread[h]]_vars
    BY DiskStep DEF FormatsMisread
  <1> QED BY DataAlways, <1>1, PTL DEF Spec, DataKept

\* mkfs is started only on a device without a filesystem, as GetFilesystemType has it: "Empty
\* string + nil err means unformatted; detection failure is an error."
FormatsUnformatted ==
  [][\A h \in Handlers : pc[h] = "mkfs" /\ pc'[h] = "format" => Carried = "none"]_vars

\* Where neither blkid nor lsblk ever misses a filesystem, mkfs is started only on a device that
\* carries none when it is started: no other call formats or fills it after it was read.
THEOREM FormatsUnformattedOnly ==
  ASSUME Blind = {}
  PROVE  Spec => FormatsUnformatted
  <1>1. ASSUME DataInv, [Next]_vars, NEW h \in Handlers, pc[h] = "mkfs", pc'[h] = "format"
        PROVE  Carried = "none"
    <2>1. ~ended[h]
      <3> USE DEF Goto, ReturnOK, Return, Pcs, Commands
      <3>1. pc \in [Handlers -> Pcs] BY <1>1 DEF DataInv, WishInv, Types
      <3>2. ASSUME NEW g \in Handlers, NEW place, place # "format", pc' = [pc EXCEPT ![g] = place]
            PROVE  FALSE
        BY <1>1, <3>1, <3>2
      <3>3. ASSUME NEW g \in Handlers, StartCall(g) PROVE FALSE
        <4>1. pc' = pc \/ \E place \in Pcs \ {"format"} : pc' = [pc EXCEPT ![g] = place]
          BY <3>3 DEF StartCall, StartStage, StartPublish, StartUnpublish, StartUnstage
        <4> QED BY <1>1, <3>2, <4>1
      <3>4. ASSUME NEW g \in Handlers, Blkid(g) \/ Lsblk(g) PROVE FALSE
        <4>1. \A found : AfterDetection(found) # "format" BY DEF AfterDetection
        <4>2. \E found : pc' = [pc EXCEPT ![g] = AfterDetection(found)]
          BY <3>4 DEF Blkid, Lsblk, Detects
        <4> QED BY <3>2, <4>1, <4>2
      <3>5. ASSUME NEW g \in Handlers,
                   \/ MkfsEnds(g) \/ Fsck(g) \/ MountEnds(g) \/ BindEnds(g) \/ StartRemount(g)
                   \/ RemountEnds(g) \/ RollBack(g) \/ UmountEnds(g) \/ Remove(g) \/ KillEnds(g)
                   \/ CommandFails(g)
            PROVE  FALSE
        <4>1. \E place \in Pcs \ {"format"} : pc' = [pc EXCEPT ![g] = place]
          BY <3>5 DEF MkfsEnds, Fsck, MountEnds, BindEnds, StartRemount, RemountEnds, RollBack, UmountEnds,
                      Remove, KillEnds, CommandFails, AfterFailure
        <4> QED BY <3>2, <4>1
      <3>6. ASSUME NEW g \in Handlers, ContextEnds(g) PROVE FALSE BY <1>1, <3>6 DEF ContextEnds
      <3>7. ASSUME Crash \/ ChangeMind \/ WorkloadWrites \/ UNCHANGED vars PROVE FALSE
        BY <1>1, <3>7 DEF Crash, ChangeMind, WorkloadWrites, vars
      <3>8. PICK g \in Handlers : MkfsOpens(g)
        BY <1>1, <3>3, <3>4, <3>5, <3>6, <3>7 DEF Next, HandlerStep
      <3> QED BY <1>1, <3>1, <3>8 DEF MkfsOpens, Runs
    <2> QED BY <1>1, <2>1 DEF DataInv, DiskOK, Heard
  <1>2. DataInv /\ [Next]_vars =>
          [\A h \in Handlers : pc[h] = "mkfs" /\ pc'[h] = "format" => Carried = "none"]_vars
    BY <1>1
  <1> QED BY DataAlways, <1>2, PTL DEF Spec, FormatsUnformatted

-----------------------------------------------------------------------------
(* What an OK tells the CO.                                                  *)

\* Only the end of a remount makes the CO believe that the volume is published, and a
\* publication that it believes in keeps its mode.
LEMMA PublishedBy ==
  ASSUME WishInv, [Next]_vars, published' = "yes"
  PROVE  \/ published = "yes" /\ readonly' = readonly
         \/ \E h \in Handlers : pc[h] = "remount" /\ RemountsTarget /\ readonly' = readonly
  <1> USE DEF coVars
  <1>1. ASSUME NEW h \in Handlers, StartCall(h)
        PROVE  published' # "yes" \/ (published' = published /\ readonly' = readonly)
    BY <1>1 DEF StartCall, StartStage, StartPublish, StartUnpublish, StartUnstage, ReturnOK
  <1>2. ASSUME NEW h \in Handlers, RemountEnds(h)
        PROVE  \/ published' = published /\ readonly' = readonly
               \/ pc[h] = "remount" /\ RemountsTarget /\ readonly' = readonly
    BY <1>2 DEF RemountEnds, Return, Runs
  <1>3. ASSUME NEW h \in Handlers, MountEnds(h) PROVE published' = published /\ readonly' = readonly
    BY <1>3 DEF MountEnds, ReturnOK, Return
  <1>4. ASSUME NEW h \in Handlers, Remove(h)
        PROVE  readonly' = readonly /\ (published' = published \/ published' = "no")
    BY <1>4 DEF Remove, ReturnOK, Return
  <1>5. ASSUME NEW h \in Handlers,
               \/ Blkid(h) \/ Lsblk(h) \/ MkfsOpens(h) \/ MkfsEnds(h) \/ Fsck(h) \/ BindEnds(h) \/ StartRemount(h)
               \/ RollBack(h) \/ UmountEnds(h) \/ KillEnds(h) \/ CommandFails(h) \/ ContextEnds(h)
        PROVE  published' = published /\ readonly' = readonly
    BY <1>5 DEF Blkid, Lsblk, Detects, MkfsOpens, MkfsEnds, Fsck, BindEnds, StartRemount, RollBack,
                UmountEnds, KillEnds, CommandFails, ContextEnds
  <1>6. ASSUME Crash \/ ChangeMind \/ WorkloadWrites \/ UNCHANGED vars
        PROVE  published' = published /\ readonly' = readonly
    BY <1>6 DEF Crash, ChangeMind, WorkloadWrites, vars
  <1> QED BY <1>1, <1>2, <1>3, <1>4, <1>5, <1>6 DEF Next, HandlerStep

\* The remount of a bind gives it the mode that was asked for, unless the mount flags say "rw".
LEMMA RemountFits ==
  ASSUME WishInv, NEW h \in Handlers, pc[h] = "remount", flag # "rw"
  PROVE  RemountFlags = (readonly \/ flag = "ro")
  <1>1. CallFitsWish(h) /\ StagingFits BY DEF WishInv
  <1>2. block \/ staging # "none" BY <1>1 DEF CallFitsWish
  <1>3. staging = "ro" <=> flag = "ro" BY <1>1, <1>2 DEF StagingFits, StagingMode
  <1>4. RemountFlags <=> (readonly \/ flag = "ro") BY <1>3 DEF RemountFlags
  <1>5. RemountFlags \in BOOLEAN BY DEF RemountFlags
  <1> QED BY <1>4, <1>5

\* An OK to NodePublishVolume is true when it is given, and only a step of a call that was given
\* up makes it untrue, where no storage class has the mount flag "rw".
THEOREM PublishHoldsAlways ==
  ASSUME "rw" \notin MountFlags
  PROVE  Spec => PublishHolds
  <1>1. ASSUME WishInv, [Next]_vars, PublishedIsMounted, published' = "yes", ~GivenUpStep
        PROVE  PublishedIsMounted'
    <2>1. flag # "rw" /\ flag' = flag /\ MountsOK
      BY <1>1, StepMounts DEF WishInv, Types, MountsOK, volumeVars
    <2>2. CASE \E h \in Handlers : pc[h] = "remount" /\ RemountsTarget /\ readonly' = readonly
      <3>1. PICK h \in Handlers : pc[h] = "remount" /\ RemountsTarget /\ readonly' = readonly BY <2>2
      <3>2. target' # <<>> /\ target'[1].ro = RemountFlags /\ target'[1].source = "volume"
        BY <1>1, <2>1, <3>1, StepMounts, RemountKeeps
      <3>3. RemountFlags = (readonly \/ flag = "ro") BY <1>1, <2>1, <3>1, RemountFits
      <3>4. target'[1].ro = (readonly' \/ flag' = "ro") BY <2>1, <3>1, <3>2, <3>3
      <3> QED BY <3>2, <3>4 DEF PublishedIsMounted
    <2>3. CASE published = "yes" /\ readonly' = readonly
      <3>1. PICK h \in Handlers :
              MountStep(h) /\ (UNCHANGED <<staging, target>> \/ (pc'[h] # pc[h] /\ ended' = ended))
        BY <1>1, StepMounts
      <3>2. CASE target' # target
        <4>1. /\ pc[h] \in {"bind", "remount", "umount target", "rollback"}
              /\ pc'[h] # pc[h] /\ ended' = ended
          BY <3>1, <3>2 DEF MountStep
        <4>2. ~ended[h]
          <5>1. ended[h] \in BOOLEAN BY <1>1 DEF WishInv, Types
          <5>2. CASE ended[h] = TRUE BY <1>1, <4>1, <5>2 DEF GivenUpStep
          <5> QED BY <5>1, <5>2
        <4>3. CallFitsWish(h) BY <1>1 DEF WishInv
        <4> QED BY <2>3, <4>1, <4>2, <4>3 DEF CallFitsWish, Heard, PublishPcs, UnpublishPcs
      <3>3. CASE target' = target
        BY <1>1, <2>1, <2>3, <3>3 DEF PublishedIsMounted
      <3> QED BY <3>2, <3>3
    <2> QED BY <1>1, <2>2, <2>3, PublishedBy
  <1>2. WishInv /\ [Next]_vars => [PublishedIsMounted => PublishedIsMounted' \/ GivenUpStep]_vars
    <2>1. ASSUME WishInv, [Next]_vars, PublishedIsMounted PROVE PublishedIsMounted' \/ GivenUpStep
      <3>1. CASE published' # "yes" BY <3>1 DEF PublishedIsMounted
      <3> QED BY <1>1, <2>1, <3>1
    <2> QED BY <2>1
  <1>3. WishInv /\ [Next]_vars => WishInv' BY WishStep
  <1> QED BY WishInit, <1>2, <1>3, PTL DEF Spec, PublishHolds

\* NodeUnstageVolume answers OK only when neither path is mounted.
LEMMA UnstagedBy ==
  ASSUME WishInv, [Next]_vars, staged # "no", staged' = "no"
  PROVE  staging = "none" /\ target = <<>> /\ staging' = "none" /\ target' = <<>>
  <1> USE DEF coVars
  <1>1. ASSUME NEW h \in Handlers, StartCall(h) PROVE staged' # "no"
    BY <1>1 DEF StartCall, StartStage, StartPublish, StartUnpublish, StartUnstage, ReturnOK
  <1>2. ASSUME NEW h \in Handlers, RemountEnds(h) \/ MountEnds(h) PROVE staged' # "no"
    BY <1>2 DEF RemountEnds, MountEnds, Return, ReturnOK
  <1>3. ASSUME NEW h \in Handlers,
               \/ Blkid(h) \/ Lsblk(h) \/ MkfsOpens(h) \/ MkfsEnds(h) \/ Fsck(h) \/ BindEnds(h) \/ StartRemount(h)
               \/ RollBack(h) \/ UmountEnds(h) \/ KillEnds(h) \/ CommandFails(h) \/ ContextEnds(h)
        PROVE  staged' # "no"
    BY <1>3 DEF Blkid, Lsblk, Detects, MkfsOpens, MkfsEnds, Fsck, BindEnds, StartRemount, RollBack,
                UmountEnds, KillEnds, CommandFails, ContextEnds
  <1>4. ASSUME Crash \/ ChangeMind \/ WorkloadWrites \/ UNCHANGED vars PROVE staged' # "no"
    BY <1>4 DEF Crash, ChangeMind, WorkloadWrites, vars
  <1>5. ASSUME NEW h \in Handlers, Remove(h)
        PROVE  staging = "none" /\ target = <<>> /\ staging' = "none" /\ target' = <<>>
    <2>1. ReturnOK(h, Path(h), "no") /\ ~RemoveRefused(h) BY <1>5 DEF Remove, Return
    <2>2. Path(h) = "staging" /\ ~ended[h] BY <2>1 DEF ReturnOK
    <2>3. pc[h] = "remove staging" BY <1>5, <2>2 DEF Remove, Path
    <2>4. published = "no" BY <2>2, <2>3 DEF WishInv, CallFitsWish, Heard, UnstagePcs
    <2>5. staging = "none" BY <2>1, <2>2 DEF RemoveRefused, Mounted
    <2>6. target = <<>> BY <2>4 DEF WishInv, ReleasedIsUnmounted
    <2> QED BY <1>5, <2>5, <2>6 DEF Remove
  <1> QED BY <1>1, <1>2, <1>3, <1>4, <1>5 DEF Next, HandlerStep

\* The node keeps its contract with the attach side: the volume is mounted, at either path, only
\* between the start of a NodeStageVolume and an OK to NodeUnstageVolume.
THEOREM KeepsNodeContractAlways == Spec => KeepsNodeContract
  <1>1. Init => Contract!ContractInit BY DEF Init, Contract!ContractInit
  <1>2. ASSUME WishInv, [Next]_vars PROVE [Contract!ContractNext]_(Contract!contractVars)
    <2>1. WishInv' BY <1>2, WishStep
    <2>2. /\ staged \in {"no", "maybe", "yes"} /\ staged' \in {"no", "maybe", "yes"}
          /\ staged = "no" => staging = "none" /\ target = <<>>
          /\ staged' = "no" => staging' = "none" /\ target' = <<>>
      BY <1>2, <2>1 DEF WishInv, Types, ReleasedIsUnmounted
    <2>3. CASE staged = "no" /\ staged' = "no" BY <2>2, <2>3 DEF Contract!contractVars
    <2>4. CASE staged = "no" /\ staged' # "no"
      BY <2>2, <2>4 DEF Contract!ContractNext, Contract!Engage
    <2>5. CASE staged # "no" /\ staged' # "no"
      BY <2>2, <2>5 DEF Contract!ContractNext, Contract!Work
    <2>6. CASE staged # "no" /\ staged' = "no"
      <3>1. staging = "none" /\ target = <<>> /\ staging' = "none" /\ target' = <<>>
        BY <1>2, <2>6, UnstagedBy
      <3> QED BY <2>6, <3>1 DEF Contract!ContractNext, Contract!Release
    <2> QED BY <2>3, <2>4, <2>5, <2>6
  <1>3. WishInv /\ [Next]_vars => WishInv' BY WishStep
  <1> QED BY WishInit, <1>1, <1>2, <1>3, PTL DEF Spec, KeepsNodeContract, Contract!ContractSpec

-----------------------------------------------------------------------------
(* The stack of mounts at the target is bounded by the calls that overlap.   *)

\* A call is about to bind only if it found the target free.
LEMMA BindingBy ==
  ASSUME WishInv, [Next]_vars
  PROVE  Binding' \subseteq Binding \/ (target = <<>> /\ target' = <<>>)
  <1> USE DEF Goto
  <1>1. pc \in [Handlers -> Pcs] BY DEF WishInv, Types
  <1>2. ASSUME NEW h \in Handlers, NEW place, place # "bind", pc' = [pc EXCEPT ![h] = place]
        PROVE  Binding' \subseteq Binding
    BY <1>1, <1>2 DEF Binding
  <1>3. ASSUME NEW h \in Handlers, StartPublish(h)
        PROVE  Binding' \subseteq Binding \/ (target = <<>> /\ target' = <<>>)
    <2>1. CASE target = <<>> BY <1>3, <2>1 DEF StartPublish
    <2>2. CASE target # <<>>
      <3>1. pc' = pc \/ pc' = [pc EXCEPT ![h] = "remount"]
        BY <1>3, <2>2 DEF StartPublish, IsMountPoint, Mounted
      <3> QED BY <1>2, <3>1 DEF Binding
    <2> QED BY <2>1, <2>2
  <1>4. ASSUME NEW h \in Handlers, StartStage(h) \/ StartUnpublish(h) \/ StartUnstage(h) \/ HandlerStep(h)
                                   \/ CommandFails(h)
        PROVE  Binding' \subseteq Binding
    <2>1. \E place \in Pcs \ {"bind"} : pc' = [pc EXCEPT ![h] = place]
      <3> USE DEF Pcs, Commands, ReturnOK, Return
      <3>1. CASE StartStage(h)
        <4>1. pc' = [pc EXCEPT ![h] = "idle"] \/ pc' = [pc EXCEPT ![h] = "blkid"]
          BY <3>1 DEF StartStage
        <4> QED BY <4>1
      <3>2. CASE StartUnpublish(h)
        <4>1. pc' = [pc EXCEPT ![h] = "umount target"] \/ pc' = [pc EXCEPT ![h] = "remove target"]
          BY <3>2 DEF StartUnpublish
        <4> QED BY <4>1
      <3>3. CASE StartUnstage(h)
        <4>1. pc' = [pc EXCEPT ![h] = "umount staging"] \/ pc' = [pc EXCEPT ![h] = "remove staging"]
          BY <3>3 DEF StartUnstage
        <4> QED BY <4>1
      <3>4. CASE Blkid(h) \/ Lsblk(h)
        <4>1. \A found : AfterDetection(found) \in {"idle", "mkfs", "mount", "fsck"} BY DEF AfterDetection
        <4>2. \E found : pc' = [pc EXCEPT ![h] = AfterDetection(found)] BY <3>4 DEF Blkid, Lsblk, Detects
        <4> QED BY <4>1, <4>2
      <3>5. CASE MkfsOpens(h) \/ MkfsEnds(h) \/ Fsck(h) BY <3>5 DEF MkfsOpens, MkfsEnds, Fsck
      <3>6. CASE MountEnds(h) \/ BindEnds(h) BY <3>6 DEF MountEnds, BindEnds
      <3>7. CASE StartRemount(h) \/ RemountEnds(h) \/ RollBack(h)
        BY <3>7 DEF StartRemount, RemountEnds, RollBack
      <3>8. CASE UmountEnds(h) \/ Remove(h) BY <3>8 DEF UmountEnds, Remove
      <3>9. CASE KillEnds(h) \/ CommandFails(h) BY <3>9 DEF KillEnds, CommandFails, AfterFailure
      <3> QED BY <1>4, <3>1, <3>2, <3>3, <3>4, <3>5, <3>6, <3>7, <3>8, <3>9 DEF HandlerStep
    <2> QED BY <1>2, <2>1
  <1>5. ASSUME Crash PROVE Binding' \subseteq Binding
    BY <1>5 DEF Crash, Binding
  <1>6. ASSUME ChangeMind \/ WorkloadWrites \/ UNCHANGED vars \/ \E h \in Handlers : ContextEnds(h)
        PROVE  Binding' \subseteq Binding
    BY <1>6 DEF ChangeMind, WorkloadWrites, ContextEnds, vars, Binding
  <1> QED BY <1>3, <1>4, <1>5, <1>6 DEF Next, StartCall

\* The inductive step: the mount that a bind adds takes the place of the call that made it.
LEMMA StackStep == ASSUME WishInv, StackOK, [Next]_vars PROVE StackOK'
  <1>1. PICK h \in Handlers :
          MountStep(h) /\ (UNCHANGED <<staging, target>> \/ (pc'[h] # pc[h] /\ ended' = ended))
    BY StepMounts
  <1>2. Len(target) \in Nat /\ Len(target') \in Nat
    BY StepMounts, LenProperties DEF MountsOK, WishInv, Types
  <1>3. /\ IsFiniteSet(Binding) /\ Cardinality(Binding) \in Nat
        /\ Cardinality(Binding') \in Nat /\ Cardinality(Binding') <= Cardinality(Handlers)
        /\ Cardinality(Handlers) \in Nat
    <2>1. IsFiniteSet(Handlers) /\ Binding \subseteq Handlers /\ Binding' \subseteq Handlers
      BY HandlersAssumption DEF Binding
    <2> QED BY <2>1, FS_Subset, FS_CardinalityType
  <1>4. CASE target = <<>> /\ target' = <<>>
    <2>1. Len(target') = 0 BY <1>4
    <2> QED BY <1>3, <2>1 DEF StackOK
  <1>5. CASE Binding' \subseteq Binding /\ (pc[h] # "bind" \/ target' = target)
    <2>1. Cardinality(Binding') <= Cardinality(Binding) BY <1>3, <1>5, FS_Subset
    <2>2. Len(target') <= Len(target)
      <3>1. CASE pc[h] # "bind" BY <1>1, <3>1 DEF MountStep
      <3>2. CASE target' = target BY <1>2, <3>2
      <3> QED BY <1>5, <3>1, <3>2
    <2> QED BY <1>2, <1>3, <2>1, <2>2 DEF StackOK
  <1>6. CASE Binding' \subseteq Binding /\ pc[h] = "bind" /\ target' # target
    <2>1. h \in Binding /\ h \notin Binding' BY <1>1, <1>6 DEF Binding
    <2>2. IsFiniteSet(Binding \ {h}) /\ Cardinality(Binding \ {h}) = Cardinality(Binding) - 1
      BY <1>3, <2>1, FS_RemoveElement
    <2>3. Binding' \subseteq Binding \ {h} BY <1>6, <2>1
    <2>4. Cardinality(Binding') <= Cardinality(Binding) - 1 BY <2>2, <2>3, FS_Subset
    <2>5. Len(target') <= Len(target) + 1 BY <1>1 DEF MountStep
    <2> QED BY <1>2, <1>3, <2>4, <2>5 DEF StackOK
  <1> QED BY <1>4, <1>5, <1>6, BindingBy

\* The types; and never more mounts lie on the target than calls can overlap.
THEOREM NodeTypes == Spec => []TypeOK
  <1>1. Init => WishInv /\ StackOK
    <2>1. ASSUME Init PROVE StackOK
      <3>1. Len(target) = 0 /\ Binding = {} BY <2>1 DEF Init, Binding
      <3> QED BY <3>1, HandlersAssumption, FS_EmptySet, FS_CardinalityType DEF StackOK
    <2> QED BY <2>1, WishInit
  <1>2. WishInv /\ StackOK /\ [Next]_vars => (WishInv /\ StackOK)' BY WishStep, StackStep
  <1>3. WishInv /\ StackOK => TypeOK
    <2>1. ASSUME WishInv, StackOK PROVE Len(target) <= Cardinality(Handlers)
      <3>1. Len(target) \in Nat BY <2>1, LenProperties DEF WishInv, Types
      <3>2. Binding \subseteq Handlers BY DEF Binding
      <3>3. Cardinality(Binding) \in Nat /\ Cardinality(Handlers) \in Nat
        BY <3>2, HandlersAssumption, FS_Subset, FS_CardinalityType
      <3> QED BY <2>1, <3>1, <3>3 DEF StackOK
    <2> QED BY <2>1 DEF WishInv, Types, TypeOK, Mount, Pcs
  <1> QED BY <1>1, <1>2, <1>3, PTL DEF Spec
=============================================================================
