\* A retry overlaps the call it repeats, whose cleanup outlives its context.
SPECIFICATION FairSpec
CONSTANTS
  h1 = h1  h2 = h2
  Handlers = {h1, h2}
  FsType = "ext4"
  OtherFsType = "xfs"
  MountFlags = {"none", "ro"}
  Blind = {"blkid", "lsblk"}
  MaxFaults = 4
INVARIANTS TypeOK ReleasedIsUnmounted
PROPERTIES PublishHolds KeepsNodeContract DataKept Converges
