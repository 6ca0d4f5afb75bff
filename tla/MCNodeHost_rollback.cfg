\* The rollback of a publish that was given up meets the retry that has finished its bind.
SPECIFICATION Spec
CONSTANTS
  h1 = h1  h2 = h2
  Handlers = {h1, h2}
  FsType = "ext4"
  OtherFsType = "xfs"
  MountFlags = {"none", "ro"}
  Blind = {}
  MaxFaults = 3
INVARIANTS PublishedIsMounted
