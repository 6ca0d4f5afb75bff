\* A storage class with the mount flag "rw", and a read-only publication.
SPECIFICATION Spec
CONSTANTS
  h1 = h1  h2 = h2
  Handlers = {h1}
  FsType = "ext4"
  OtherFsType = "xfs"
  MountFlags = {"none", "rw"}
  Blind = {}
  MaxFaults = 1
INVARIANTS PublishedIsMounted
