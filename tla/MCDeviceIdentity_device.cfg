\* Disks come and go under reused names, a wrong path may be reported, and udev lags behind.
SPECIFICATION FairSpec
CONSTANTS
  d1 = d1  d2 = d2
  v1 = v1  v2 = v2  v3 = v3
  Names = {d1, d2}
  Volumes = {v1, v2, v3}
  Volume = v1
  Cut <- MCCut
  None = None
  MaxFaults = 1
INVARIANTS TypeOK StagedIsOwn
PROPERTIES UsesOwnDisk RefusedIsDoubtful StageConverges
