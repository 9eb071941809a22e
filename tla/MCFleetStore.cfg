CONSTANTS
  r1 = r1  r2 = r2  j1 = j1  j2 = j2  v11 = v11  v12 = v12  v21 = v21  v22 = v22
  img = img  c1 = c1  c2 = c2  p1 = p1
  Job = {j1, j2}
  EmptyJob = EmptyJob
  VmName = {v11, v12, v21, v22}
  NoJob = NoJob
  NoExpiry = NoExpiry
  NoVm = NoVm
  Runner <- MCRunner
  Position <- MCPosition
  Image = {img}
  ImageOf <- MCImageOf
  AnyImage = AnyImage
  NoReading = NoReading
  NoHealth = NoHealth
  BadHealth = BadHealth
  NoRunner = NoRunner
  Reaper = {p1}
  AnyRunner = AnyRunner
  UnknownRunner = UnknownRunner
  NoRequest = NoRequest
  Ttl = {1, 2}
  VmNameFor <- MCVmNameFor
  Nobody = Nobody
  Absent = Absent
  Torn = Torn
  Cli = {c1, c2}
  Acquires <- MCAcquires
  Releases <- MCReleases
  Faults = {"load", "tart", "reaper", "os", "save"}
  Mortal = {c1, c2, p1}
  MaxTime = 2
SPECIFICATION Spec
SYMMETRY Symmetry
INVARIANTS TypeOK NeverTorn NoLostUpdate OneGrantPerRunner GrantIsKept
PROPERTIES LeaseEndsByOwnerOrDeadline ImplementsBook
