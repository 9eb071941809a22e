CONSTANTS
  r1 = r1  r2 = r2  j1 = j1  j2 = j2  img = img  c1 = c1  c2 = c2  p1 = p1
  Job = {j1}
  EmptyJob = EmptyJob
  VmName <- MCOneVmName
  NoJob = NoJob
  NoExpiry = NoExpiry
  NoVm = NoVm
  Runner <- MCOneRunner
  Position <- MCOnePosition
  Image = {img}
  ImageOf <- MCOneImageOf
  AnyImage = AnyImage
  NoReading = NoReading
  NoHealth = NoHealth
  BadHealth = BadHealth
  NoRunner = NoRunner
  Reaper = {p1}
  AnyRunner = AnyRunner
  UnknownRunner = UnknownRunner
  NoRequest = NoRequest
  Ttl = {1}
  SafeChar <- MCSafeChar
  Dash = "-"
  Dot = "."
  Prefix <- MCPrefix
  MaxLen = 12
  VmNameFor <- MCOneVmNameFor
  Nobody = Nobody
  Absent = Absent
  Torn = Torn
  Cli = {c1}
  Acquires <- MCLiveAcquires
  Releases <- MCLiveReleases
  Faults = {}
  Mortal = {c1}
  MaxTime = 1
SPECIFICATION FairTartSpec
PROPERTIES StuckVmGoes OverdueLeaseEnds CommandsEnd VmsStayKnown
