CONSTANTS
  r1 = r1  r2 = r2  j1 = j1  j2 = j2  img = img  c1 = c1  c2 = c2  p1 = p1
  Job = {j1, j2}
  EmptyJob = EmptyJob
  VmName <- MCVmName
  NoJob = NoJob
  NoExpiry = NoExpiry
  NoVm = NoVm
  Runner <- MCRunner
  Position <- MCPosition
  Image = {img}
  ImageOf <- MCImageOf
  AnyImage = AnyImage
  NoReading = NoReading
  NoHealth = NoHealth
  BadHealth = BadHealth
  NoRunner = NoRunner
  Reaper = {p1}
  AnyRunner = AnyRunner
  UnknownRunner = UnknownRunner
  NoRequest = NoRequest
  Ttl = {1, 2}
  SafeChar <- MCSafeChar
  Dash = "-"
  Dot = "."
  Prefix <- MCPrefix
  MaxLen = 12
  VmNameFor <- MCVmNameFor
  Nobody = Nobody
  Absent = Absent
  Torn = Torn
  Cli = {c1}
  Acquires <- MCTartAcquires
  Releases <- MCTartReleases
  Faults = {"os"}
  Mortal = {}
  MaxTime = 1
SPECIFICATION TartSpec
PROPERTY AcquireCleansUp
