CONSTANTS
  r1 = r1  r2 = r2  j1 = j1  j2 = j2  v11 = v11  v12 = v12  v21 = v21  v22 = v22
  Runner = {r1, r2}
  Job = {j1, j2}
  EmptyJob = EmptyJob
  VmName = {v11, v12, v21, v22}
  NoJob = NoJob
  NoExpiry = NoExpiry
  NoVm = NoVm
  Ttl = {1, 2}
  VmNameFor <- MCVmNameFor
  MaxTime = 3
SPECIFICATION Spec
INVARIANT RecordsCoherent
PROPERTIES LifecycleForward VmStaysRecorded
