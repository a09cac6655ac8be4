\* One job of up to two ranks on two computers, two faults.
CONSTANTS
  owner = owner  kim = kim  lab = lab  a1 = a1  a2 = a2
  host = host  cpu = cpu  gpu = gpu
  Users = {owner}
  Clusters = {lab}
  OwnerOf <- OneOwner
  Agents = {a1, a2}
  UserOf <- OwnedByOwner
  ClusterOf <- InLab
  AddressOf <- SameAddress
  Hosts = {host}
  Devices = {cpu}
  GpuDevices = {}
  Reports <- SameInventory
  Ports = {29500}
  Jobs = {1}
  Codes = {}
  MaxWorld = 2
  OfflineAfter = 2
  PrepTimeout = 1
  CodeLife = 1
  Members0 <- OwnerOnly
  Agents0 = {a1, a2}
  LocallyShared <- SharesAll
  Lease = 1
  Slack = 0
  MaxFaults = 2
  MaxLate = 0
  Withdrawals = FALSE
SPECIFICATION WorkersSpec
SYMMETRY ComputerSymmetry
CHECK_DEADLOCK FALSE
INVARIANTS TrainsAfterAllReady
