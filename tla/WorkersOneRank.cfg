\* A member's computer runs a job of one rank: two faults, a late report, withdrawals.
CONSTANTS
  owner = owner  kim = kim  lab = lab  a1 = a1  a2 = a2
  host = host  cpu = cpu  gpu = gpu
  Users = {owner, kim}
  Clusters = {lab}
  OwnerOf <- OneOwner
  Agents = {a1}
  UserOf <- OwnedByMember
  ClusterOf <- InLab
  AddressOf <- SameAddress
  Hosts = {host}
  Devices = {cpu}
  GpuDevices = {}
  Reports <- SameInventory
  Ports = {29500}
  Jobs = {1}
  Codes = {}
  MaxWorld = 1
  OfflineAfter = 2
  PrepTimeout = 1
  CodeLife = 1
  Members0 <- BothMembers
  Agents0 = {a1}
  LocallyShared <- SharesAll
  Lease = 1
  Slack = 0
  MaxFaults = 2
  MaxLate = 1
  Withdrawals = TRUE
SPECIFICATION WorkersFairSpec
CHECK_DEADLOCK FALSE
PROPERTIES TrainsOnce WorkersObeyControl StopCompletes
