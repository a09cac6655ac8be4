\* A computer restarts while its job is active.
CONSTANTS
  owner = owner  kim = kim  lab = lab  a1 = a1  a2 = a2
  host = host  cpu = cpu  gpu = gpu
  Users = {owner}
  Clusters = {lab}
  OwnerOf <- OneOwner
  Agents = {a1}
  UserOf <- OwnedByOwner
  ClusterOf <- InLab
  AddressOf <- SameAddress
  Hosts = {host}
  Devices = {cpu}
  GpuDevices = {}
  Reports <- SameInventory
  Ports = {29500}
  Jobs = {1}
  Codes = {}
  MaxWorld = 1
  OfflineAfter = 2
  PrepTimeout = 1
  CodeLife = 1
  Members0 <- OwnerOnly
  Agents0 = {a1}
  LocallyShared <- SharesAll
  Lease = 1
  Slack = 0
  MaxFaults = 1
  MaxLate = 0
  Withdrawals = TRUE
SPECIFICATION WorkersSpec
CHECK_DEADLOCK FALSE
PROPERTIES NothingFromScratch
