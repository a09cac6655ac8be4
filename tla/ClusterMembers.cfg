\* A contributor joins, pairs, changes machine, is expelled and may come back.
CONSTANTS
  owner = owner  kim = kim  lab = lab  a1 = a1  a2 = a2
  host = host  moved = moved  cpu = cpu  gpu = gpu  j1 = j1  j2 = j2  k1 = k1  k2 = k2
  Users = {owner, kim}
  Clusters = {lab}
  OwnerOf <- OneOwner
  Agents = {a1, a2}
  UserOf <- TwoContributors
  ClusterOf <- OneCluster
  AddressOf <- Addresses
  Hosts = {host, moved}
  Devices = {gpu}
  GpuDevices = {gpu}
  Reports <- SameGpu
  Ports = {29500}
  Jobs = {j1}
  Codes = {k1}
  MaxWorld = 1
  OfflineAfter = 2
  PrepTimeout = 1
  CodeLife = 1
  Members0 = {}
  Agents0 = {}
SPECIFICATION FairSpec
CHECK_DEADLOCK FALSE
INVARIANTS RunsOnConsent CredentialsNeedMembership
PROPERTIES RevocationIsPermanent PreparationEnds LockedOutIsReleased
