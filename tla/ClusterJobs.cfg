\* Two jobs of up to two ranks over two agents of one machine; memberships fixed.
CONSTANTS
  owner = owner  kim = kim  lab = lab  a1 = a1  a2 = a2
  host = host  moved = moved  cpu = cpu  gpu = gpu  j1 = j1  j2 = j2  k1 = k1  k2 = k2
  Users = {owner}
  Clusters = {lab}
  OwnerOf <- OneOwner
  Agents = {a1, a2}
  UserOf <- OneContributor
  ClusterOf <- OneCluster
  AddressOf <- Addresses
  Hosts = {host}
  Devices = {cpu}
  GpuDevices = {}
  Reports <- OneCpuEach
  Ports = {29500}
  Jobs = {j1, j2}
  Codes = {}
  MaxWorld = 2
  OfflineAfter = 1
  PrepTimeout = 0
  CodeLife = 1
  Members0 <- OwnerOnly
  Agents0 = {a1, a2}
SPECIFICATION Spec
SYMMETRY JobSymmetry
CHECK_DEADLOCK FALSE
INVARIANTS TypeOK DeviceExclusive CoordinatorExclusive RowsFollowStatus
PROPERTIES StatusOrder ReleaseIsJustified RankNeverRestarts
