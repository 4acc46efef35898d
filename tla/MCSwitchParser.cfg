SPECIFICATION Spec
CONSTANTS
  Descriptions <- MCDescriptions
  VlanLists <- MCVlanLists
  MaxNeighbors = 2
  VRF = {"default", "tenant"}
  HopKinds <- MCHopKinds
  MaxRoutes = 2
  MaxHops = 2
  Family = {"ipv4", "ipv6"}
  LocalAS <- MCLocalAS
  PeerLists <- MCPeerLists
  MaxSections = 3
  MaxInterfaces = 3
  Modules <- MCModules
  Port = {"Eth1/1", "Po50"}
  Known = {"Align-Err FCS-Err", "InDiscards"}
  Other = {"Collisions"}
  MaxTables = 2
  MaxRows = 3
  MaxBlocks = 2
  MaxParts = 4
  MaxRules = 2
INVARIANTS NeighborsReported RoutesReported SectionsReported TransceiversReported TablesReported BlocksReported
