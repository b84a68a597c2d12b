CONSTANTS
  NULL = NULL
  Names = {n1, n2}
  Streams = {s1, s2}
  MaxOpenFiles = 3
  UseSendfile = FALSE
  FdLimit = 2
  Clients <- MCClients
  Sizes <- MCSizes
  Absent <- MCAbsent
  Faults <- AllFaults
SYMMETRY FileSymmetry
SPECIFICATION Spec
INVARIANTS
  TypeOK
  OneStreamPerName
  OneLeasePerClient
  LeasesAreLive
  CacheMatchesLeases
  OneCacheEntryPerFile
PROPERTIES
  ClosedWithLastUser
  ImplementsStore
