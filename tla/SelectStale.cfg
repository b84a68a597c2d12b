CONSTANTS
  NULL = NULL
  index = index
  page = page
  secret = secret
  locked = locked
  missing = missing
  empty = empty
  bare = bare
  folder = folder
  Names = {index, page}
  Streams = {s1, s2, s3}
  MaxOpenFiles = 3
  MaxClients = 2
  UploadBuffer = 1
  UseSendfile = FALSE
  FdLimit = 5
  SITE_INDEX = index
  Absent <- MCAbsent
  IndexNames <- MCIndexNames
  Unreadable <- NoNames
  Protected <- NoNames
  Bare <- NoNames
  Directories <- NoNames
  Clients <- LowClients
  Requests <- SelectGets
  Sizes <- MCSizes
  InitDisk <- Disk12
  Faults <- FinOnly
  Listener = 3
SPECIFICATION SelectSpec
INVARIANTS
  BitsAreConnections
