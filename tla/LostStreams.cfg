CONSTANTS
  NULL = NULL
  index = index
  page = page
  secret = secret
  locked = locked
  missing = missing
  empty = empty
  bare = bare
  folder = folder
  Names = {index, page}
  Streams = {s1, s2, s3}
  MaxOpenFiles = 2
  MaxClients = 2
  UploadBuffer = 1
  UseSendfile = FALSE
  FdLimit = 5
  SITE_INDEX = index
  Absent <- MCAbsent
  IndexNames <- MCIndexNames
  Unreadable <- NoNames
  Protected <- NoNames
  Bare <- NoNames
  Directories <- NoNames
  Clients <- MCClients
  Requests <- ClosingGets
  Sizes <- MCSizes
  InitDisk <- Disk12
  Faults <- FinOnly
SPECIFICATION Spec
INVARIANTS
  NotFoundIsAbsent
CHECK_DEADLOCK FALSE
