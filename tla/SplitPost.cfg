CONSTANTS
  NULL = NULL
  index = index
  page = page
  secret = secret
  locked = locked
  missing = missing
  empty = empty
  bare = bare
  folder = folder
  Names = {index, page, missing}
  Streams = {s1, s2, s3, s4}
  MaxOpenFiles = 2
  MaxClients = 2
  UploadBuffer = 1
  UseSendfile = FALSE
  FdLimit = 5
  SITE_INDEX = index
  Absent <- MCAbsent
  IndexNames <- MCIndexNames
  Unreadable <- NoNames
  Protected <- NoNames
  Bare <- NoNames
  Directories <- NoNames
  Clients <- OneClient
  Requests <- Posts
  Sizes <- MCSizes
  InitDisk <- Disk3
  Faults <- SplitOnly
SPECIFICATION Spec
PROPERTIES
  ClosedForCause
CHECK_DEADLOCK FALSE
