CONSTANTS
  NULL = NULL
  index = index
  page = page
  secret = secret
  locked = locked
  missing = missing
  empty = empty
  bare = bare
  folder = folder
  Names = {index, page}
  Streams = {s1, s2, s3}
  MaxOpenFiles = 2
  MaxClients = 2
  UploadBuffer = 2
  UseSendfile = FALSE
  FdLimit = 4
  SITE_INDEX = index
  Absent <- MCAbsent
  IndexNames <- MCIndexNames
  Unreadable <- NoNames
  Protected <- NoNames
  Bare <- NoNames
  Directories <- NoNames
  Clients <- MCClients
  Requests <- RichRequests
  Sizes <- MCSizes
  InitDisk <- Disk12
  Faults <- RudeClients
VIEW WithoutView
SYMMETRY StreamSymmetry
SPECIFICATION Spec
INVARIANTS
  CountNeverOver
  TablesAgree
CHECK_DEADLOCK FALSE
