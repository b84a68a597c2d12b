CONSTANTS
  NULL = NULL
  index = index
  page = page
  secret = secret
  locked = locked
  missing = missing
  empty = empty
  bare = bare
  folder = folder
  Names = {index, page, secret, locked, missing, empty, bare, folder}
  Streams = {s1, s2, s3, s4}
  MaxOpenFiles = 3
  MaxClients = 2
  UploadBuffer = 1
  UseSendfile = TRUE
  FdLimit = 4
  SITE_INDEX = page
  Absent <- MCAbsent
  IndexNames <- MCIndexNames
  Unreadable <- JustLocked
  Protected <- JustSecret
  Bare <- BareNames
  Directories <- JustFolder
  Clients <- OneClient
  Requests <- AllKinds
  Sizes <- MCSizes
  InitDisk <- Disk8
  Faults <- FinOnly
SPECIFICATION Spec
PROPERTIES
  ClosedForCause
  AnswerCompletes
CHECK_DEADLOCK FALSE
