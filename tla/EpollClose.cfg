CONSTANTS
  NULL = NULL
  index = index
  page = page
  secret = secret
  locked = locked
  missing = missing
  empty = empty
  bare = bare
  folder = folder
  Names = {index, page}
  Streams = {s1, s2, s3}
  MaxOpenFiles = 2
  MaxClients = 2
  UploadBuffer = 2
  UseSendfile = TRUE
  FdLimit = 5
  SITE_INDEX = index
  Absent <- MCAbsent
  IndexNames <- MCIndexNames
  Unreadable <- NoNames
  Protected <- NoNames
  Bare <- NoNames
  Directories <- NoNames
  Clients <- MCClients
  Requests <- ClosingGets
  Sizes <- JustThree
  InitDisk <- Disk12
  Faults <- FinAndEdit
SPECIFICATION Spec
INVARIANTS
  TypeOK
  NoOrphanLease
  ClosedWhenDone
  TransferBalance
  NoFinishedTransferKept
PROPERTIES
  AnswerCompletes
CHECK_DEADLOCK FALSE
