CONSTANTS
  NULL = NULL
  ConfigFiles <- MCConfigFiles
  Places <- MCPlaces
  app_path = "app"
  logs = "logs"
  Directories <- MCDirectories
  Existing <- MCExisting
  Resources <- MCResources
  Extension <- MCExtension
  Lower <- MCLower
  Accounts <- MCAccounts
  OtherTexts <- MCOtherTexts
  MaxIndexNames = 2
  MaxMimeTypes = 2
  MaxHtAccess = 2
SPECIFICATION Spec
INVARIANTS
  TypeOK
  
  FirstEntriesKept
  AdmittedAsConfigured
  LoginIsDecoded
PROPERTIES
  LoadingEnds
CHECK_DEADLOCK FALSE
