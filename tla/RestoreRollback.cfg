SPECIFICATION Spec
CONSTANTS
  MaxEvent = 1
  NoCrashIn = {"installing", "restoring"}
  NoFailureIn = {"rollingBack", "copyingTLS", "restoring", "readBack"}
  Upload <- Uploads
  MaxExport = 0
  MaxStage = 1
  MaxIssue = 0
  MaxAge = 0
  Installation <- Installations
  Foreign <- ForeignIds
  ExportsAlone = TRUE
INVARIANTS
  Recoverable
CHECK_DEADLOCK FALSE
