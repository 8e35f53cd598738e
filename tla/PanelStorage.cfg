SPECIFICATION Spec
CONSTANTS
  MaxEvent = 1
  NoCrashIn = {"rollingBack", "installing", "restoring"}
  NoFailureIn = {"rollingBack", "copyingTLS", "restoring", "readBack"}
  Upload <- Uploads
  MaxExport = 1
  MaxStage = 1
  MaxIssue = 1
  MaxAge = 2
  Installation <- Installations
  Foreign <- ForeignIds
  ExportsAlone = TRUE
INVARIANTS
  Recoverable
  OldOrNew
  RestoreIsSettled
CHECK_DEADLOCK FALSE
