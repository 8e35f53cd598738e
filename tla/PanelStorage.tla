---------------------------- MODULE PanelStorage -----------------------------
(* The panel's process over its files: the start of main.go with the restore *)
(* it applies, validates, finalizes or rolls back, the serving panel with    *)
(* its handlers for backups, certificates and settings, the restart, and the *)
(* crash in any step outside NoCrashIn. A supervisor starts it again.        *)
EXTENDS BackupRestore, PanelCertificate

CONSTANTS
  Installation,   \* the databases and TLS files a first start may find
  Foreign,        \* ids of databases that do not open with this version
  ExportsAlone    \* an export runs while nothing else does

ASSUME ExportAssumption == ExportsAlone \in BOOLEAN
ASSUME InstallationAssumption ==
  \A i \in Installation :
    /\ DOMAIN i.db = {"id", "tls", "headers", "acme"} /\ i.db.tls \in BOOLEAN
    /\ i.db.headers = Here /\ i.db.acme \in {NoToken, Here}

VARIABLES
  process,        \* where main is, the steps left of a file operation
  restored,       \* restoreState is not nil
  served          \* what the last serving process left on the disk

vars == <<disk, events, restoreVars, certificateVars, process, restored, served>>

Main(at) == process.at = at
Runs(at, todo) == process' = [at |-> at, todo |-> todo]

\* The files of an installation that never served.
Fresh(installation) ==
  [p \in Path |->
     CASE p = <<"live", "db">> -> {installation.db}
       [] p \in {"live"} \X {"cert", "key", "enabled"} -> installation[p[2]]
       [] OTHER -> {}]

Init ==
  /\ \E i \in Installation : disk = Fresh(i) /\ served = Fresh(i)
  /\ events = 0
  /\ RestoreInit /\ CertificateInit
  /\ process = [at |-> "down", todo |-> <<>>] /\ restored = FALSE

-----------------------------------------------------------------------------
(* The start.                                                                *)

\* What an exit takes with it.
Lost ==
  /\ issuer' = [i \in Issuer |-> Idle] /\ issuing' = FALSE /\ current' = None
  /\ tlsOn' = FALSE /\ settingsRead' = {} /\ exporter' = NotExporting
  /\ restored' = FALSE
  /\ UNCHANGED <<archives, staged, issued, ages>>

Down == Runs("down", <<>>) /\ Lost /\ UNCHANGED served

\* applyPendingRestore.
FirstSteps ==
  IF Has("live", "applied") THEN [at |-> "recovering", todo |-> UndoRestore]
  ELSE IF Exists("pending") THEN [at |-> "applying", todo |-> ApplyRestore]
  ELSE [at |-> "opening", todo |-> <<>>]

Start ==
  /\ Main("down")
  /\ process' = FirstSteps
  /\ UNCHANGED <<disk, events, restoreVars, certificateVars, restored, served>>

FileStep ==
  /\ process.todo # <<>>
  /\ Head(process.todo).can
  /\ Performed(Head(process.todo))
  /\ Runs(process.at, Tail(process.todo))
  /\ UNCHANGED <<events, restoreVars, certificateVars, restored, served>>

\* After a step that failed: its error is dropped, or ends the start, or, once
\* the copies of the database are made, has the deferred rollback undo the
\* restore, whose own error leaves only the marker and the directories to remove.
AfterFailure(step) ==
  CASE ~step.must -> [at |-> process.at, todo |-> Tail(process.todo)]
    [] step.must /\ Main("applying") /\ step.part # "copying" -> [at |-> "undoing", todo |-> UndoRestore]
    [] step.must /\ Main("undoing") -> [at |-> "undoing", todo |-> Unmarked \o Discarded]
    [] OTHER -> [at |-> "down", todo |-> <<>>]

FileStepFails ==
  /\ process.todo # <<>>
  /\ Fails(Head(process.todo))
  /\ process' = AfterFailure(Head(process.todo))
  /\ IF process'.at = "down" THEN Lost ELSE UNCHANGED <<restoreVars, certificateVars, restored>>
  /\ UNCHANGED <<disk, served>>

FileStepsDone ==
  /\ process.todo = <<>>
  /\ \/ Main("recovering") /\ Runs("opening", <<>>) /\ UNCHANGED restored
     \/ Main("applying") /\ Runs("opening", <<>>) /\ restored' = TRUE
     \/ Main("reverting") /\ Runs("reopening", <<>>) /\ UNCHANGED restored
  /\ UNCHANGED <<disk, events, restoreVars, certificateVars, served>>

Undone == process.todo = <<>> /\ Main("undoing") /\ Down /\ UNCHANGED <<disk, events>>

\* openDB: a database that is missing is created; one from another version does
\* not open.
EmptyDB == [id |-> 0, tls |-> FALSE, headers |-> Here, acme |-> NoToken]
Opens == ~Has("live", "db") \/ DB.id \notin Foreign

OpenDB ==
  /\ process.at \in {"opening", "reopening"}
  /\ Opens
  /\ LET db == IF Has("live", "db") THEN DB ELSE EmptyDB
     IN disk' = [disk EXCEPT ![<<"live", "db">>] = {db}, ![<<"live", "wal">>] = {db.id}]
  /\ Runs("checking", <<>>)
  /\ UNCHANGED <<events, restoreVars, certificateVars, restored, served>>

OpenDBFails ==
  /\ process.at \in {"opening", "reopening"}
  /\ \/ ~Opens /\ UNCHANGED events
     \/ Event
  /\ IF restored /\ Main("opening")
       THEN Runs("reverting", RevertRestore) /\ UNCHANGED <<restoreVars, certificateVars, restored, served>>
       ELSE Down
  /\ UNCHANGED disk

\* disableExpiredPanelTLSIfNeeded at the start.
AfterExpiry ==
  IF DB.tls /\ Expired
    THEN [disk EXCEPT ![<<"live", "db">>] = {[DB EXCEPT !.tls = FALSE]}, ![<<"live", "enabled">>] = {}]
    ELSE disk

\* tlsConfig: the certificate and the key are a pair.
Pair == Has("live", "cert") /\ disk[<<"live", "cert">>] = disk[<<"live", "key">>]

CheckTLS ==
  /\ Main("checking")
  /\ LET tls == DB.tls /\ ~Expired
     IN IF tls /\ ~Pair
          THEN Down /\ UNCHANGED <<disk, events>>
          ELSE /\ disk' = IF tls THEN [AfterExpiry EXCEPT ![<<"live", "enabled">>] = {TRUE}]
                                 ELSE AfterExpiry
               /\ tlsOn' = tls
               /\ current' = IF tls THEN The("live", "cert") ELSE None
               /\ Runs("listening", <<>>)
               /\ UNCHANGED <<events, restoreVars, issuer, issuing, settingsRead, issued, ages,
                              restored, served>>

\* The sites are loaded and the panel listens: the restore is final.
Listen ==
  /\ Main("listening")
  /\ Runs("finalizing", IF restored THEN FinalizeRestore ELSE <<>>)
  /\ UNCHANGED <<disk, events, restoreVars, certificateVars, restored, served>>

Serve ==
  /\ Main("finalizing") /\ process.todo = <<>>
  /\ Runs("serving", <<>>)
  /\ restored' = FALSE
  /\ UNCHANGED <<disk, events, restoreVars, certificateVars, served>>

\* log.Fatal anywhere else between the database and the listeners.
Fatal ==
  /\ process.at \in {"checking", "listening"}
  /\ Event
  /\ Down
  /\ UNCHANGED disk

-----------------------------------------------------------------------------
(* The serving panel.                                                        *)

\* The code lets an export read between two writes of the TLS files.
Apart(exporting) ==
  ExportsAlone =>
    IF exporting THEN \A i \in Issuer : issuer[i] = Idle ELSE exporter = NotExporting

Handle ==
  /\ Main("serving")
  /\ \/ Apart(TRUE) /\ ExportDatabase /\ UNCHANGED certificateVars
     \/ ExportFile /\ UNCHANGED certificateVars
     \/ (\E archive \in archives : StageRestore(archive)) /\ UNCHANGED certificateVars
     \/ /\ Apart(FALSE)
        /\ \/ Age \/ HandlerBegins \/ SchedulerChecks
           \/ \E i \in Issuer :
                \/ IssueBegins(i) \/ IssueEnds(i) \/ BackUp(i) \/ InstallBegins(i)
                \/ RestoreBegins(i) \/ FileWritten(i) \/ FilesWritten(i)
           \/ SettingsSaved \/ Activated \/ SettingDisabled \/ MarkerDisabled
           \/ SettingsRead \/ SettingsWritten
        /\ UNCHANGED restoreVars
  /\ UNCHANGED <<process, restored, served>>

\* The process is spared in these parts.
Uncrashable ==
  \/ process.todo # <<>> /\ Head(process.todo).part \in NoCrashIn
  \/ \E i \in Issuer : issuer[i].at \in NoCrashIn
  \/ "restoring" \in NoCrashIn /\ \E i \in Issuer : At(i, "undoing")

\* A restart, or a signal: the handlers end first, or are cut off, and the
\* database is closed, which takes its log with it.
Restart ==
  /\ Main("serving") /\ ~Uncrashable
  /\ disk' = [disk EXCEPT ![<<"live", "wal">>] = {}]
  /\ served' = disk'
  /\ Runs("down", <<>>) /\ Lost
  /\ UNCHANGED events

Crash ==
  /\ ~Main("down") /\ ~Uncrashable
  /\ Event
  /\ served' = IF Main("serving") THEN disk ELSE served
  /\ Runs("down", <<>>) /\ Lost
  /\ UNCHANGED disk

Boot ==
  \/ Start \/ FileStep \/ FileStepsDone \/ Undone \/ OpenDB \/ CheckTLS \/ Listen \/ Serve
  \/ FileStepFails \/ OpenDBFails

Next == Boot \/ Fatal \/ Handle \/ Restart \/ Crash

Spec == Init /\ [][Next]_vars

-----------------------------------------------------------------------------
(* Properties.                                                               *)

\* What is on a disk of its live files, were a marked restore rolled back now.
Kept(d, f) ==
  IF d[<<"live", "applied">>] # {} /\
     (f \in {"db", "wal"} \/ TRUE \in d[<<"rollback", "restore.json">>])
    THEN d[<<"rollback", f>>] ELSE d[<<"live", f>>]

\* An interruption leaves an installation that can be started: whenever the
\* process is down, what the next start finds, or rolls back to, is a database
\* with no log but its own, and the pair of certificate and key its settings ask
\* for (backup_restore.go:899-901).
Recoverable ==
  Main("down") =>
    /\ Kept(disk, "db") # {}
    /\ \A db \in Kept(disk, "db") :
         /\ Kept(disk, "wal") \subseteq {db.id}
         /\ db.tls => Kept(disk, "cert") # {} /\ Kept(disk, "cert") = Kept(disk, "key")

\* A restore is all or nothing: the database a start opens, its log and the TLS
\* files are those the last serving panel left, with every committed write, or
\* those of the backup staged then. (TLSEnabled may have been given up since.)
SameDB(d, e) == d # {} /\ \A x \in d, y \in e : x.id = y.id /\ x.headers = y.headers /\ x.acme = y.acme
IsOld ==
  /\ SameDB(disk[<<"live", "db">>], served[<<"live", "db">>])
  /\ served[<<"live", "wal">>] \subseteq disk[<<"live", "wal">>]
  /\ \A f \in {"cert", "key"} : disk[<<"live", f>>] = served[<<"live", f>>]
IsNew ==
  LET tls == TRUE \in served[<<"pending", "restore.json">>]
      dir == IF tls THEN "pending" ELSE "live"
  IN /\ served[<<"pending", "db">>] # {}
     /\ SameDB(disk[<<"live", "db">>], served[<<"pending", "db">>])
     /\ \A f \in {"cert", "key"} : disk[<<"live", f>>] = served[<<dir, f>>]
OldOrNew == Main("opening") => IsOld \/ IsNew

\* The secrets in the database can be read with this server's keys when the
\* panel serves, wherever the backup came from, and nothing is left of a restore
\* that a later start would roll back.
RestoreIsSettled ==
  Main("serving") =>
    /\ DB.headers = Here /\ DB.acme \in {NoToken, Here}
    /\ ~Has("live", "applied")
=============================================================================
