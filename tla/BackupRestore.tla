---------------------------- MODULE BackupRestore ----------------------------
(* Export and restore. An upload is validated, migrated to this server's     *)
(* keys and staged in the pending directory; the next start copies what it   *)
(* will replace to the rollback directory, writes the applied marker and     *)
(* replaces it. A start that finds the marker rolls back; the marker goes    *)
(* when the restored installation serves.                                    *)
EXTENDS PanelDisk

CONSTANTS
  Upload,         \* backups made elsewhere: records [db, tls, cert, key, enabled]
  MaxExport,      \* bound on exports
  MaxStage        \* bound on uploads that pass validation

ASSUME RestoreAssumption == {MaxExport, MaxStage} \subseteq Nat
\* The secrets of a backup are encrypted with the keys that come with it.
ASSUME UploadAssumption ==
  \A archive \in Upload :
    /\ DOMAIN archive = {"db", "tls", "cert", "key", "enabled"} /\ archive.tls \in BOOLEAN
    /\ DOMAIN archive.db = {"id", "tls", "headers", "acme"} /\ archive.db.tls \in BOOLEAN
    /\ archive.db.acme \in {NoToken, archive.db.headers}

VARIABLES
  archives,       \* the backups an administrator may upload
  exporter,       \* handleBackupExport: what it has read so far
  staged          \* uploads staged so far

restoreVars == <<archives, exporter, staged>>

NotExporting == [at |-> "idle"]

RestoreInit == archives = Upload /\ exporter = NotExporting /\ staged = 0

-----------------------------------------------------------------------------
(* Export: the database in one snapshot, then the TLS files one by one,      *)
(* without the mutex of the certificate manager. backupMu keeps exports and  *)
(* uploads apart.                                                            *)

ExportDatabase ==
  /\ exporter = NotExporting
  /\ Cardinality(archives \ Upload) < MaxExport
  /\ \E tls \in BOOLEAN :
       LET archive == [db |-> DB, tls |-> tls, cert |-> {}, key |-> {}, enabled |-> {}]
       IN IF tls THEN /\ exporter' = [at |-> 1, archive |-> archive]
                      /\ UNCHANGED archives
          ELSE archives' = archives \union {archive} /\ UNCHANGED exporter
  /\ UNCHANGED <<disk, events, staged>>

ExportFile ==
  /\ exporter # NotExporting
  /\ LET f == TLSFiles[exporter.at]
         archive == [exporter.archive EXCEPT ![f] = disk[<<"live", f>>]]
     IN IF exporter.at < Len(TLSFiles)
          THEN exporter' = [at |-> exporter.at + 1, archive |-> archive] /\ UNCHANGED archives
          ELSE exporter' = NotExporting /\ archives' = archives \union {archive}
  /\ UNCHANGED <<disk, events, staged>>

-----------------------------------------------------------------------------
(* writeRestorePending.                                                      *)

\* Without TLS in the backup, the panel settings of this server stay.
WithPreservedSettings(archive) ==
  IF archive.tls THEN archive.db ELSE [archive.db EXCEPT !.tls = DB.tls, !.acme = DB.acme]

\* TLS needs a certificate and a key; that they are a pair is not asked. (A
\* database with TLS has a route domain here: without one neither is needed.)
Stageable(archive) ==
  archive.tls /\ archive.db.tls => archive.cert # {} /\ archive.key # {}

\* Mutant: only the token that came with the backup is migrated.
Reencrypted_TokenOnly(db, from) == [db EXCEPT !.acme = IF @ = from THEN Here ELSE @]

\* reencryptRestoredSecrets: a preserved token is encrypted with this server's
\* keys already.
Reencrypted(db, from) ==
  [db EXCEPT !.headers = Here, !.acme = IF @ = from THEN Here ELSE @]

\* The staged directory: restore.json says whether TLS is part of it.
Pending(archive) ==
  [p \in In("pending") |->
     CASE p[2] = "db" -> {Reencrypted(WithPreservedSettings(archive), archive.db.headers)}
       [] p[2] = "restore.json" -> {archive.tls}
       [] p[2] \in {"cert", "key", "enabled"} -> archive[p[2]]
       [] OTHER -> {}]

\* The upload is refused or staged; when the staged directory cannot be renamed,
\* the one staged before it is gone.
StageRestore(archive) ==
  /\ exporter = NotExporting
  /\ staged < MaxStage /\ staged' = staged + 1
  /\ Stageable(archive)
  /\ \/ disk' = Changed(Pending(archive)) /\ UNCHANGED events
     \/ Exists("pending") /\ Event /\ disk' = Changed(Removed(In("pending")))
  /\ UNCHANGED <<archives, exporter>>

-----------------------------------------------------------------------------
(* The start. Scope is whether restore.json of a directory says that TLS is  *)
(* part of the restore; without the file it is.                              *)

Scope(dir) == TRUE \in disk[<<dir, "restore.json">>] \/ ~Has(dir, "restore.json")

\* Mutant: the log of the database that is rolled back stays in place.
RollbackDatabase_DropsLog ==
  << Optional(Remove("rollingBack", "live", "db")), Move("rollingBack", "rollback", "live", "db"),
     Optional(Remove("rollingBack", "live", "wal")) >>

RollbackDatabase ==
  << Optional(Remove("rollingBack", "live", "db")), Move("rollingBack", "rollback", "live", "db"),
     Optional(Remove("rollingBack", "live", "wal")),
     MoveIfPresent("rollingBack", "rollback", "live", "wal") >>

\* Order among the TLS files is that of a Go map: no property depends on it.
RollbackTLS ==
  LET back(f) == << Optional(Remove("rollingBack", "live", f)),
                    Copy("rollingBack", "rollback", "live", f) >>
  IN back("cert") \o back("key") \o back("enabled")

\* rollbackRestoreFiles.
RollbackFiles == RollbackDatabase \o (IF Scope("rollback") THEN RollbackTLS ELSE <<>>)

Unmarked == <<Optional(Remove("rollingBack", "live", "applied"))>>
Discarded == <<Optional(RemoveAll("cleaning", "rollback")), Optional(RemoveAll("cleaning", "pending"))>>

\* applyPendingRestore with the marker of an unfinished restore, and its
\* deferred rollback.
UndoRestore == RollbackFiles \o Unmarked \o Discarded

\* Copies of everything that will be replaced. rollbackReady is set before
\* those of the TLS files.
CopyOut ==
  << RemoveAll("copying", "rollback"), Copy("copying", "live", "rollback", "db"),
     Copy("copying", "live", "rollback", "wal"), Copy("copying", "pending", "rollback", "restore.json") >> \o
  (IF Scope("pending") THEN CopyTLS("copyingTLS", "live", "rollback") ELSE <<>>)

Mark == <<Write("replacing", "applied", {TRUE})>>

Replace ==
  (IF Scope("pending") THEN RemoveTLS("replacing", "live") ELSE <<>>) \o
  << Remove("replacing", "live", "db"), Remove("replacing", "live", "wal"),
     Move("replacing", "pending", "live", "db") >> \o
  (IF Scope("pending") THEN CopyTLS("replacing", "pending", "live") ELSE <<>>) \o
  << RemoveAll("replacing", "pending") >>

\* Mutant: the marker is written when the files are in place.
ApplyRestore_MarksLast == CopyOut \o Replace \o Mark

\* applyPendingRestore with a staged restore.
ApplyRestore == CopyOut \o Mark \o Replace

\* rollbackAppliedRestore, when the restored database does not open.
RevertRestore == RollbackFiles \o Unmarked \o <<RemoveAll("cleaning", "rollback")>>

\* finalizeAppliedRestore.
FinalizeRestore ==
  <<Remove("finalizing", "live", "applied"), RemoveAll("finalizing", "rollback")>>
=============================================================================
