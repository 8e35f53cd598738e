--------------------------- MODULE PanelCertificate --------------------------
(* The certificate of the panel: issued on request of an administrator or by *)
(* the renewal scheduler, installed as three files under the manager's       *)
(* mutex with a copy of the earlier ones to put back, and given up when it   *)
(* expires. The settings that go with it are in the database.                *)
(*                                                                           *)
(* Bounded here: one handler issues at a time, and one scheduler. What a     *)
(* certificate authority and a DNS provider answer is success or an error.   *)
EXTENDS PanelDisk

CONSTANTS
  MaxIssue,       \* bound on certificates issued
  MaxAge          \* bound on the times a certificate ages

ASSUME CertificateAssumption == {MaxIssue, MaxAge} \subseteq Nat

Issuer == {"handler", "scheduler"}
None == 0

VARIABLES
  issuer,         \* handlePanelCertificateIssue and the scheduler's check
  issuing,        \* panelCertificateManager.issuing
  current,        \* panelCertificateManager.currentCertificate, None if nil
  tlsOn,          \* App.panelTLSEnabled: the panel listens with TLS
  settingsRead,   \* what handlePanelSettings read of TLSEnabled
  issued,         \* the last certificate issued
  ages            \* per certificate: 0 in use, 1 due for renewal, 2 expired

certificateVars == <<issuer, issuing, current, tlsOn, settingsRead, issued, ages>>

Idle == [at |-> "idle"]

CertificateInit ==
  /\ issuer = [i \in Issuer |-> Idle]
  /\ issuing = FALSE /\ current = None /\ tlsOn = FALSE /\ settingsRead = {}
  /\ issued = 1
  /\ ages = [c \in 1..(1 + MaxIssue) |-> 0]

At(i, at) == issuer[i].at = at
Goes(i, state) == issuer' = [issuer EXCEPT ![i] = state]

\* Who holds the manager's mutex between two steps.
Locked == \E i \in Issuer : issuer[i].at \in {"installing", "restoring"}

AgeOf(f) == IF Has("live", f) /\ The("live", f) \in DOMAIN ages THEN ages[The("live", f)] ELSE 0
Expired == Has("live", "cert") /\ AgeOf("cert") = 2
NeedsRenewal == ~Has("live", "cert") \/ AgeOf("cert") > 0

SetDB(db) == disk' = [disk EXCEPT ![<<"live", "db">>] = {db}]

\* Time passes for the certificate in use.
Age ==
  /\ Has("live", "cert") /\ The("live", "cert") \in DOMAIN ages
  /\ AgeOf("cert") < MaxAge
  /\ ages' = [ages EXCEPT ![The("live", "cert")] = @ + 1]
  /\ UNCHANGED <<disk, events, issuer, issuing, current, tlsOn, settingsRead, issued>>

-----------------------------------------------------------------------------
(* Issuing.                                                                  *)

\* The administrator's request: the credentials are saved; a certificate that
\* is not due is used again.
HandlerBegins ==
  /\ At("handler", "idle") /\ ~Locked
  /\ IF ~NeedsRenewal
       THEN /\ SetDB([DB EXCEPT !.acme = Here, !.tls = TRUE]) /\ UNCHANGED issuer
       ELSE SetDB([DB EXCEPT !.acme = Here]) /\ Goes("handler", [at |-> "asking"])
  /\ UNCHANGED <<events, issuing, current, tlsOn, settingsRead, issued, ages>>

\* The scheduler's check, with settings and status read first: it gives up an
\* expired certificate, or renews one that is due.
SchedulerChecks ==
  /\ At("scheduler", "idle") /\ ~Locked
  /\ DB.tls
  /\ \/ ~issuing /\ Expired /\ Goes("scheduler", [at |-> "disabling"])
     \/ /\ issuing \/ ~Expired
        /\ NeedsRenewal /\ DB.acme = Here
        /\ Goes("scheduler", [at |-> "asking"])
  /\ UNCHANGED <<disk, events, issuing, current, tlsOn, settingsRead, issued, ages>>

\* issueCloudflare admits one at a time.
IssueBegins(i) ==
  /\ At(i, "asking")
  /\ IF issuing THEN Goes(i, Idle) /\ UNCHANGED issuing
                ELSE Goes(i, [at |-> "issuing"]) /\ issuing' = TRUE
  /\ UNCHANGED <<disk, events, current, tlsOn, settingsRead, issued, ages>>

IssueEnds(i) ==
  /\ At(i, "issuing")
  /\ issuing' = FALSE
  /\ \/ Goes(i, Idle) /\ UNCHANGED issued
     \/ /\ issued <= MaxIssue /\ issued' = issued + 1
        /\ Goes(i, [at |-> "issued", certificate |-> issued'])
  /\ UNCHANGED <<disk, events, current, tlsOn, settingsRead, ages>>

-----------------------------------------------------------------------------
(* Installing.                                                               *)

Writes(part, files) ==
  << Write(part, "key", files.key), Write(part, "cert", files.cert),
     Write(part, "enabled", files.enabled) >>

BackUp(i) ==
  /\ At(i, "issued") /\ ~Locked
  /\ LET kept == [f \in {"cert", "key", "enabled"} |-> disk[<<"live", f>>]]
     IN Goes(i, [at |-> "backedUp", certificate |-> issuer[i].certificate, kept |-> kept])
  /\ UNCHANGED <<disk, events, issuing, current, tlsOn, settingsRead, issued, ages>>

InstallBegins(i) ==
  /\ At(i, "backedUp") /\ ~Locked
  /\ LET c == issuer[i].certificate
         files == [cert |-> {c}, key |-> {c}, enabled |-> {TRUE}]
     IN Goes(i, [at |-> "installing", certificate |-> c, kept |-> issuer[i].kept,
                 todo |-> Writes("installing", files)])
  /\ UNCHANGED <<disk, events, issuing, current, tlsOn, settingsRead, issued, ages>>

\* The copy is put back next.
Undoing(i) == [at |-> "undoing", kept |-> issuer[i].kept]

\* Mutant: only the certificate is put back.
Restoring_CertificateOnly(i) ==
  [at |-> "restoring", todo |-> <<Writes("restoring", issuer[i].kept)[2]>>]

\* restoreInstalledFiles.
Restoring(i) == [at |-> "restoring", todo |-> Writes("restoring", issuer[i].kept)]

RestoreBegins(i) ==
  /\ At(i, "undoing") /\ ~Locked
  /\ Goes(i, Restoring(i))
  /\ UNCHANGED <<disk, events, issuing, current, tlsOn, settingsRead, issued, ages>>

\* The error of a restoring write is dropped, with the writes after it.
FileWritten(i) ==
  /\ issuer[i].at \in {"installing", "restoring"}
  /\ issuer[i].todo # <<>>
  /\ LET todo == issuer[i].todo
     IN \/ /\ Performed(Head(todo)) /\ Goes(i, [issuer[i] EXCEPT !.todo = Tail(todo)])
           /\ UNCHANGED events
        \/ /\ Fails(Head(todo))
           /\ Goes(i, IF At(i, "restoring") THEN Idle ELSE Undoing(i))
           /\ UNCHANGED disk
  /\ UNCHANGED <<issuing, current, tlsOn, settingsRead, issued, ages>>

\* All files written: a renewal is active at once, a request saves settings.
FilesWritten(i) ==
  /\ issuer[i].at \in {"installing", "restoring"}
  /\ issuer[i].todo = <<>>
  /\ \/ At(i, "restoring") /\ Goes(i, Idle) /\ UNCHANGED current
     \/ /\ At(i, "installing") /\ i = "scheduler"
        /\ Goes(i, Idle) /\ current' = issuer[i].certificate
     \/ /\ At(i, "installing") /\ i = "handler"
        /\ Goes(i, [issuer[i] EXCEPT !.at = "saving"]) /\ UNCHANGED current
  /\ UNCHANGED <<disk, events, issuing, tlsOn, settingsRead, issued, ages>>

\* SaveManagedPanelSettings commits and reads the row back.
SettingsSaved ==
  /\ At("handler", "saving")
  /\ \/ /\ SetDB([DB EXCEPT !.tls = TRUE]) /\ UNCHANGED events
        /\ Goes("handler", [at |-> "activating", certificate |-> issuer["handler"].certificate])
     \/ Failure("saving") /\ UNCHANGED disk /\ Goes("handler", Undoing("handler"))
     \/ /\ Failure("readBack")
        /\ SetDB([DB EXCEPT !.tls = TRUE]) /\ Goes("handler", Undoing("handler"))
  /\ UNCHANGED <<issuing, current, tlsOn, settingsRead, issued, ages>>

\* Active at once unless the panel has to restart for it.
Activated ==
  /\ At("handler", "activating") /\ ~Locked
  /\ current' = IF tlsOn = DB.tls THEN issuer["handler"].certificate ELSE current
  /\ Goes("handler", Idle)
  /\ UNCHANGED <<disk, events, issuing, tlsOn, settingsRead, issued, ages>>

-----------------------------------------------------------------------------
(* Giving up TLS, and the other settings.                                    *)

\* disableExpiredPanelTLSIfNeeded in the scheduler: the setting, then the marker.
SettingDisabled ==
  /\ At("scheduler", "disabling")
  /\ SetDB([DB EXCEPT !.tls = FALSE])
  /\ Goes("scheduler", [at |-> "unmarking"])
  /\ UNCHANGED <<events, issuing, current, tlsOn, settingsRead, issued, ages>>

MarkerDisabled ==
  /\ At("scheduler", "unmarking") /\ ~Locked
  /\ current' = None
  /\ \/ Performed(Remove("disabling", "live", "enabled")) /\ UNCHANGED events
     \/ Event /\ UNCHANGED disk
  /\ Goes("scheduler", Idle)
  /\ UNCHANGED <<issuing, tlsOn, settingsRead, issued, ages>>

\* handlePanelSettings keeps the TLS setting it read.
SettingsRead ==
  /\ settingsRead = {}
  /\ settingsRead' = {DB.tls}
  /\ UNCHANGED <<disk, events, issuer, issuing, current, tlsOn, issued, ages>>

SettingsWritten ==
  /\ settingsRead # {}
  /\ \/ SetDB([DB EXCEPT !.tls = TRUE \in settingsRead]) /\ UNCHANGED events
     \/ Event /\ UNCHANGED disk
  /\ settingsRead' = {}
  /\ UNCHANGED <<issuer, issuing, current, tlsOn, issued, ages>>
=============================================================================
