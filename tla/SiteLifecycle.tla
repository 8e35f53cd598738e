--------------------------- MODULE SiteLifecycle ---------------------------
(***************************************************************************)
(* The lifecycle of sites: the panel's create, toggle, update and delete   *)
(* handlers, the sites rows they write, the ProxyManager calls they make   *)
(* (StartSite, StopSite, RegisterSiteHost, UnregisterSiteHost), the        *)
(* instances and shared-host routes those calls change, process start,     *)
(* graceful shutdown and crashes.                                          *)
(*                                                                         *)
(* Atomicity.  App.siteLifecycleMu admits one handler at a time and        *)
(* pm.lifecycleMu one manager call at a time, GracefulShutdown included;   *)
(* the steps of a handler interleave with GracefulShutdown.  A failing     *)
(* SQLite statement, a drain deadline, a listen error, a dead Serve loop   *)
(* and a crash are faults, bounded together by MaxFault.  A host stands    *)
(* for the key of a shared route: a public host or a path prefix.          *)
(***************************************************************************)
EXTENDS Naturals, FiniteSets

CONSTANTS Site, Port, Host,
          None,         \* no port, no host
          Config,       \* the ingress settings a site may be given
          Coalescing,   \* sites with progress coalescing: their drain can fail
          MaxFault      \* bound on faults

ASSUME ConfigAssumption ==
  /\ None \notin Port \cup Host \cup Site
  /\ Config \subseteq [port: Port \cup {None}, host: Host \cup {None}]
  /\ \A c \in Config : c.port # None \/ c.host # None
  /\ Coalescing \subseteq Site
  /\ MaxFault \in Nat

VARIABLES
  row,          \* the sites table
  inst,         \* pm.proxies
  route,        \* pm.publicHosts and pm.pathPrefixes
  op,           \* the handler (or the startup loop) holding siteLifecycleMu
  call,         \* the StartSite or StopSite holding pm.lifecycleMu
  phase,        \* the life of the process
  draining,     \* instances the current GracefulShutdown still has to settle
  shutdownStarted,
  faults,
  adrift,       \* history: sites whose last operation ended in a reported failure to restore
  unrouted      \* history: likewise, sites whose route may be wrong

database == <<row>>
runtime == <<inst, route, shutdownStarted>>
history == <<adrift, unrouted>>
vars == <<row, inst, route, op, call, phase, draining, shutdownStarted, faults,
          adrift, unrouted>>

NoConfig == [port |-> None, host |-> None]
NoRow == [state |-> "absent", cfg |-> NoConfig]
NoInstance == [gate |-> "absent", cfg |-> NoConfig, serving |-> FALSE]
NoOp == [kind |-> "none", site |-> None, at |-> "idle", cfg |-> NoConfig,
         old |-> NoConfig, result |-> "none"]
NoCall == [fn |-> "none", at |-> "idle", failed |-> FALSE]

Plain == Site \ Coalescing
Exists(s) == row[s].state # "absent"
Enabled(s) == row[s].state = "enabled"
Accepting(s) == inst[s].gate = "open"
ShutdownPass == {"first pass", "second pass"}
LockFree == call.fn = "none" /\ phase \notin ShutdownPass

(* IsRunning: isOperational of the installed instance. *)
IsRunning(s) == Accepting(s) /\ (inst[s].cfg.host # None \/ inst[s].serving)

(* A dedicated port is held by the instance whose listener is open. *)
Bound(port) == \E t \in Site : inst[t].serving /\ inst[t].cfg.port = port

(* listen_port, public_host and path_prefix are unique in the table. *)
Unique(s, c) == \A t \in Site \ {s} : Exists(t) =>
                   /\ c.port = None \/ row[t].cfg.port # c.port
                   /\ c.host = None \/ row[t].cfg.host # c.host

(* PublicHostSiteID and PathPrefixSiteID. *)
RouteFree(s, c) == c.host # None => route[c.host] \in {None, s}

Init ==
  /\ row = [s \in Site |-> NoRow]
  /\ inst = [s \in Site |-> NoInstance]
  /\ route = [h \in Host |-> None]
  /\ op = NoOp /\ call = NoCall
  /\ phase = "up" /\ draining = {} /\ shutdownStarted = FALSE
  /\ faults = 0 /\ adrift = {} /\ unrouted = {}

Fault == faults < MaxFault /\ faults' = faults + 1

-----------------------------------------------------------------------------
(* How a handler moves on                                                  *)

Goto(label) == op' = [op EXCEPT !.at = label, !.result = "none"]

(* The handler answers, with everything it undid restored. *)
Answer == op' = NoOp /\ UNCHANGED history

(* The handler answers that it succeeded. *)
Succeed == /\ op' = NoOp
           /\ adrift' = adrift \ {op.site}
           /\ unrouted' = IF op.kind = "off" THEN unrouted ELSE unrouted \ {op.site}

(* The handler answers that its own undoing failed too. *)
GiveUp == op' = NoOp /\ adrift' = adrift \cup {op.site} /\ UNCHANGED unrouted

Returned(label, result) == op.at = label /\ call.fn = "none" /\ op.result = result

(* A handler step that writes the row at most. *)
HandlerOnly == UNCHANGED <<runtime, call, phase, draining>>
NoFault == UNCHANGED faults

SetEnabled(s, state) == row' = [row EXCEPT ![s].state = state]
SetConfig(s, c) == row' = [row EXCEPT ![s].cfg = c]

-----------------------------------------------------------------------------
(* Handlers                                                                *)

Serving == phase \in {"up", "first pass"} /\ op.kind = "none"

(* POST: the row is inserted, enabled, and read back. *)
CreateSite(s, c) ==
  /\ Serving /\ ~Exists(s) /\ RouteFree(None, c) /\ Unique(s, c)
  /\ row' = [row EXCEPT ![s] = [state |-> "enabled", cfg |-> c]]
  /\ HandlerOnly
  /\ \/ /\ NoFault /\ UNCHANGED history
        /\ op' = [NoOp EXCEPT !.kind = "post", !.site = s, !.at = "start"]
     \/ Fault /\ UNCHANGED op /\ adrift' = adrift \cup {s} /\ unrouted' = unrouted \cup {s}

(* StartSite failed: the new row is deleted again. *)
RollBackCreate ==
  /\ op.kind = "post" /\ Returned("start", "refused")
  /\ HandlerOnly
  /\ \/ NoFault /\ row' = [row EXCEPT ![op.site] = NoRow] /\ Goto("unregister") /\ UNCHANGED history
     \/ Fault /\ op' = NoOp /\ adrift' = adrift \cup {op.site} /\ unrouted' = unrouted \cup {op.site}
             /\ UNCHANGED row

(* POST .../toggle of an enabled site. *)
ToggleOff(s) ==
  /\ Serving /\ Enabled(s)
  /\ op' = [NoOp EXCEPT !.kind = "off", !.site = s, !.at = "stop"]
  /\ HandlerOnly /\ NoFault /\ UNCHANGED <<database, history>>

(* The flag follows a stop that went past the point of no return. *)
PersistOff_AnyStop ==
  /\ op.kind = "off"
  /\ \E result \in {"ok", "closed", "refused"} : Returned("stop", result)
  /\ HandlerOnly /\ NoFault /\ SetEnabled(op.site, "disabled") /\ Succeed
PersistOff ==
  /\ op.kind = "off"
  /\ Returned("stop", "ok") \/ Returned("stop", "closed")
  /\ HandlerOnly
  /\ \/ NoFault /\ SetEnabled(op.site, "disabled") /\ Succeed
     \/ Fault /\ UNCHANGED row
             /\ IF op.result = "closed" THEN GiveUp ELSE Goto("reload to restart") /\ UNCHANGED history

(* POST .../toggle of a disabled site: the flag first. *)
ToggleOn(s) ==
  /\ Serving /\ row[s].state = "disabled"
  /\ SetEnabled(s, "enabled")
  /\ HandlerOnly /\ UNCHANGED history
  /\ \E label \in {"start", "revert"} :
        /\ op' = [NoOp EXCEPT !.kind = "on", !.site = s, !.at = label]
        /\ IF label = "revert" THEN Fault ELSE NoFault

RevertOn ==
  /\ op.kind = "on" /\ (op.at = "revert" \/ Returned("start", "refused"))
  /\ HandlerOnly
  /\ \/ NoFault /\ SetEnabled(op.site, "disabled") /\ Answer
     \/ Fault /\ UNCHANGED row /\ GiveUp

(* PUT: the old instance is stopped first when the new one needs its port. *)
UpdateSite(s, c) ==
  /\ Serving /\ Exists(s) /\ RouteFree(s, c)
  /\ LET needsPreStop == Enabled(s) /\ c.port # None /\ row[s].cfg.port = c.port /\ IsRunning(s)
     IN  op' = [NoOp EXCEPT !.kind = "put", !.site = s, !.cfg = c, !.old = row[s].cfg,
                            !.at = IF needsPreStop THEN "stop" ELSE "update"]
  /\ HandlerOnly /\ NoFault /\ UNCHANGED <<database, history>>

(* UpdateSiteRecord, which fails when the port or host is taken. *)
WriteUpdate ==
  /\ op.kind = "put" /\ (op.at = "update" \/ Returned("stop", "ok"))
  /\ HandlerOnly /\ UNCHANGED history
  /\ \/ NoFault /\ Unique(op.site, op.cfg) /\ SetConfig(op.site, op.cfg) /\ Goto("reload")
     \/ NoFault /\ ~Unique(op.site, op.cfg) /\ UNCHANGED row /\ Goto("reload old")
     \/ Fault /\ UNCHANGED row /\ Goto("reload old")

ReloadUpdated ==
  /\ op.kind = "put" /\ op.at = "reload"
  /\ HandlerOnly /\ UNCHANGED <<database, history>>
  /\ \/ NoFault /\ Goto(IF Enabled(op.site) THEN "start" ELSE "register")
     \/ Fault /\ Goto("roll back")

(* restoreSiteRecord. *)
RollBackUpdate ==
  /\ op.kind = "put" /\ (op.at = "roll back" \/ Returned("start", "refused"))
  /\ HandlerOnly
  /\ \/ NoFault /\ SetConfig(op.site, op.old) /\ Goto("reload old") /\ UNCHANGED history
     \/ /\ Fault /\ UNCHANGED row /\ op' = NoOp
        /\ adrift' = adrift \cup {op.site} /\ unrouted' = unrouted \cup {op.site}

(* The current row is read back and restarted if it is not running. *)
ReloadOld ==
  /\ op.kind = "put" /\ op.at = "reload old"
  /\ HandlerOnly /\ UNCHANGED database
  /\ \/ /\ NoFault
        /\ IF Enabled(op.site) /\ ~IsRunning(op.site)
           THEN Goto("restart") /\ UNCHANGED history ELSE Answer
     \/ Fault /\ GiveUp

(* A disabled site only claims its host. *)
RegisterUpdated ==
  /\ op.kind = "put" /\ op.at = "register" /\ LockFree
  /\ UNCHANGED <<database, inst, shutdownStarted, call, phase, draining>> /\ NoFault
  /\ IF shutdownStarted \/ ~RouteFree(op.site, row[op.site].cfg)
     THEN Goto("roll back route") /\ UNCHANGED <<route, history>>
     ELSE /\ route' = [h \in Host |-> IF h = row[op.site].cfg.host THEN op.site
                                      ELSE IF route[h] = op.site THEN None ELSE route[h]]
          /\ Succeed

RollBackRoute ==
  /\ op.kind = "put" /\ op.at = "roll back route"
  /\ HandlerOnly
  /\ \/ NoFault /\ SetConfig(op.site, op.old) /\ Answer
     \/ /\ Fault /\ UNCHANGED row /\ op' = NoOp
        /\ adrift' = adrift \cup {op.site} /\ unrouted' = unrouted \cup {op.site}

(* DELETE: only after a clean stop. *)
DeleteSite(s) ==
  /\ Serving /\ Exists(s)
  /\ op' = [NoOp EXCEPT !.kind = "delete", !.site = s, !.at = "stop"]
  /\ HandlerOnly /\ NoFault /\ UNCHANGED <<database, history>>

DeleteRow_AfterAnyStop ==
  /\ op.kind = "delete" /\ (Returned("stop", "ok") \/ Returned("stop", "closed"))
  /\ HandlerOnly /\ UNCHANGED history
  /\ \/ NoFault /\ row' = [row EXCEPT ![op.site] = NoRow] /\ Goto("unregister")
     \/ Fault /\ UNCHANGED row /\ Goto("reload to restart")
DeleteRow ==
  /\ op.kind = "delete" /\ Returned("stop", "ok")
  /\ HandlerOnly /\ UNCHANGED history
  /\ \/ NoFault /\ row' = [row EXCEPT ![op.site] = NoRow] /\ Goto("unregister")
     \/ Fault /\ UNCHANGED row /\ Goto("reload to restart")

(* UnregisterSiteHost, last step of a delete and of a create rolled back. *)
Unregister ==
  /\ op.at = "unregister" /\ LockFree
  /\ route' = [h \in Host |-> IF route[h] = op.site THEN None ELSE route[h]]
  /\ Succeed /\ NoFault
  /\ UNCHANGED <<database, inst, shutdownStarted, call, phase, draining>>

(* PUT and DELETE after a stop that closed the ingress but did not finish: *)
(* the row stays, disabled.                                                *)
DisableClosed ==
  /\ op.kind \in {"put", "delete"} /\ Returned("stop", "closed")
  /\ HandlerOnly
  /\ \/ NoFault /\ SetEnabled(op.site, "disabled") /\ Answer
     \/ Fault /\ UNCHANGED row /\ GiveUp

(* A stop that failed before closing anything aborts the operation. *)
StopRefused ==
  /\ Returned("stop", "refused")
  /\ Answer /\ HandlerOnly /\ NoFault /\ UNCHANGED database

(* The row survived its write: what was stopped is started again. *)
ReloadToRestart ==
  /\ op.at = "reload to restart"
  /\ HandlerOnly /\ UNCHANGED database
  /\ \/ NoFault /\ IF Enabled(op.site) THEN Goto("restart") /\ UNCHANGED history ELSE Answer
     \/ Fault /\ GiveUp

Restarted ==
  /\ HandlerOnly /\ NoFault /\ UNCHANGED database
  /\ \/ Returned("restart", "ok") /\ Answer
     \/ Returned("restart", "refused") /\ GiveUp

Started ==
  /\ op.kind \in {"post", "on", "put"} /\ Returned("start", "ok")
  /\ Succeed /\ HandlerOnly /\ NoFault /\ UNCHANGED database

-----------------------------------------------------------------------------
(* ProxyManager calls                                                      *)

Return(result) == call' = NoCall /\ op' = [op EXCEPT !.result = result]
Step(label) == call' = [call EXCEPT !.at = label] /\ UNCHANGED op

(* StopSite of a missing instance is a success. *)
BeginStop ==
  /\ op.at = "stop" /\ op.result = "none" /\ LockFree
  /\ IF inst[op.site].gate = "absent" THEN Return("ok")
     ELSE call' = [NoCall EXCEPT !.fn = "stop", !.at = "flush"] /\ UNCHANGED op
  /\ UNCHANGED <<database, runtime, phase, draining, faults, history>>

(* StartSite: refused once a shutdown began; a dedicated port must be free *)
(* before the old instance is touched, and the host not be another site's. *)
MayStart_DuringShutdown(s) ==
  /\ row[s].cfg.port # None => ~Bound(row[s].cfg.port)
  /\ RouteFree(s, row[s].cfg)
MayStart(s) ==
  /\ ~shutdownStarted
  /\ row[s].cfg.port # None => ~Bound(row[s].cfg.port)
  /\ RouteFree(s, row[s].cfg)

BeginStart ==
  /\ op.at \in {"start", "restart"} /\ op.result = "none" /\ LockFree
  /\ UNCHANGED <<database, runtime, phase, draining, history>>
  /\ \/ /\ MayStart(op.site) /\ NoFault /\ UNCHANGED op
        /\ call' = [NoCall EXCEPT !.fn = "start",
                      !.at = IF inst[op.site].gate = "absent" THEN "install" ELSE "flush"]
     \/ ~MayStart(op.site) /\ NoFault /\ Return("refused")
     \/ MayStart(op.site) /\ Fault /\ Return("refused")

(* Persistence is checked before anything is closed. *)
CheckPersistence ==
  /\ call.at = "flush"
  /\ UNCHANGED <<database, runtime, phase, draining, history>>
  /\ \/ NoFault /\ Step("close")
     \/ Fault /\ Return(IF call.fn = "stop" /\ ~Accepting(op.site) THEN "closed" ELSE "refused")

Closed(s) == [inst EXCEPT ![s].gate = "closed", ![s].serving = FALSE]

(* inst.shutdown: pending progress reports first -- a failure there leaves *)
(* the instance as it is --, then the gate, listener and connections.      *)
CloseIngress ==
  /\ call.at = "close"
  /\ UNCHANGED <<database, route, shutdownStarted, phase, draining, history>>
  /\ \/ NoFault /\ inst' = Closed(op.site) /\ Step("drain")
     \/ /\ op.site \in Coalescing /\ Fault /\ UNCHANGED inst
        /\ IF call.fn = "start" THEN Return("refused")
           ELSE call' = [call EXCEPT !.at = "final", !.failed = TRUE] /\ UNCHANGED op

(* The requests inside end, or the deadline passes. *)
Drain ==
  /\ call.at = "drain"
  /\ UNCHANGED <<database, runtime, phase, draining, history>>
  /\ \/ NoFault /\ Step("final")
     \/ /\ Fault
        /\ IF call.fn = "start" THEN Return("refused")
           ELSE call' = [call EXCEPT !.at = "final", !.failed = TRUE] /\ UNCHANGED op

(* The flush after the drain.  StopSite removes the instance when both     *)
(* went well and reports siteIngressClosedError otherwise.                 *)
FinalFlush ==
  /\ call.at = "final"
  /\ UNCHANGED <<database, route, shutdownStarted, phase, draining, history>>
  /\ \/ /\ NoFault
        /\ IF call.fn = "start" THEN Step("install") /\ UNCHANGED inst
           ELSE IF call.failed THEN Return("closed") /\ UNCHANGED inst
           ELSE Return("ok") /\ inst' = [inst EXCEPT ![op.site] = NoInstance]
     \/ /\ Fault /\ UNCHANGED inst
        /\ Return(IF call.fn = "start" THEN "refused" ELSE "closed")

(* registerSiteHostLocked and pm.proxies[id] = inst. *)
Routes_KeepsOld(s, c) ==
  [h \in Host |-> IF h = c.host THEN s ELSE route[h]]
Routes(s, c) ==
  [h \in Host |-> IF h = c.host THEN s ELSE IF route[h] = s THEN None ELSE route[h]]

Install ==
  /\ call.at = "install"
  /\ LET c == row[op.site].cfg
     IN  /\ inst' = [inst EXCEPT ![op.site] =
                       [gate |-> "open", cfg |-> c, serving |-> c.port # None]]
         /\ route' = Routes(op.site, c)
  /\ Return("ok")
  /\ UNCHANGED <<database, shutdownStarted, phase, draining, faults, history>>

(* The Serve loop of a dedicated port ends by itself: portServeFailed. *)
ServeFails(s) ==
  /\ inst[s].serving /\ Accepting(s) /\ Fault
  /\ inst' = [inst EXCEPT ![s].serving = FALSE]
  /\ UNCHANGED <<database, route, shutdownStarted, op, call, phase, draining, history>>

-----------------------------------------------------------------------------
(* The life of the process                                                 *)

(* GracefulShutdown takes lifecycleMu, refuses further starts and shuts    *)
(* every instance; main calls it before and after the panel server drains. *)
BeginShutdown ==
  /\ phase \in {"up", "panel drain"} /\ call.fn = "none" /\ op.kind # "boot"
  /\ phase' = IF phase = "up" THEN "first pass" ELSE "second pass"
  /\ shutdownStarted' = TRUE
  /\ draining' = {s \in Site : inst[s].gate # "absent"}
  /\ UNCHANGED <<database, inst, route, op, call, faults, history>>

(* One instance: closed, drained, flushed and removed; or closed only,     *)
(* when the drain or the last flush failed; or, when its progress reports  *)
(* could not be drained, left as it is.                                    *)
ShutInstance(s) ==
  /\ phase \in ShutdownPass /\ s \in draining
  /\ draining' = draining \ {s}
  /\ UNCHANGED <<database, route, shutdownStarted, op, call, phase, history>>
  /\ \/ NoFault /\ inst' = [inst EXCEPT ![s] = NoInstance]
     \/ Fault /\ inst' = Closed(s)
     \/ Fault /\ s \in Coalescing /\ UNCHANGED inst

EndPass_WaitsForHandler ==
  /\ phase \in ShutdownPass /\ draining = {} /\ op.kind = "none"
  /\ phase' = IF phase = "first pass" THEN "panel drain" ELSE "exit"
  /\ UNCHANGED <<database, runtime, op, call, draining, faults, history>>
EndPass ==
  /\ phase \in ShutdownPass /\ draining = {}
  /\ phase' = IF phase = "first pass" THEN "panel drain" ELSE "exit"
  /\ UNCHANGED <<database, runtime, op, call, draining, faults, history>>

(* The process ends: after its shutdown, or at any point by a crash. *)
Down == /\ phase' = "down"
        /\ inst' = [s \in Site |-> NoInstance]
        /\ route' = [h \in Host |-> None]
        /\ shutdownStarted' = FALSE /\ draining' = {}
        /\ op' = NoOp /\ call' = NoCall
        /\ adrift' = {} /\ unrouted' = {}
        /\ UNCHANGED database

Exit == phase = "exit" /\ Down /\ NoFault
Crash == phase # "down" /\ Fault /\ Down

(* StartAllEnabled: the hosts of all rows, then the enabled sites, one by  *)
(* one; a site that fails to start is logged and skipped.                  *)
HostOwner(h) == {s \in Site : Exists(s) /\ row[s].cfg.host = h}
Boot ==
  /\ phase = "down"
  /\ route' = [h \in Host |-> IF HostOwner(h) = {} THEN None ELSE CHOOSE s \in HostOwner(h) : TRUE]
  /\ phase' = "booting" /\ draining' = {s \in Site : Enabled(s)}
  /\ UNCHANGED <<database, inst, shutdownStarted, op, call, faults, history>>

BootSite(s) ==
  /\ phase = "booting" /\ op.kind = "none" /\ s \in draining
  /\ op' = [NoOp EXCEPT !.kind = "boot", !.site = s, !.at = "start"]
  /\ UNCHANGED <<database, runtime, call, phase, draining, faults, history>>

BootedSite ==
  /\ op.kind = "boot"
  /\ \/ Returned("start", "ok") /\ Succeed
     \/ Returned("start", "refused") /\ GiveUp
  /\ draining' = draining \ {op.site}
  /\ UNCHANGED <<database, runtime, call, phase, faults>>

Booted ==
  /\ phase = "booting" /\ op.kind = "none" /\ draining = {}
  /\ phase' = "up"
  /\ UNCHANGED <<database, runtime, op, call, draining, faults, history>>

-----------------------------------------------------------------------------
Request == \E s \in Site : \/ ToggleOff(s) \/ ToggleOn(s) \/ DeleteSite(s)
                           \/ \E c \in Config : CreateSite(s, c) \/ UpdateSite(s, c)
Handler == \/ RollBackCreate \/ PersistOff \/ RevertOn \/ WriteUpdate \/ ReloadUpdated
           \/ RollBackUpdate \/ ReloadOld \/ RegisterUpdated \/ RollBackRoute
           \/ DeleteRow \/ Unregister \/ DisableClosed \/ StopRefused
           \/ ReloadToRestart \/ Restarted \/ Started
Manager == \/ BeginStop \/ BeginStart \/ CheckPersistence \/ CloseIngress
           \/ Drain \/ FinalFlush \/ Install
Shutdown == EndPass \/ \E s \in Site : ShutInstance(s)
Startup == Booted \/ BootedSite \/ \E s \in Site : BootSite(s)
Environment == BeginShutdown \/ Exit \/ Crash \/ Boot \/ \E s \in Site : ServeFails(s)

Next == Request \/ Handler \/ Manager \/ Shutdown \/ Startup \/ Environment

Spec == Init /\ [][Next]_vars

(* Statements, flushes and drains return: each has a timeout. *)
Fairness == WF_vars(Handler) /\ WF_vars(Manager) /\ WF_vars(Shutdown) /\ WF_vars(Startup)

FairSpec == Spec /\ Fairness

-----------------------------------------------------------------------------
(* Properties                                                              *)

(* Types, and the two mutexes: a manager call belongs to the handler in    *)
(* progress and never runs while GracefulShutdown holds lifecycleMu.       *)
TypeOK ==
  /\ row \in [Site -> [state: {"absent", "enabled", "disabled"}, cfg: Config \cup {NoConfig}]]
  /\ inst \in [Site -> [gate: {"absent", "open", "closed"}, cfg: Config \cup {NoConfig},
                        serving: BOOLEAN]]
  /\ route \in [Host -> Site \cup {None}]
  /\ op \in [kind: {"none", "boot", "post", "off", "on", "put", "delete"},
             site: Site \cup {None},
             at: {"idle", "start", "restart", "stop", "update", "reload", "reload old",
                  "reload to restart", "register", "roll back", "roll back route",
                  "revert", "unregister"},
             cfg: Config \cup {NoConfig}, old: Config \cup {NoConfig},
             result: {"none", "ok", "refused", "closed"}]
  /\ call \in [fn: {"none", "start", "stop"},
               at: {"idle", "flush", "close", "drain", "final", "install"},
               failed: BOOLEAN]
  /\ phase \in {"booting", "up", "panel drain", "exit", "down"} \cup ShutdownPass
  /\ draining \subseteq Site
  /\ shutdownStarted \in BOOLEAN
  /\ faults \in 0..MaxFault
  /\ adrift \subseteq Site /\ unrouted \subseteq Site
  /\ call.fn # "none" => op.site \in Site /\ phase \notin ShutdownPass

(* Between operations *)
Quiet == phase = "up" /\ op.kind = "none"

(* Whatever failed and was rolled back on the way, an operation that did   *)
(* not report a failed rollback leaves an enabled row with an accepting    *)
(* instance of exactly that configuration.                                 *)
EnabledMeansAccepting ==
  Quiet => \A s \in Site \ adrift :
              Enabled(s) => Accepting(s) /\ inst[s].cfg = row[s].cfg

(* A site that is disabled or deleted does not serve; a stop that could    *)
(* not finish has at least closed the ingress.                             *)
DisabledMeansClosed ==
  Quiet => \A s \in Plain \ adrift : Accepting(s) => Enabled(s)

(* Between operations the rows say what runs, in both directions: through  *)
(* failures and rollbacks of toggles, updates and deletes (app_sites.go).  *)
RowsMatchInstances == EnabledMeansAccepting /\ DisabledMeansClosed

(* The shared routes are those of the rows, disabled ones included.        *)
RoutesMatchRows ==
  Quiet => \A s \in Site \ unrouted, h \in Host :
              route[h] = s <=> Exists(s) /\ row[s].cfg.host = h

(* At no point, not between two steps of an update either, does a shared   *)
(* route lead to an accepting instance configured for another host.        *)
RoutesReachTheirConfig ==
  \A h \in Host : \A s \in Plain :
     route[h] = s /\ Accepting(s) => inst[s].cfg.host = h

(* The routes that the sites share follow the rows after every operation,  *)
(* and lead nowhere wrong in the middle of one (RegisterSiteHost).         *)
RoutesAgree == RoutesMatchRows /\ RoutesReachTheirConfig

(* A retained instance has a row to persist its counters in.               *)
RowOutlivesInstance == \A s \in Site : inst[s].gate # "absent" => Exists(s)

(* Once the first shutdown pass is over no instance accepts requests, even *)
(* with a handler in the middle of a start or a rollback.                  *)
NothingAcceptsAfterShutdown ==
  phase \in {"panel drain", "second pass", "exit"} => \A s \in Plain : ~Accepting(s)

(* An operation in progress ends.                                          *)
OperationsFinish == op.kind # "none" ~> op.kind = "none"
=============================================================================
